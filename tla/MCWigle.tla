-------------------------------- MODULE MCWigle --------------------------------
(* Small instances of Wigle for TLC, with the two entries of its credentials. *)
EXTENDS Wigle

\* KeyringStore.Save and Load of internal/wigle/keyring.go: name, then token.
CredentialEntry == {"api-name", "token"}
CredentialRank == [e \in CredentialEntry |-> IF e = "api-name" THEN 0 ELSE 1]

===============================================================================
