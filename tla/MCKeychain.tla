------------------------------ MODULE MCKeychain ------------------------------
(* The keychain entries of the control plane's profile, for TLC. *)
EXTENDS Keychain

\* KeyringStore.Save ranges over a map with the first three, in any order.
ProfileEntry == {"ca", "client-cert", "client-key", "client-id"}
ProfileWriteRank == [e \in ProfileEntry |-> IF e = "client-id" THEN 1 ELSE 0]
ProfileReadRank ==
    [e \in ProfileEntry |->
        CASE e = "ca" -> 0 [] e = "client-cert" -> 1
          [] e = "client-key" -> 2 [] e = "client-id" -> 3]

===============================================================================
