------------------------------- MODULE Keychain -------------------------------
(***************************************************************************)
(* Credentials in the keychain of the operating system.  KeyringStore of   *)
(* internal/controlplane/keyring.go keeps a profile in four entries, the   *)
(* one of internal/wigle/keyring.go an API name and a token in two; both   *)
(* save and load them one entry at a time, and nothing guards a save or a  *)
(* load from another one, of the same process or of another.               *)
(*                                                                         *)
(* The keychain is external: each operation on an entry succeeds or fails. *)
(* Credentials are a value; its entries are the parts of that value.       *)
(***************************************************************************)
EXTENDS Naturals

CONSTANTS
    Value,      \* credentials somebody may save
    None,       \* an entry that is not there
    Entry,      \* the entries of a value
    WriteRank,  \* Save writes entries of a lower rank first, those of one rank
                \* in any order
    ReadRank,   \* Load reads entries in the order of their rank
    Saver,      \* saves that can be under way at the same time
    Loader      \* loads that can be under way at the same time

ASSUME KeychainAssumption ==
    /\ None \notin Value
    /\ Entry # {}
    /\ WriteRank \in [Entry -> Nat]
    /\ ReadRank \in [Entry -> Nat]

VARIABLES
    entry,   \* the keychain
    saving,  \* what each save writes and has left to write
    loading, \* what each load has read and has left to read
    saved    \* history: the last save, if it was complete, undisturbed by
             \* another, and none was begun since

keychainVars == <<entry, saving, loading, saved>>

\* alone: history, no other save was under way since this one began.
SaveState == [value : Value \cup {None}, left : SUBSET Entry, alone : BOOLEAN]
NoSave == [value |-> None, left |-> {}, alone |-> FALSE]

\* of: history, what was saved all the time the load was under way.
LoadState == [phase : {"idle", "reading", "loaded", "failed"},
              got : [Entry -> Value \cup {None}], left : SUBSET Entry,
              of : Value \cup {None}]
NoLoad == [phase |-> "idle", got |-> [e \in Entry |-> None], left |-> {}, of |-> None]

KeychainTypeOK ==
    /\ entry \in [Entry -> Value \cup {None}]
    /\ saving \in [Saver -> SaveState]
    /\ loading \in [Loader -> LoadState]
    /\ saved \in Value \cup {None}

KeychainInit ==
    /\ entry = [e \in Entry |-> None]
    /\ saving = [s \in Saver |-> NoSave]
    /\ loading = [l \in Loader |-> NoLoad]
    /\ saved = None

Saving == {s \in Saver : saving[s].value # None}

\* The entries of a set that come first in an order.
First(rank, left) == {e \in left : \A d \in left : rank[e] <= rank[d]}

-------------------------------------------------------------------------------
(* Save *)

\* Incomplete credentials are refused before anything is written.
BeginSave(s, v) ==
    /\ s \notin Saving
    /\ saving' = [r \in Saver |->
          IF r = s THEN [value |-> v, left |-> Entry, alone |-> Saving = {}]
                   ELSE [saving[r] EXCEPT !.alone = FALSE]]
    /\ saved' = None
    /\ loading' = [l \in Loader |-> [loading[l] EXCEPT !.of = None]]
    /\ UNCHANGED entry

\* LoadIsOneProfile: an entry that is there is not written again.
Written_Fault(s, e) == IF entry[e] = None THEN saving[s].value ELSE entry[e]

Written(s, e) == saving[s].value

WriteEntry(s, e) ==
    /\ s \in Saving
    /\ e \in First(WriteRank, saving[s].left)
    /\ entry' = [entry EXCEPT ![e] = Written(s, e)]
    /\ saving' = [saving EXCEPT ![s].left = @ \ {e}]
    /\ UNCHANGED <<loading, saved>>

\* The entry may have been written all the same.  The entries before it stay.
\* A process that is killed between two entries leaves the same.
WriteFails(s, e) ==
    /\ s \in Saving
    /\ e \in First(WriteRank, saving[s].left)
    /\ entry' \in {entry, [entry EXCEPT ![e] = saving[s].value]}
    /\ saving' = [saving EXCEPT ![s] = NoSave]
    /\ UNCHANGED <<loading, saved>>

EndSave(s) ==
    /\ s \in Saving
    /\ saving[s].left = {}
    /\ saving' = [saving EXCEPT ![s] = NoSave]
    /\ saved' = IF saving[s].alone THEN saving[s].value ELSE None
    /\ UNCHANGED <<entry, loading>>

-------------------------------------------------------------------------------
(* Load *)

BeginLoad(l) ==
    /\ loading[l].phase = "idle"
    /\ loading' = [loading EXCEPT ![l] =
          [NoLoad EXCEPT !.phase = "reading", !.left = Entry, !.of = saved]]
    /\ UNCHANGED <<entry, saving, saved>>

WithEntry(load, e, v) ==
    [load EXCEPT !.got[e] = v, !.left = @ \ {e},
                 !.phase = IF load.left = {e} THEN "loaded" ELSE @]

ReadEntry(l, e) ==
    /\ loading[l].phase = "reading"
    /\ e \in First(ReadRank, loading[l].left)
    /\ entry[e] # None
    /\ loading' = [loading EXCEPT ![l] = WithEntry(@, e, entry[e])]
    /\ UNCHANGED <<entry, saving, saved>>

\* The entry is not there, or the keychain refuses to give it.
ReadFails(l) ==
    /\ loading[l].phase = "reading"
    /\ loading' = [loading EXCEPT ![l].phase = "failed"]
    /\ UNCHANGED <<entry, saving, saved>>

\* The caller takes what was loaded.
Take(l) ==
    /\ loading[l].phase \in {"loaded", "failed"}
    /\ loading' = [loading EXCEPT ![l] = NoLoad]
    /\ UNCHANGED <<entry, saving, saved>>

-------------------------------------------------------------------------------
SaveNext ==
    \E s \in Saver :
        \/ \E v \in Value : BeginSave(s, v)
        \/ \E e \in Entry : WriteEntry(s, e) \/ WriteFails(s, e)
        \/ EndSave(s)

ReadNext(l) == ReadFails(l) \/ \E e \in Entry : ReadEntry(l, e)

LoadNext == \E l \in Loader : BeginLoad(l) \/ ReadNext(l) \/ Take(l)

KeychainNext == SaveNext \/ LoadNext

KeychainSpec == KeychainInit /\ [][KeychainNext]_keychainVars

-------------------------------------------------------------------------------
(* What a load promises *)

\* A load that no save overlaps gives the credentials saved last, every entry
\* of them, if that save was complete and overlapped no other
\* (KeyringStore.Save and Load, keyring.go:19-65).  Two saves at once, one that
\* fails half-way, or a save during the load may give entries of different
\* credentials, which Load does not notice.
LoadIsOneProfile ==
    \A l \in Loader :
        (loading[l].phase = "loaded" /\ loading[l].of # None) =>
            \A e \in Entry : loading[l].got[e] = loading[l].of

\* Without the condition this fails; see the README.
NeverMixed ==
    \A l \in Loader : loading[l].phase = "loaded" =>
        \A d, e \in Entry : loading[l].got[d] = loading[l].got[e]

-------------------------------------------------------------------------------
(* The inductive invariant *)

SavedIsStored ==
    saved # None => Saving = {} /\ \A e \in Entry : entry[e] = saved

\* What a save that is alone has written is there.
AloneIsStored ==
    \A s \in Saving : saving[s].alone =>
        /\ Saving = {s}
        /\ \A e \in Entry \ saving[s].left : entry[e] = saving[s].value

LoadFollows ==
    \A l \in Loader : loading[l].of # None =>
        /\ loading[l].of = saved
        /\ loading[l].phase \in {"reading", "loaded"} =>
              \A e \in Entry \ loading[l].left : loading[l].got[e] = saved
        /\ loading[l].phase = "loaded" => loading[l].left = {}

KeychainInv == KeychainTypeOK /\ SavedIsStored /\ AloneIsStored /\ LoadFollows

===============================================================================
