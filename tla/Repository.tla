----------------------------- MODULE Repository -----------------------------
(***************************************************************************)
(* What the metadata repositories promise to the handlers that read rows   *)
(* through them: an answer is the committed row, or one that a writer has  *)
(* superseded without having returned yet.  Once a writer has evicted, no  *)
(* row it superseded is ever handed out again.                             *)
(*                                                                         *)
(* ObjectStore.tla builds on this promise (its Visible, Supersede and      *)
(* Evict); MetadataCache.tla is shown to implement it.                     *)
(***************************************************************************)

CONSTANTS
    Ids,        \* what rows are looked up by
    Rows,       \* row contents
    Clients,    \* callers
    None        \* no row

VARIABLES
    rows,       \* committed rows: Ids -> Rows or None
    stale,      \* superseded rows whose writers have not evicted yet
    call        \* the read each client is in

vars == <<rows, stale, call>>

Ready == [pc |-> "ready", id |-> None, row |-> None]

Visible(i) == stale[i] \cup ({rows[i]} \ {None})

Init ==
    /\ rows \in [Ids -> Rows \cup {None}]
    /\ stale = [i \in Ids |-> {}]
    /\ call = [c \in Clients |-> Ready]

\* A transaction replaces or removes rows; what it supersedes is stale.
Commit ==
    /\ rows' \in [Ids -> Rows \cup {None}]
    /\ stale' = [i \in Ids |-> IF rows[i] # None /\ rows'[i] # rows[i]
                               THEN stale[i] \cup {rows[i]} ELSE stale[i]]
    /\ UNCHANGED call

\* The writer evicts some rows and returns.
Evict ==
    /\ stale' \in [Ids -> SUBSET Rows]
    /\ \A i \in Ids : stale'[i] \in {stale[i], {}}
    /\ UNCHANGED <<rows, call>>

Ask(c) ==
    /\ call[c] = Ready
    /\ \E i \in Ids : call' = [call EXCEPT ![c] = [pc |-> "reading", id |-> i, row |-> None]]
    /\ UNCHANGED <<rows, stale>>

\* The answer: a visible row, or that there is none.
Reply(c) ==
    /\ call[c].pc = "reading"
    /\ \E w \in Visible(call[c].id) \cup ({rows[call[c].id]} \cap {None}) :
        call' = [call EXCEPT ![c] = [pc |-> "done", id |-> call[c].id, row |-> w]]
    /\ UNCHANGED <<rows, stale>>

\* The caller has its answer, or the read failed.
Leave(c) ==
    /\ call[c] # Ready
    /\ call' = [call EXCEPT ![c] = Ready]
    /\ UNCHANGED <<rows, stale>>

Next ==
    \/ Commit
    \/ Evict
    \/ \E c \in Clients : Ask(c) \/ Reply(c) \/ Leave(c)

Spec == Init /\ [][Next]_vars

=============================================================================
