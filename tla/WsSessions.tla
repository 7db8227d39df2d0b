----------------------------- MODULE WsSessions ----------------------------
(***************************************************************************)
(* The session table of websocket_session.c and mongrel2_ws_broadcast,     *)
(* called by several threads.  Every call runs between lock and unlock of  *)
(* dict_mutex.  Inside, the search of the dictionary, its update and each  *)
(* round of the broadcast loop are steps of their own, so that what a call *)
(* read can be stale when it is used, unless the mutex prevents it.        *)
(*                                                                         *)
(* The dictionary is the number of nodes it holds for each connection id.  *)
(* RedBlackDict models how dict.c keeps them.                              *)
(***************************************************************************)
EXTENDS Integers

CONSTANTS
  Threads,      \* the threads that share the table
  Main,         \* the one that called mongrel2_ws_sessions_state_init
  Conns,        \* the connection ids, which are the keys of the table
  NDEBUG,       \* whether assert() is compiled out (wscript: release, debug)
  AllocMayFail, \* whether calloc may return NULL
  MaxNodes,     \* bound: the nodes a key may get, for NDEBUG allows duplicates
  NoOne         \* the owner of a free mutex

ASSUME SessionsAssumption ==
  /\ Main \in Threads /\ NoOne \notin Threads
  /\ Conns \subseteq Nat /\ MaxNodes \in Nat
  /\ NDEBUG \in BOOLEAN /\ AllocMayFail \in BOOLEAN

VARIABLES
  owner,    \* dict_mutex: the thread that holds it
  pc,       \* where each thread is in its call
  call,     \* the call each thread is in
  table,    \* the number of nodes the dictionary holds for each key
  found,    \* the nodes dict_lookup or the descent of dict_insert met
  iter,     \* the iter of mongrel2_ws_broadcast
  sent,     \* how often the current broadcast sent to each session
  result,   \* the result of the call, once the thread has computed it
  dead      \* the process has crashed or aborted

Atomic == INSTANCE AtomicSessions

shared == <<owner, table, dead>>
local == <<pc, call, found, iter, sent, result>>
vars == <<owner, pc, call, table, found, iter, sent, result, dead>>

\* A node of the dictionary: the nth of a key.
Nodes == [conn : Conns, nth : Nat]
End == [conn |-> -1, nth |-> 0]
NoneSent == [c \in Conns |-> 0]

\* mongrel2_ws_sessions_state_init leaves the mutex locked: unlocking it is
\* the first thing Main does.
Init ==
  /\ owner = Main
  /\ pc = [t \in Threads |-> IF t = Main THEN "unlock" ELSE "idle"]
  /\ call = [t \in Threads |-> IF t = Main THEN Atomic!InitCall ELSE Atomic!NoCall]
  /\ table = [c \in Conns |-> 0]
  /\ found = [t \in Threads |-> 0]
  /\ iter = [t \in Threads |-> End]
  /\ sent = [t \in Threads |-> NoneSent]
  /\ result = [t \in Threads |-> IF t = Main THEN Atomic!Done ELSE Atomic!Pending]
  /\ dead = FALSE

At(t, l) == ~dead /\ pc[t] = l
Goto(t, l) == pc' = [pc EXCEPT ![t] = l]
Dies == dead' = TRUE /\ UNCHANGED <<owner, pc, call, table, found, iter, sent, result>>

----------------------------------------------------------------------------
\* For mutation: mongrel2_ws_broadcast without its lock.
CallBroadcastUnlocked(t, c) ==
  /\ At(t, "idle")
  /\ c.name = "add" => table[c.conn] < MaxNodes
  /\ Goto(t, IF c.name = "broadcast" THEN "first" ELSE "lock")
  /\ call' = [call EXCEPT ![t] = c]
  /\ UNCHANGED <<owner, table, found, iter, sent, result, dead>>

Call(t, c) ==
  /\ At(t, "idle")
  /\ c.name = "add" => table[c.conn] < MaxNodes
  /\ Goto(t, "lock")
  /\ call' = [call EXCEPT ![t] = c]
  /\ UNCHANGED <<owner, table, found, iter, sent, result, dead>>

\* For mutation: a lock that does not wait for the owner.
LockWithoutWaiting(t) ==
  /\ At(t, "lock")
  /\ owner' = t
  /\ Goto(t, IF call[t].name = "broadcast" THEN "first" ELSE "search")
  /\ UNCHANGED <<call, table, found, iter, sent, result, dead>>

mongrel2_ws_sessions_state_lock(t) ==
  /\ At(t, "lock") /\ owner = NoOne
  /\ owner' = t
  /\ Goto(t, IF call[t].name = "broadcast" THEN "first" ELSE "search")
  /\ UNCHANGED <<call, table, found, iter, sent, result, dead>>

\* For mutation: contains returns early without unlocking.
SearchReturningLocked(t) ==
  /\ At(t, "search")
  /\ found' = [found EXCEPT ![t] = table[call[t].conn]]
  /\ IF call[t].name # "contains" THEN UNCHANGED <<call, result>> /\ Goto(t, "update")
     ELSE IF found'[t] # 0
     THEN /\ result' = [result EXCEPT ![t] = Atomic!Found(TRUE)]
          /\ Goto(t, "unlock") /\ UNCHANGED call
     ELSE /\ call' = [call EXCEPT ![t] = Atomic!NoCall]
          /\ Goto(t, "idle") /\ UNCHANGED result
  /\ UNCHANGED <<owner, table, iter, sent, dead>>

\* A key for the request is allocated and looked up: dict_lookup, or the
\* descent of dict_insert.  A key that could not be allocated is a null
\* pointer that the next line writes to.
Search(t) ==
  /\ At(t, "search")
  /\ \/ /\ found' = [found EXCEPT ![t] = table[call[t].conn]]
        /\ IF call[t].name = "contains"
           THEN /\ result' = [result EXCEPT ![t] = Atomic!Found(found'[t] # 0)]
                /\ Goto(t, "unlock")
           ELSE UNCHANGED result /\ Goto(t, "update")
        /\ UNCHANGED <<owner, call, table, iter, sent, dead>>
     \/ AllocMayFail /\ Dies

Updates(t, n) ==
  /\ table' = [table EXCEPT ![call[t].conn] = n]
  /\ result' = [result EXCEPT ![t] = Atomic!Done]
  /\ Goto(t, "unlock")
  /\ UNCHANGED <<owner, call, found, iter, sent, dead>>

\* dict_insert asserts that the key is new; without assertions it links a
\* second node.  When the node cannot be allocated the assertion on the
\* result fails, or, without assertions, nothing is inserted.
mongrel2_ws_sessions_state_add(t) ==
  /\ At(t, "update") /\ call[t].name = "add"
  /\ \/ IF found[t] # 0 /\ ~NDEBUG THEN Dies ELSE Updates(t, table[call[t].conn] + 1)
     \/ AllocMayFail /\ IF NDEBUG THEN Updates(t, table[call[t].conn]) ELSE Dies

\* For mutation: a node that was not found is deleted.
RemoveUnchecked(t) ==
  /\ At(t, "update") /\ call[t].name = "remove"
  /\ Updates(t, table[call[t].conn] - 1)

\* dict_delete_free of the node dict_lookup returned: a null pointer, when the
\* key is not in the table.
mongrel2_ws_sessions_state_remove(t) ==
  /\ At(t, "update") /\ call[t].name = "remove"
  /\ IF found[t] = 0 THEN Dies ELSE Updates(t, table[call[t].conn] - 1)

----------------------------------------------------------------------------
(* mongrel2_ws_broadcast, from after its lock to before its unlock. *)

\* iter becomes the first of the nodes whose keys are in S, or NULL.
IterTo(t, S) ==
  \/ S = {} /\ iter' = [iter EXCEPT ![t] = End]
  \/ \E c \in S : /\ \A d \in S : c <= d
                  /\ iter' = [iter EXCEPT ![t] = [conn |-> c, nth |-> 1]]

Present == {c \in Conns : table[c] > 0}

First(t) ==
  /\ At(t, "first")
  /\ IterTo(t, Present)
  /\ Goto(t, "send")
  /\ UNCHANGED <<owner, call, table, found, sent, result, dead>>

\* The while loop: mongrel2_ws_reply to the session of iter.  Its result is
\* ignored: a reply for which there is no memory does not end the broadcast,
\* unless it is the message that could not be allocated, or an assertion fails.
Send(t) ==
  /\ At(t, "send") /\ iter[t] # End
  /\ \/ /\ \/ sent' = [sent EXCEPT ![t][iter[t].conn] = @ + 1]
           \/ AllocMayFail /\ UNCHANGED sent
        /\ Goto(t, "next")
        /\ UNCHANGED <<owner, call, table, found, iter, result, dead>>
     \/ AllocMayFail /\ Dies

\* For mutation: the iteration goes to the next key, past equal ones.
NextKey(t) ==
  /\ At(t, "next")
  /\ IterTo(t, {c \in Present : c > iter[t].conn})
  /\ Goto(t, "send")
  /\ UNCHANGED <<owner, call, table, found, sent, result, dead>>

dict_next(t) ==
  /\ At(t, "next")
  /\ IF iter[t].nth < table[iter[t].conn]
     THEN iter' = [iter EXCEPT ![t].nth = @ + 1]
     ELSE IterTo(t, {c \in Present : c > iter[t].conn})
  /\ Goto(t, "send")
  /\ UNCHANGED <<owner, call, table, found, sent, result, dead>>

\* The end of the loop.
AllSent(t) ==
  /\ At(t, "send") /\ iter[t] = End
  /\ result' = [result EXCEPT ![t] = Atomic!Sent(sent[t])]
  /\ Goto(t, "unlock")
  /\ UNCHANGED <<owner, call, table, found, iter, sent, dead>>

mongrel2_ws_broadcast(t) == First(t) \/ Send(t) \/ dict_next(t) \/ AllSent(t)

----------------------------------------------------------------------------
\* The call returns: its locals are gone.
mongrel2_ws_sessions_state_unlock(t) ==
  /\ At(t, "unlock")
  /\ owner' = NoOne
  /\ Goto(t, "idle")
  /\ call' = [call EXCEPT ![t] = Atomic!NoCall]
  /\ result' = [result EXCEPT ![t] = Atomic!Pending]
  /\ found' = [found EXCEPT ![t] = 0]
  /\ iter' = [iter EXCEPT ![t] = End]
  /\ sent' = [sent EXCEPT ![t] = NoneSent]
  /\ UNCHANGED <<table, dead>>

\* The steps of a thread that holds the mutex.
Inside(t) ==
  \/ Search(t)
  \/ mongrel2_ws_sessions_state_add(t)
  \/ mongrel2_ws_sessions_state_remove(t)
  \/ mongrel2_ws_broadcast(t)
  \/ mongrel2_ws_sessions_state_unlock(t)

Step(t) ==
  \/ \E c \in Atomic!Calls : Call(t, c)
  \/ mongrel2_ws_sessions_state_lock(t)
  \/ Inside(t)

Next == \E t \in Threads : Step(t)

Spec == Init /\ [][Next]_vars

\* A thread that holds the mutex is scheduled: none of the steps it takes
\* waits for anything.  Nothing is assumed of who gets the mutex.
FairSpec == Spec /\ \A t \in Threads : WF_vars(Inside(t))

----------------------------------------------------------------------------
(* Properties. *)

Labels == {"idle", "lock", "search", "update", "first", "send", "next", "unlock"}
Critical == Labels \ {"idle", "lock"}

TypeOK ==
  /\ owner \in Threads \cup {NoOne}
  /\ pc \in [Threads -> Labels]
  /\ call \in [Threads -> Atomic!Calls \cup {Atomic!NoCall, Atomic!InitCall}]
  /\ table \in [Conns -> Nat]
  /\ found \in [Threads -> Nat]
  /\ iter \in [Threads -> Nodes \cup {End}]
  /\ sent \in [Threads -> [Conns -> Nat]]
  /\ dead \in BOOLEAN

\* Only the owner of dict_mutex is between lock and unlock, from
\* mongrel2_ws_sessions_state_init on, which takes the mutex for its caller.
OnlyOwnerInside == \A t \in Threads : pc[t] \in Critical <=> owner = t

\* What a call found is still true of the table when the next step relies on
\* it: the update finds the nodes that the search found, and dict_next is
\* called with a node that is still in the dictionary.
NothingStale ==
  \A t \in Threads :
    /\ pc[t] = "update" => found[t] = table[call[t].conn]
    /\ pc[t] = "next" => iter[t].nth <= table[iter[t].conn]

\* Every call takes effect at one instant.
TakesEffectAtOnce == Atomic!Spec

\* Whoever takes the mutex gives it back, unless the process ends.
MutexGivenBack == \A t \in Threads : owner = t ~> (owner # t \/ dead)
============================================================================
