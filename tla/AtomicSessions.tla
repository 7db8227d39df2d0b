--------------------------- MODULE AtomicSessions --------------------------
(***************************************************************************)
(* What websocket_session.h and mongrel2_ws_broadcast promise to threads   *)
(* that share a session table: each call takes effect at one instant       *)
(* between its start and its return.  In particular a broadcast reaches    *)
(* the sessions of one instant, each once for every node it has then, or   *)
(* fewer times when memory is short: a frame it cannot make is skipped.    *)
(*                                                                         *)
(* The preconditions are the callers' business: adding a session that is   *)
(* in the table or removing one that is not ends the process, except that  *)
(* with NDEBUG the former adds a second node.                              *)
(***************************************************************************)
EXTENDS Integers

CONSTANTS
  Threads,      \* the threads that share the table
  Main,         \* the one that initialises it
  Conns,        \* the connection ids, which are the keys of the table
  NDEBUG,       \* whether assert() is compiled out
  AllocMayFail  \* whether calloc may return NULL

VARIABLES
  table,    \* the number of nodes the dictionary holds for each key
  call,     \* the call each thread is in
  result,   \* its result, once it has taken effect
  dead      \* the process has crashed or aborted

vars == <<table, call, result, dead>>

Keyed == {"add", "remove", "contains"}
Calls == [name : Keyed, conn : Conns] \cup [name : {"broadcast"}]
NoCall == [name |-> "none"]
InitCall == [name |-> "init"]

\* A broadcast results in the number of times it sent to each session,
\* contains in whether it found the key.
Pending == [type |-> "pending"]
Done == [type |-> "done"]
Found(b) == [type |-> "found", found |-> b]
Sent(f) == [type |-> "sent", sent |-> f]

Init ==
  /\ table = [c \in Conns |-> 0]
  /\ call = [t \in Threads |-> IF t = Main THEN InitCall ELSE NoCall]
  /\ result = [t \in Threads |-> IF t = Main THEN Done ELSE Pending]
  /\ dead = FALSE

Invoke(t) ==
  /\ call[t] = NoCall
  /\ \E c \in Calls : call' = [call EXCEPT ![t] = c]
  /\ UNCHANGED <<table, result, dead>>

Return(t) ==
  /\ call[t] # NoCall /\ result[t] # Pending
  /\ call' = [call EXCEPT ![t] = NoCall]
  /\ result' = [result EXCEPT ![t] = Pending]
  /\ UNCHANGED <<table, dead>>

Running(t, name) == call[t] # NoCall /\ call[t].name = name /\ result[t] = Pending

Yields(t, r) == result' = [result EXCEPT ![t] = r] /\ UNCHANGED <<call, dead>>

Dies == dead' = TRUE /\ UNCHANGED <<table, call, result>>

Add(t) ==
  /\ Running(t, "add")
  /\ table[call[t].conn] = 0 \/ NDEBUG
  /\ table' = [table EXCEPT ![call[t].conn] = @ + 1]
  /\ Yields(t, Done)

\* Without memory for the node and without assertions, the call returns as
\* if the session had been added.
AddNothing(t) ==
  /\ Running(t, "add") /\ AllocMayFail /\ NDEBUG
  /\ Yields(t, Done) /\ UNCHANGED table

Remove(t) ==
  /\ Running(t, "remove") /\ table[call[t].conn] # 0
  /\ table' = [table EXCEPT ![call[t].conn] = @ - 1]
  /\ Yields(t, Done)

Contains(t) ==
  /\ Running(t, "contains")
  /\ Yields(t, Found(table[call[t].conn] # 0)) /\ UNCHANGED table

\* What a broadcast may send to the sessions: a frame for each node, of which
\* some are skipped when memory is short.
Numbers == UNION {0..table[c] : c \in Conns}
Frames ==
  {table} \cup {f \in [Conns -> Numbers] : AllocMayFail /\ \A c \in Conns : f[c] <= table[c]}

Broadcast(t) ==
  /\ Running(t, "broadcast")
  /\ \E f \in Frames : Yields(t, Sent(f))
  /\ UNCHANGED table

Die(t) ==
  /\ \/ Running(t, "add") /\ ~NDEBUG /\ table[call[t].conn] # 0
     \/ Running(t, "remove") /\ table[call[t].conn] = 0
     \/ AllocMayFail /\ \E name \in Keyed \cup {"broadcast"} : Running(t, name)
  /\ Dies

Next ==
  /\ ~dead
  /\ \E t \in Threads :
       Invoke(t) \/ Return(t) \/ Add(t) \/ AddNothing(t) \/ Remove(t)
       \/ Contains(t) \/ Broadcast(t) \/ Die(t)

Spec == Init /\ [][Next]_vars
============================================================================
