-------------------------- MODULE WsSessionsProofs -------------------------
(***************************************************************************)
(* For any number of threads and sessions: the mutex keeps the table to    *)
(* one thread, nothing a call read is stale when it is used, and the calls *)
(* implement AtomicSessions.                                               *)
(***************************************************************************)
EXTENDS WsSessions, TLAPS

\* The nodes of key c that a broadcast has sent to when iter is at node i and
\* i itself has been sent to (done) or not.
SentUpTo(c, i, done) ==
  IF i = End \/ c < i.conn THEN table[c]
  ELSE IF c # i.conn THEN 0 ELSE IF done THEN i.nth ELSE i.nth - 1

\* A broadcast counts n frames of m: all, unless memory was short for some.
Counts(n, m) == IF AllocMayFail THEN n <= m ELSE n = m

IterInTable(t) ==
  /\ iter[t] \in Nodes
  /\ 1 <= iter[t].nth /\ iter[t].nth <= table[iter[t].conn]

\* What is true of a thread at each label of its call.
LocalInv(t) ==
  /\ pc[t] = "idle" => call[t] = Atomic!NoCall /\ sent[t] = NoneSent
  /\ pc[t] = "lock" => call[t] \in Atomic!Calls /\ sent[t] = NoneSent
  /\ pc[t] = "search" => call[t] \in Atomic!Calls /\ call[t].name \in Atomic!Keyed
  /\ pc[t] = "update" => /\ call[t] \in Atomic!Calls /\ call[t].name \in {"add", "remove"}
                         /\ found[t] = table[call[t].conn]
  /\ pc[t] \in {"first", "send", "next"} => call[t] = [name |-> "broadcast"]
  /\ pc[t] = "first" => sent[t] = NoneSent
  /\ pc[t] = "send" => /\ iter[t] # End => IterInTable(t)
                       /\ \A c \in Conns : Counts(sent[t][c], SentUpTo(c, iter[t], FALSE))
  /\ pc[t] = "next" => /\ IterInTable(t)
                       /\ \A c \in Conns : Counts(sent[t][c], SentUpTo(c, iter[t], TRUE))
  /\ pc[t] = "unlock" => call[t] # Atomic!NoCall /\ result[t] # Atomic!Pending
  /\ pc[t] # "unlock" => result[t] = Atomic!Pending

TypeInv == TypeOK /\ result = [t \in Threads |-> result[t]]

IInv == TypeInv /\ OnlyOwnerInside /\ \A t \in Threads : LocalInv(t)

USE DEF Atomic!NoCall, Atomic!InitCall, Atomic!Calls, Atomic!Keyed,
        Atomic!Pending, Atomic!Done, Atomic!Found, Atomic!Sent

LEMMA EndIsNoNode == End \notin Nodes
  BY SessionsAssumption DEF End, Nodes

LEMMA InitInv == Init => IInv
<1> SUFFICES ASSUME Init PROVE IInv
  OBVIOUS
<1>1. TypeInv
  BY SessionsAssumption DEF Init, TypeInv, TypeOK, Labels, NoneSent
<1>2. OnlyOwnerInside
  BY SessionsAssumption DEF Init, OnlyOwnerInside, Critical, Labels
<1>3. ASSUME NEW t \in Threads PROVE LocalInv(t)
  BY DEF Init, LocalInv, NoneSent
<1>. QED
  BY <1>1, <1>2, <1>3 DEF IInv

\* Only the locals of t change in a step of t, and the shared state only when
\* t holds the mutex or takes it while it is free.
OthersKept(t) ==
  /\ \A u \in Threads \ {t} :
       /\ pc'[u] = pc[u] /\ call'[u] = call[u] /\ found'[u] = found[u]
       /\ iter'[u] = iter[u] /\ sent'[u] = sent[u] /\ result'[u] = result[u]
  /\ owner = t \/ table' = table

LEMMA OthersInv ==
  ASSUME IInv, NEW t \in Threads, OthersKept(t), NEW u \in Threads, u # t
  PROVE  LocalInv(u)'
<1>1. LocalInv(u) /\ pc[u] \in Labels
  BY DEF IInv, TypeInv, TypeOK
<1>2. CASE owner = t
  <2>1. pc[u] \in {"idle", "lock"}
    BY <1>1, <1>2 DEF IInv, OnlyOwnerInside, Critical
  <2>. QED
    BY <1>1, <2>1 DEF OthersKept, LocalInv
<1>3. CASE table' = table
  <2>1. \A c, i, b : SentUpTo(c, i, b)' = SentUpTo(c, i, b)
    BY <1>3 DEF SentUpTo, Counts
  <2>. QED
    BY <1>1, <1>3, <2>1 DEF OthersKept, LocalInv, IterInTable, SentUpTo, Counts
<1>. QED
  BY <1>2, <1>3 DEF OthersKept

\* A broadcast that moves on to the nodes of S has sent to all those before.
LEMMA IterToFacts ==
  ASSUME TypeInv, NEW t \in Threads, NEW S \in SUBSET Present, IterTo(t, S),
         table' = table, sent' = sent,
         \A c \in S : sent[t][c] = 0,
         \A c \in Conns \ S : (\E d \in S : c < d) \/ S = {} => Counts(sent[t][c], table[c]),
         \A c \in Conns \ S : (\A d \in S : d < c) /\ S # {} => sent[t][c] = 0,
         \A c \in Conns \ S : (\E d \in S : d < c) => sent[t][c] = 0
  PROVE  /\ iter' \in [Threads -> Nodes \cup {End}]
         /\ iter'[t] # End => IterInTable(t)'
         /\ \A c \in Conns : Counts(sent'[t][c], SentUpTo(c, iter[t], FALSE)')
         /\ \A u \in Threads \ {t} : iter'[u] = iter[u]
<1>0. /\ iter \in [Threads -> Nodes \cup {End}] /\ table \in [Conns -> Nat]
      /\ sent \in [Threads -> [Conns -> Nat]]
  BY DEF TypeInv, TypeOK
<1>1. CASE S = {} /\ iter' = [iter EXCEPT ![t] = End]
  BY <1>0, <1>1 DEF SentUpTo, Counts
<1>2. ASSUME NEW c \in S, \A d \in S : c <= d,
             iter' = [iter EXCEPT ![t] = [conn |-> c, nth |-> 1]]
      PROVE  /\ iter' \in [Threads -> Nodes \cup {End}]
             /\ iter'[t] # End => IterInTable(t)'
             /\ \A d \in Conns : Counts(sent'[t][d], SentUpTo(d, iter[t], FALSE)')
             /\ \A u \in Threads \ {t} : iter'[u] = iter[u]
  <2>1. c \in Conns /\ table[c] > 0 /\ c \in Nat
    BY SessionsAssumption DEF Present
  <2>2. iter'[t] = [conn |-> c, nth |-> 1] /\ iter'[t] \in Nodes /\ iter'[t] # End
    BY <1>0, <1>2, <2>1, EndIsNoNode DEF Nodes
  <2>3. ASSUME NEW d \in Conns PROVE Counts(sent[t][d], SentUpTo(d, iter[t], FALSE)')
    <3>1. d \in Nat
      BY SessionsAssumption
    <3>2. CASE d = c
      BY <2>1, <2>2, <3>2 DEF SentUpTo, Counts
    <3>3. CASE d < c
      <4>1. d \notin S
        BY <1>2, <2>1, <3>1, <3>3
      <4>. QED
        BY <2>2, <3>3, <4>1 DEF SentUpTo, Counts
    <3>4. CASE c < d
      <4>1. sent[t][d] = 0
        BY <3>4
      <4>. QED
        BY <2>1, <2>2, <3>1, <3>4, <4>1 DEF SentUpTo, Counts
    <3>5. d = c \/ d < c \/ c < d
      BY <2>1, <3>1
    <3>. QED
      BY <3>2, <3>3, <3>4, <3>5
  <2>4. IterInTable(t)'
    BY <1>0, <2>1, <2>2 DEF IterInTable
  <2>5. /\ iter' \in [Threads -> Nodes \cup {End}]
        /\ \A u \in Threads \ {t} : iter'[u] = iter[u]
    BY <1>0, <1>2, <2>1 DEF Nodes
  <2>. QED
    BY <2>3, <2>4, <2>5
<1>. QED
  BY <1>1, <1>2 DEF IterTo

\* A thread that is at a label of its call runs it with the mutex.
LEMMA Holding ==
  ASSUME IInv, NEW t \in Threads, pc[t] \in Critical
  PROVE  owner = t /\ owner # NoOne
  BY SessionsAssumption DEF IInv, OnlyOwnerInside

\* The mutex keeps one thread inside when a step of t keeps t on its side of
\* the lock.
LEMMA SameSide ==
  ASSUME IInv, NEW t \in Threads, OthersKept(t), owner' = owner,
         pc'[t] \in Critical <=> pc[t] \in Critical
  PROVE  OnlyOwnerInside'
  BY DEF IInv, OnlyOwnerInside, OthersKept

LEMMA StepInv ==
  ASSUME IInv, NEW t \in Threads, Step(t)
  PROVE  IInv' /\ OthersKept(t)
<1>1. TypeInv /\ OnlyOwnerInside /\ LocalInv(t) /\ pc[t] \in Labels
  BY DEF IInv, TypeInv, TypeOK
<1>2. /\ owner \in Threads \cup {NoOne} /\ pc \in [Threads -> Labels]
      /\ call \in [Threads -> Atomic!Calls \cup {Atomic!NoCall, Atomic!InitCall}]
      /\ table \in [Conns -> Nat] /\ found \in [Threads -> Nat]
      /\ iter \in [Threads -> Nodes \cup {End}] /\ sent \in [Threads -> [Conns -> Nat]]
      /\ dead \in BOOLEAN /\ DOMAIN result = Threads
      /\ result = [u \in Threads |-> result[u]]
  BY <1>1 DEF TypeInv, TypeOK
<1>goal. ASSUME OthersKept(t), TypeInv', OnlyOwnerInside', LocalInv(t)'
         PROVE  IInv' /\ OthersKept(t)
  BY <1>goal, OthersInv DEF IInv
<1>dies. ASSUME Dies PROVE IInv' /\ OthersKept(t)
  <2>1. OthersKept(t) /\ TypeInv' /\ OnlyOwnerInside'
    BY <1>1, <1>dies DEF Dies, OthersKept, TypeInv, TypeOK, OnlyOwnerInside
  <2>2. LocalInv(t)'
    BY <1>1, <1>dies DEF Dies, LocalInv, IterInTable, SentUpTo, Counts
  <2>. QED
    BY <1>goal, <2>1, <2>2
<1>3. ASSUME NEW c \in Atomic!Calls, Call(t, c) PROVE IInv' /\ OthersKept(t)
  <2>1. OthersKept(t) /\ owner' = owner /\ pc'[t] = "lock" /\ pc[t] = "idle"
    BY <1>2, <1>3 DEF Call, At, Goto, OthersKept
  <2>2. TypeInv'
    BY <1>2, <1>3 DEF Call, Goto, TypeInv, TypeOK, Labels
  <2>3. OnlyOwnerInside'
    BY <2>1, SameSide DEF Critical
  <2>4. LocalInv(t)'
    BY <1>1, <1>2, <1>3, <2>1 DEF Call, LocalInv
  <2>. QED
    BY <1>goal, <2>1, <2>2, <2>3, <2>4
<1>4. ASSUME mongrel2_ws_sessions_state_lock(t) PROVE IInv' /\ OthersKept(t)
  <2> DEFINE l == IF call[t].name = "broadcast" THEN "first" ELSE "search"
  <2>1. /\ OthersKept(t) /\ owner = NoOne /\ owner' = t /\ pc[t] = "lock" /\ pc'[t] = l
        /\ call' = call /\ sent' = sent /\ result' = result /\ call[t] \in Atomic!Calls
    BY <1>1, <1>2, <1>4 DEF mongrel2_ws_sessions_state_lock, At, Goto, OthersKept, LocalInv
  <2>2. TypeInv'
    BY <1>2, <1>4 DEF mongrel2_ws_sessions_state_lock, Goto, TypeInv, TypeOK, Labels
  <2>3. OnlyOwnerInside'
    BY <1>1, <2>1, SessionsAssumption DEF OnlyOwnerInside, OthersKept, Critical, Labels
  <2>4. LocalInv(t)'
    BY <1>1, <2>1 DEF LocalInv
  <2>. QED
    BY <1>goal, <2>1, <2>2, <2>3, <2>4
<1>5. ASSUME Search(t) PROVE IInv' /\ OthersKept(t)
  <2>1. CASE /\ found' = [found EXCEPT ![t] = table[call[t].conn]]
             /\ IF call[t].name = "contains"
                THEN /\ result' = [result EXCEPT ![t] = Atomic!Found(found'[t] # 0)]
                     /\ Goto(t, "unlock")
                ELSE UNCHANGED result /\ Goto(t, "update")
             /\ UNCHANGED <<owner, call, table, iter, sent, dead>>
    <3>1. pc[t] = "search" /\ call[t] \in Atomic!Calls /\ call[t].name \in Atomic!Keyed
      BY <1>1, <1>5 DEF Search, At, LocalInv
    <3>2. call[t].conn \in Conns /\ table[call[t].conn] \in Nat
      BY <1>2, <3>1
    <3>3. OthersKept(t) /\ owner' = owner /\ pc'[t] \in {"unlock", "update"}
      BY <1>2, <2>1 DEF Goto, OthersKept
    <3>4. TypeInv'
      BY <1>2, <2>1, <3>2 DEF Goto, TypeInv, TypeOK, Labels
    <3>5. OnlyOwnerInside'
      BY <3>1, <3>3, SameSide DEF Critical, Labels
    <3>6. found'[t] = table'[call'[t].conn] /\ call' = call /\ sent' = sent /\ iter' = iter
      BY <1>2, <2>1
    <3>7. result[t] = Atomic!Pending
      BY <1>1, <3>1 DEF LocalInv
    <3>8. LocalInv(t)'
      <4>1. CASE call[t].name = "contains"
        <5>1. pc'[t] = "unlock" /\ result'[t] # Atomic!Pending /\ call[t] # Atomic!NoCall
          BY <1>2, <2>1, <3>1, <4>1 DEF Goto
        <5>. QED
          BY <3>6, <5>1 DEF LocalInv
      <4>2. CASE call[t].name # "contains"
        <5>1. pc'[t] = "update" /\ result'[t] = result[t] /\ call[t].name \in {"add", "remove"}
          BY <1>2, <2>1, <3>1, <4>2 DEF Goto
        <5>. QED
          BY <3>1, <3>6, <3>7, <5>1 DEF LocalInv
      <4>. QED
        BY <4>1, <4>2
    <3>. QED
      BY <1>goal, <3>3, <3>4, <3>5, <3>8
  <2>. QED
    BY <1>5, <1>dies, <2>1 DEF Search
<1>6. ASSUME NEW n \in Nat, At(t, "update"), Updates(t, n) PROVE IInv' /\ OthersKept(t)
  <2>1. pc[t] = "update" /\ call[t] \in Atomic!Calls /\ call[t].name \in {"add", "remove"}
    BY <1>1, <1>6 DEF At, LocalInv
  <2>2. OthersKept(t) /\ owner' = owner /\ pc'[t] = "unlock"
    BY <1>2, <1>6, <2>1, Holding DEF Updates, Goto, OthersKept, Critical, Labels
  <2>3. TypeInv'
    BY <1>2, <1>6, <2>1 DEF Updates, Goto, TypeInv, TypeOK, Labels
  <2>4. OnlyOwnerInside'
    BY <2>1, <2>2, SameSide DEF Critical, Labels
  <2>5. LocalInv(t)'
    BY <1>1, <1>2, <1>6, <2>1, <2>2 DEF Updates, LocalInv
  <2>. QED
    BY <1>goal, <2>2, <2>3, <2>4, <2>5
<1>7. pc[t] = "update" => table[call[t].conn] \in Nat /\ found[t] = table[call[t].conn]
  BY <1>1, <1>2 DEF LocalInv
<1>8. ASSUME mongrel2_ws_sessions_state_add(t) PROVE IInv' /\ OthersKept(t)
  <2>1. At(t, "update") /\ table[call[t].conn] \in Nat /\ table[call[t].conn] + 1 \in Nat
    BY <1>7, <1>8 DEF mongrel2_ws_sessions_state_add, At
  <2>2. Dies \/ Updates(t, table[call[t].conn]) \/ Updates(t, table[call[t].conn] + 1)
    BY <1>8 DEF mongrel2_ws_sessions_state_add
  <2>. QED
    BY <1>6, <1>dies, <2>1, <2>2
<1>9. ASSUME mongrel2_ws_sessions_state_remove(t) PROVE IInv' /\ OthersKept(t)
  <2>1. At(t, "update") /\ (found[t] # 0 => table[call[t].conn] - 1 \in Nat)
    BY <1>7, <1>9 DEF mongrel2_ws_sessions_state_remove, At
  <2>2. Dies \/ (found[t] # 0 /\ Updates(t, table[call[t].conn] - 1))
    BY <1>9 DEF mongrel2_ws_sessions_state_remove
  <2>. QED
    BY <1>6, <1>dies, <2>1, <2>2
<1>10. ASSUME First(t) PROVE IInv' /\ OthersKept(t)
  <2>1. /\ pc[t] = "first" /\ pc'[t] = "send" /\ sent' = sent /\ table' = table
        /\ owner' = owner /\ call' = call /\ result' = result /\ sent[t] = NoneSent
        /\ found' = found /\ dead' = dead
    BY <1>1, <1>2, <1>10 DEF First, At, Goto, LocalInv
  <2>2. /\ iter' \in [Threads -> Nodes \cup {End}]
        /\ iter'[t] # End => IterInTable(t)'
        /\ \A c \in Conns : Counts(sent'[t][c], SentUpTo(c, iter[t], FALSE)')
        /\ \A u \in Threads \ {t} : iter'[u] = iter[u]
    <3>1. \A c \in Conns : sent[t][c] = 0
      BY <2>1 DEF NoneSent
    <3>2. \A c \in Conns \ Present : table[c] = 0
      BY <1>2 DEF Present
    <3>3. IterTo(t, Present) /\ Present \in SUBSET Present /\ Present \subseteq Conns
      BY <1>10 DEF First, Present
    <3> DEFINE S == Present
    <3>4. /\ S \in SUBSET Present /\ IterTo(t, S)
          /\ \A c \in S : sent[t][c] = 0
          /\ \A c \in Conns \ S : Counts(sent[t][c], table[c])
          /\ \A c \in Conns \ S : sent[t][c] = 0
      BY <3>1, <3>2, <3>3 DEF Counts
    <3> HIDE DEF S
    <3>. QED
      BY <1>1, <2>1, <3>4, IterToFacts
  <2>3. OthersKept(t)
    BY <1>2, <1>10, <2>1, <2>2 DEF First, Goto, OthersKept
  <2>4. TypeInv'
    BY <1>2, <1>10, <2>1, <2>2 DEF First, Goto, TypeInv, TypeOK, Labels
  <2>5. OnlyOwnerInside'
    BY <2>1, <2>3, SameSide DEF Critical, Labels
  <2>6. LocalInv(t)'
    BY <1>1, <2>1, <2>2 DEF LocalInv
  <2>. QED
    BY <1>goal, <2>3, <2>4, <2>5, <2>6
<1>11. ASSUME Send(t), ~Dies PROVE IInv' /\ OthersKept(t)
  <2>1. /\ pc[t] = "send" /\ pc'[t] = "next" /\ iter' = iter /\ table' = table
        /\ owner' = owner /\ call' = call /\ result' = result
        /\ found' = found /\ dead' = dead /\ pc' = [pc EXCEPT ![t] = "next"]
    BY <1>2, <1>11 DEF Send, At, Goto
  <2>2. IterInTable(t) /\ iter[t] # End /\ \A c \in Conns : Counts(sent[t][c], SentUpTo(c, iter[t], FALSE))
    BY <1>1, <1>11, <2>1 DEF Send, LocalInv
  <2>3. iter[t].conn \in Conns /\ iter[t].nth \in Nat
    BY <2>2 DEF IterInTable, Nodes
  <2>4. /\ sent' \in [Threads -> [Conns -> Nat]]
        /\ \A c \in Conns : \/ sent'[t][c] = IF c = iter[t].conn THEN sent[t][c] + 1 ELSE sent[t][c]
                            \/ AllocMayFail /\ sent'[t][c] = sent[t][c]
        /\ \A u \in Threads \ {t} : sent'[u] = sent[u]
    <3>1. CASE sent' = [sent EXCEPT ![t][iter[t].conn] = @ + 1]
      BY <1>2, <2>3, <3>1
    <3>2. CASE AllocMayFail /\ sent' = sent
      BY <1>2, <3>2
    <3>. QED
      BY <1>11, <3>1, <3>2 DEF Send
  <2>5. OthersKept(t) /\ TypeInv'
    BY <1>2, <2>1, <2>4 DEF OthersKept, TypeInv, TypeOK, Labels
  <2>6. \A c \in Conns : Counts(sent'[t][c], SentUpTo(c, iter[t], TRUE)')
    <3>1. \A c \in Conns : c \in Nat
      BY SessionsAssumption
    <3>. QED
      BY <1>2, <2>1, <2>2, <2>3, <2>4, <3>1 DEF SentUpTo, Counts
  <2>7. OnlyOwnerInside'
    BY <2>1, <2>5, SameSide DEF Critical, Labels
  <2>8. LocalInv(t)'
    BY <1>1, <2>1, <2>2, <2>6 DEF LocalInv, IterInTable
  <2>. QED
    BY <1>goal, <2>5, <2>7, <2>8
<1>12. ASSUME dict_next(t) PROVE IInv' /\ OthersKept(t)
  <2>1. /\ pc[t] = "next" /\ pc'[t] = "send" /\ sent' = sent /\ table' = table
        /\ owner' = owner /\ call' = call /\ result' = result
    BY <1>2, <1>12 DEF dict_next, At, Goto
  <2>2. IterInTable(t) /\ \A c \in Conns : Counts(sent[t][c], SentUpTo(c, iter[t], TRUE))
    BY <1>1, <2>1 DEF LocalInv
  <2>3. /\ iter[t].conn \in Conns /\ iter[t].nth \in Nat /\ iter[t] # End
        /\ \A c \in Conns : c \in Nat
    BY <2>2, EndIsNoNode, SessionsAssumption DEF IterInTable, Nodes
  <2>4. /\ iter' \in [Threads -> Nodes \cup {End}]
        /\ iter'[t] # End => IterInTable(t)'
        /\ \A c \in Conns : Counts(sent'[t][c], SentUpTo(c, iter[t], FALSE)')
        /\ \A u \in Threads \ {t} : iter'[u] = iter[u]
    <3>1. CASE iter[t].nth < table[iter[t].conn]
      <4>1. iter' = [iter EXCEPT ![t].nth = @ + 1]
        BY <1>12, <3>1 DEF dict_next
      <4>2. /\ iter'[t] = [conn |-> iter[t].conn, nth |-> iter[t].nth + 1]
            /\ iter'[t] \in Nodes
        <5>1. iter[t] \in Nodes
          BY <2>2 DEF IterInTable
        <5>2. iter'[t] = [iter[t] EXCEPT !.nth = @ + 1]
          BY <1>2, <4>1
        <5>. QED
          BY <5>1, <5>2 DEF Nodes
      <4>3. IterInTable(t)'
        BY <1>2, <2>1, <2>2, <2>3, <3>1, <4>2 DEF IterInTable
      <4>4. iter'[t] # End
        BY <4>2, EndIsNoNode
      <4>5. \A c \in Conns : Counts(sent'[t][c], SentUpTo(c, iter[t], FALSE)')
        BY <1>2, <2>1, <2>2, <2>3, <4>2, <4>4 DEF SentUpTo, Counts
      <4>6. \A u \in Threads \ {t} : iter'[u] = iter[u]
        BY <1>2, <4>1
      <4>7. iter' \in [Threads -> Nodes \cup {End}]
        BY <1>2, <4>1, <4>2
      <4>. QED
        BY <4>3, <4>5, <4>6, <4>7
    <3>2. CASE ~(iter[t].nth < table[iter[t].conn])
      <4> DEFINE S == {c \in Present : c > iter[t].conn}
      <4>1. IterTo(t, S) /\ S \in SUBSET Present /\ S \subseteq Conns
        BY <1>12, <3>2 DEF dict_next, Present
      <4>2. table[iter[t].conn] = iter[t].nth
        <5>1. table[iter[t].conn] \in Nat
          BY <1>2, <2>3
        <5>2. iter[t].nth <= table[iter[t].conn]
          BY <2>2 DEF IterInTable
        <5>. QED
          BY <2>3, <3>2, <5>1, <5>2
      <4>3. \A c \in Conns \ S : c > iter[t].conn => table[c] = 0
        BY <1>2 DEF Present
      <4>4. \A c \in Conns : Counts(sent[t][c], IF c <= iter[t].conn THEN table[c] ELSE 0)
        BY <2>2, <2>3, <4>2 DEF SentUpTo, Counts
      <4>5. /\ \A c \in S : sent[t][c] = 0
            /\ \A c \in Conns \ S : Counts(sent[t][c], table[c])
            /\ \A c \in Conns \ S : (\E d \in S : d < c) => sent[t][c] = 0
            /\ \A c \in Conns \ S : (\A d \in S : d < c) /\ S # {} => sent[t][c] = 0
        BY <1>2, <2>3, <4>1, <4>3, <4>4 DEF Counts
      <4> HIDE DEF S
      <4>. QED
        BY <1>1, <2>1, <4>1, <4>5, IterToFacts
    <3>. QED
      BY <3>1, <3>2
  <2>5. OthersKept(t) /\ TypeInv'
    BY <1>2, <1>12, <2>4 DEF dict_next, Goto, OthersKept, TypeInv, TypeOK, Labels
  <2>6. OnlyOwnerInside'
    BY <2>1, <2>5, SameSide DEF Critical, Labels
  <2>7. LocalInv(t)'
    BY <1>1, <2>1, <2>4 DEF LocalInv
  <2>. QED
    BY <1>goal, <2>5, <2>6, <2>7
<1>13. ASSUME AllSent(t) PROVE IInv' /\ OthersKept(t)
  <2>1. OthersKept(t) /\ owner' = owner /\ pc[t] = "send" /\ pc'[t] = "unlock"
    BY <1>2, <1>13 DEF AllSent, At, Goto, OthersKept
  <2>2. TypeInv'
    BY <1>2, <1>13 DEF AllSent, Goto, TypeInv, TypeOK, Labels
  <2>3. OnlyOwnerInside'
    BY <2>1, SameSide DEF Critical, Labels
  <2>4. LocalInv(t)'
    BY <1>1, <1>2, <1>13, <2>1 DEF AllSent, LocalInv
  <2>. QED
    BY <1>goal, <2>1, <2>2, <2>3, <2>4
<1>14. ASSUME mongrel2_ws_sessions_state_unlock(t) PROVE IInv' /\ OthersKept(t)
  <2>1. OthersKept(t) /\ owner' = NoOne /\ pc[t] = "unlock" /\ pc'[t] = "idle"
    BY <1>2, <1>14 DEF mongrel2_ws_sessions_state_unlock, At, Goto, OthersKept
  <2>2. TypeInv'
    BY <1>2, <1>14
    DEF mongrel2_ws_sessions_state_unlock, Goto, TypeInv, TypeOK, Labels, NoneSent
  <2>3. OnlyOwnerInside'
    <3>1. owner = t
      BY <2>1, Holding DEF Critical, Labels
    <3>. QED
      BY <1>1, <2>1, <3>1, SessionsAssumption DEF OnlyOwnerInside, OthersKept, Critical
  <2>4. LocalInv(t)'
    BY <1>1, <1>2, <1>14, <2>1 DEF mongrel2_ws_sessions_state_unlock, LocalInv
  <2>. QED
    BY <1>goal, <2>1, <2>2, <2>3, <2>4
<1>. QED
  BY <1>dies, <1>3, <1>4, <1>5, <1>8, <1>9, <1>10, <1>11, <1>12, <1>13, <1>14
  DEF Step, Inside, mongrel2_ws_broadcast

LEMMA NextInv == IInv /\ [Next]_vars => IInv'
<1>1. ASSUME IInv, Next PROVE IInv'
  BY <1>1, StepInv DEF Next
<1>2. ASSUME IInv, UNCHANGED vars PROVE IInv'
  <2>1. \A c, i, b : SentUpTo(c, i, b)' = SentUpTo(c, i, b)
    BY <1>2 DEF vars, SentUpTo
  <2>. QED
    BY <1>2, <2>1
    DEF vars, IInv, TypeInv, TypeOK, OnlyOwnerInside, LocalInv, IterInTable, SentUpTo, Counts
<1>. QED
  BY <1>1, <1>2

LEMMA Invariant == Spec => []IInv
  BY InitInv, NextInv, PTL DEF Spec
----------------------------------------------------------------------------
\* Every variable keeps its type, whatever the number of threads, sessions
\* and nodes of a key.
THEOREM TypeCorrect == Spec => []TypeOK
<1>1. IInv => TypeOK
  BY DEF IInv, TypeInv
<1>. QED
  BY <1>1, Invariant, PTL

\* dict_mutex keeps every two threads from being between lock and unlock at
\* once, given that mongrel2_ws_sessions_state_init returns with it locked.
THEOREM MutualExclusion == Spec => []OnlyOwnerInside
<1>1. IInv => OnlyOwnerInside
  BY DEF IInv
<1>. QED
  BY <1>1, Invariant, PTL

\* The node that dict_lookup returned and the iter of the broadcast are still
\* nodes of the dictionary when dict_delete_free and dict_next are called with
\* them.
THEOREM ReadsStayTrue == Spec => []NothingStale
<1>1. IInv => NothingStale
  BY DEF IInv, LocalInv, IterInTable, NothingStale
<1>. QED
  BY <1>1, Invariant, PTL

\* Each step of a thread is a step of the call's abstract counterpart, or
\* leaves what that can see unchanged.
LEMMA StepImplements ==
  ASSUME IInv, NEW t \in Threads, Step(t)
  PROVE  Atomic!Next \/ UNCHANGED Atomic!vars
<1>1. LocalInv(t) /\ pc[t] \in Labels /\ ~dead
  BY DEF IInv, TypeInv, TypeOK, Step, Call, mongrel2_ws_sessions_state_lock, Inside, Search,
         mongrel2_ws_sessions_state_add, mongrel2_ws_sessions_state_remove,
         mongrel2_ws_broadcast, First, Send, dict_next, AllSent,
         mongrel2_ws_sessions_state_unlock, At
<1>2. /\ sent \in [Threads -> [Conns -> Nat]] /\ table \in [Conns -> Nat]
  BY DEF IInv, TypeInv, TypeOK
<1>one. ASSUME \/ Atomic!Invoke(t) \/ Atomic!Return(t) \/ Atomic!Add(t)
               \/ Atomic!AddNothing(t) \/ Atomic!Remove(t) \/ Atomic!Contains(t)
               \/ Atomic!Broadcast(t) \/ Atomic!Die(t)
        PROVE  Atomic!Next
  BY <1>1, <1>one DEF Atomic!Next
<1>3. ASSUME NEW c \in Atomic!Calls, Call(t, c) PROVE Atomic!Invoke(t)
  BY <1>1, <1>3 DEF Call, At, LocalInv, Atomic!Invoke
<1>4. ASSUME mongrel2_ws_sessions_state_lock(t) PROVE UNCHANGED Atomic!vars
  BY <1>4 DEF mongrel2_ws_sessions_state_lock, Atomic!vars
<1>5. ASSUME Search(t) PROVE Atomic!Next \/ UNCHANGED Atomic!vars
  <2>1. /\ call[t] \in Atomic!Calls /\ call[t].name \in Atomic!Keyed
        /\ result[t] = Atomic!Pending /\ call[t] # Atomic!NoCall
    BY <1>1, <1>5 DEF Search, At, LocalInv
  <2>2. CASE AllocMayFail /\ Dies
    BY <1>one, <2>1, <2>2 DEF Dies, Atomic!Die, Atomic!Dies, Atomic!Running
  <2>3. CASE /\ found' = [found EXCEPT ![t] = table[call[t].conn]]
             /\ call[t].name = "contains"
             /\ result' = [result EXCEPT ![t] = Atomic!Found(found'[t] # 0)]
             /\ UNCHANGED <<owner, call, table, iter, sent, dead>>
    <3>1. found'[t] = table[call[t].conn]
      BY <2>3 DEF IInv, TypeInv, TypeOK
    <3>. QED
      BY <1>one, <2>1, <2>3, <3>1 DEF Atomic!Contains, Atomic!Yields, Atomic!Running
  <2>4. CASE UNCHANGED <<result, call, table, dead>>
    BY <2>4 DEF Atomic!vars
  <2>. QED
    BY <1>5, <2>2, <2>3, <2>4 DEF Search
<1>6. ASSUME mongrel2_ws_sessions_state_add(t) PROVE Atomic!Next
  <2>1. /\ Atomic!Running(t, "add") /\ found[t] = table[call[t].conn]
    BY <1>1, <1>6 DEF mongrel2_ws_sessions_state_add, At, LocalInv, Atomic!Running
  <2>2. ASSUME Dies PROVE Atomic!Next
    BY <1>one, <1>6, <2>1, <2>2, SessionsAssumption
    DEF mongrel2_ws_sessions_state_add, Dies, Updates, Atomic!Die, Atomic!Dies, At, TypeOK
  <2>3. CASE ~(found[t] # 0 /\ ~NDEBUG) /\ Updates(t, table[call[t].conn] + 1)
    BY <1>one, <2>1, <2>3 DEF Updates, Atomic!Add, Atomic!Yields
  <2>4. CASE AllocMayFail /\ NDEBUG /\ Updates(t, table[call[t].conn])
    <3>1. table' = table
      BY <1>2, <2>4 DEF Updates
    <3>. QED
      BY <1>one, <2>1, <2>4, <3>1 DEF Updates, Atomic!AddNothing, Atomic!Yields
  <2>. QED
    BY <1>6, <2>2, <2>3, <2>4 DEF mongrel2_ws_sessions_state_add
<1>7. ASSUME mongrel2_ws_sessions_state_remove(t) PROVE Atomic!Next
  <2>1. /\ Atomic!Running(t, "remove") /\ found[t] = table[call[t].conn]
    BY <1>1, <1>7 DEF mongrel2_ws_sessions_state_remove, At, LocalInv, Atomic!Running
  <2>2. CASE found[t] = 0 /\ Dies
    BY <1>one, <2>1, <2>2 DEF Dies, Atomic!Die, Atomic!Dies
  <2>3. CASE found[t] # 0 /\ Updates(t, table[call[t].conn] - 1)
    BY <1>one, <2>1, <2>3 DEF Updates, Atomic!Remove, Atomic!Yields
  <2>. QED
    BY <1>7, <2>2, <2>3 DEF mongrel2_ws_sessions_state_remove
<1>8. ASSUME First(t) \/ Send(t) \/ dict_next(t) PROVE Atomic!Next \/ UNCHANGED Atomic!vars
  <2>1. CASE AllocMayFail /\ At(t, "send") /\ Dies
    <3>1. Atomic!Running(t, "broadcast")
      BY <1>1, <2>1 DEF At, LocalInv, Atomic!Running
    <3>. QED
      BY <1>one, <2>1, <3>1 DEF Dies, Atomic!Die, Atomic!Dies
  <2>2. CASE ~(AllocMayFail /\ At(t, "send") /\ Dies)
    BY <1>8, <2>2 DEF First, Send, dict_next, Atomic!vars
  <2>. QED
    BY <2>1, <2>2
<1>9. ASSUME AllSent(t) PROVE Atomic!Next
  <2>1. Atomic!Running(t, "broadcast")
    BY <1>1, <1>9 DEF AllSent, At, LocalInv, Atomic!Running
  <2>2. sent[t] \in Atomic!Frames
    <3>1. \A c \in Conns : Counts(sent[t][c], table[c])
      BY <1>1, <1>9 DEF AllSent, At, LocalInv, SentUpTo
    <3>2. sent[t] \in [Conns -> Nat]
      BY <1>2
    <3>3. CASE ~AllocMayFail
      BY <1>2, <3>1, <3>2, <3>3 DEF Counts, Atomic!Frames
    <3>4. CASE AllocMayFail
      <4>1. \A c \in Conns : sent[t][c] <= table[c]
        BY <3>1, <3>4 DEF Counts
      <4>2. \A c \in Conns : sent[t][c] \in 0 .. table[c]
        BY <1>2, <3>2, <4>1
      <4>3. sent[t] \in [Conns -> Atomic!Numbers]
        BY <3>2, <4>2 DEF Atomic!Numbers
      <4>. QED
        BY <3>4, <4>1, <4>3 DEF Atomic!Frames
    <3>. QED
      BY <3>3, <3>4
  <2>. QED
    BY <1>one, <1>9, <2>1, <2>2 DEF AllSent, Atomic!Broadcast, Atomic!Yields
<1>10. ASSUME mongrel2_ws_sessions_state_unlock(t) PROVE Atomic!Next
  <2>1. Atomic!Return(t)
    BY <1>1, <1>10 DEF mongrel2_ws_sessions_state_unlock, At, LocalInv, Atomic!Return
  <2>. QED
    BY <1>one, <2>1
<1>. QED
  BY <1>one, <1>3, <1>4, <1>5, <1>6, <1>7, <1>8, <1>9, <1>10
  DEF Step, Inside, mongrel2_ws_broadcast

\* Every call on the session table takes effect at one instant between its
\* start and its return; a broadcast reaches the sessions of that instant,
\* each once for every node it has unless memory is short.
THEOREM Implements == Spec => TakesEffectAtOnce
<1>1. Init => Atomic!Init
  BY DEF Init, Atomic!Init
<1>2. IInv /\ [Next]_vars => [Atomic!Next]_(Atomic!vars)
  <2>1. ASSUME IInv, Next PROVE [Atomic!Next]_(Atomic!vars)
    BY <2>1, StepImplements DEF Next
  <2>2. CASE UNCHANGED vars
    BY <2>2 DEF vars, Atomic!vars
  <2>. QED
    BY <2>1, <2>2
<1>. QED
  BY <1>1, <1>2, Invariant, PTL DEF Spec, TakesEffectAtOnce, Atomic!Spec
============================================================================
