---------------------- MODULE GovernedTransactionProofs ----------------------
(***************************************************************************)
(* What the executor and the retrievals of GovernedTransaction do for any   *)
(* number of threads and memories: types, nothing ungoverned in the store,  *)
(* the lock, the record of each outcome; and what holds of one executor     *)
(* that nobody disturbs.                                                    *)
(***************************************************************************)
EXTENDS GovernedTransaction, SequenceTheorems, TLAPS

InTransaction(e) == mode[e] \in {"open", "applied", "traced"}

-----------------------------------------------------------------------------
(* Types                                                                    *)

\* The three stories are sequences of phases.
LEMMA ScriptTypes ==
  /\ Committed \in Seq(Phase)
  /\ Rejected \in Seq(Phase)
  /\ RolledBack \in Seq(Phase)
  BY DEF Committed, Rejected, RolledBack, Phase

\* The records a policy makes of its transaction's records are records.
LEMMA AppliedRecords ==
  ASSUME TypeOK, NEW e \in Executor, NEW records, Applied(e, records)
  PROVE  records \in Records
<1>1. draft[e] \in [Memory -> SUBSET (0..MaxCall)] /\ txn[e] \in 0..MaxCall
  BY DEF TypeOK, Records
<1>2. CASE \E created \in SUBSET {m \in Memory : draft[e][m] = {}} :
             records = [m \in Memory |-> IF m \in created THEN {txn[e]} ELSE draft[e][m]]
  BY <1>1, <1>2 DEF Records
<1>3. CASE \E m \in Memory :
             /\ draft[e][m] # {}
             /\ records = [draft[e] EXCEPT ![m] = @ \cup {txn[e]}]
  BY <1>1, <1>3 DEF Records
<1> QED BY <1>2, <1>3 DEF Applied

\* Every register keeps its type, whoever calls and whatever fails.
THEOREM TypeCorrect == Spec => []TypeOK
<1>1. Init => TypeOK
  BY MemoryAssumption, BoundAssumption DEF Init, TypeOK, Records, Call
<1>2. TypeOK /\ [Next]_vars => TypeOK'
  <2> SUFFICES ASSUME TypeOK, [Next]_vars PROVE TypeOK'
    OBVIOUS
  <2> USE DEF TypeOK, Goto
  <2>1. ASSUME NEW e \in Executor, Snapshot(e) PROVE TypeOK'
    <3>1. /\ fresh' \in 0..MaxCall
          /\ txn' \in [Executor -> 0..MaxCall]
          /\ before' \in [Executor -> Records]
      BY <2>1, BoundAssumption DEF Snapshot
    <3> QED BY <2>1, <3>1 DEF Snapshot, ledgerVars, retrieverVars
  <2>2. ASSUME NEW e \in Executor, Reject(e) PROVE TypeOK'
    BY <2>2, ScriptTypes DEF Reject, ledgerVars, retrieverVars
  <2>3. ASSUME NEW e \in Executor, Open(e) PROVE TypeOK'
    BY <2>3 DEF Open, ledgerVars, retrieverVars
  <2>4. ASSUME NEW e \in Executor, Apply(e) PROVE TypeOK'
    BY <2>4 DEF Apply, ledgerVars, retrieverVars
  <2>5. ASSUME NEW e \in Executor, TakeTrace(e) PROVE TypeOK'
    BY <2>5 DEF TakeTrace, ledgerVars, retrieverVars
  <2>6. ASSUME NEW e \in Executor, Commit(e) PROVE TypeOK'
    <3>1. Delta(e) \in SUBSET Memory
      BY DEF Delta
    <3> QED BY <2>6, <3>1, ScriptTypes DEF Commit, retrieverVars
  <2>7. ASSUME NEW e \in Executor, AssertionFails(e) PROVE TypeOK'
    BY <2>7 DEF AssertionFails, ledgerVars, retrieverVars
  <2>8. ASSUME NEW e \in Executor, NoteRollback(e) PROVE TypeOK'
    BY <2>8, ScriptTypes DEF NoteRollback, ledgerVars, retrieverVars
  <2>9. ASSUME NEW e \in Executor, Record(e) PROVE TypeOK'
    <3>1. script[e] \in Seq(Phase) /\ script[e] # <<>>
      BY <2>9 DEF Record
    <3>2. Head(script[e]) \in Phase /\ Tail(script[e]) \in Seq(Phase)
      BY <3>1
    <3>3. log' \in [Call -> Seq(Phase)]
      <4>1. \A s \in Seq(Phase) : Append(s, Head(script[e])) \in Seq(Phase)
        BY <3>2, AppendProperties
      <4> QED BY <2>9, <4>1 DEF Record
    <3> QED BY <2>9, <3>2, <3>3 DEF Record, retrieverVars
  <2>10. ASSUME NEW e \in Executor, Raise(e) PROVE TypeOK'
    BY <2>10 DEF Raise, ledgerVars, retrieverVars
  <2>11. ASSUME NEW r \in Retriever, Search(r) PROVE TypeOK'
    <3>1. PICK hits \in SUBSET {m \in Memory : memory[m] # {}} : todo' = [todo EXCEPT ![r] = hits]
      BY <2>11 DEF Search
    <3>2. todo' \in [Retriever -> SUBSET Memory]
      BY <3>1
    <3>3. fresh + 1 \in 0..MaxCall
      BY <2>11, BoundAssumption DEF Search
    <3> QED BY <2>11, <3>2, <3>3 DEF Search, ledgerVars, executorVars
  <2>12. ASSUME NEW r \in Retriever, Touch(r) PROVE TypeOK'
    <3>1. PICK m \in todo[r] :
            /\ memory' = [memory EXCEPT ![m] = found[r][m]]
            /\ todo' = [todo EXCEPT ![r] = @ \ {m}]
      BY <2>12 DEF Touch
    <3>2. m \in Memory /\ found[r][m] \in SUBSET (0..MaxCall)
      BY DEF Records
    <3>3. memory' \in Records /\ todo' \in [Retriever -> SUBSET Memory]
      BY <3>1, <3>2 DEF Records
    <3> QED BY <2>12, <3>3 DEF Touch, ledgerVars, executorVars
  <2>13. ASSUME NEW r \in Retriever, SetTrace(r) PROVE TypeOK'
    BY <2>13 DEF SetTrace, ledgerVars, executorVars
  <2>14. ASSUME NEW r \in Retriever, ReadSelection(r) PROVE TypeOK'
    BY <2>14 DEF ReadSelection, ledgerVars, executorVars
  <2>15. ASSUME NEW r \in Retriever, Return(r) PROVE TypeOK'
    BY <2>15 DEF Return, ledgerVars, executorVars
  <2>16. ASSUME NEW r \in Retriever, SearchFails(r) PROVE TypeOK'
    BY <2>16 DEF SearchFails, ledgerVars, executorVars
  <2>17. ASSUME Crash PROVE TypeOK'
    <3>1. /\ lock' = Nobody /\ lastTrace' = 0 /\ lastTrace' \in 0..MaxCall
          /\ mode' = [e \in Executor |-> "idle"]
          /\ step' = [r \in Retriever |-> "idle"]
          /\ UNCHANGED <<memory, log, delta, source, fresh, txn, before, draft, trace>>
          /\ UNCHANGED <<script, call, found, todo, chosen, answer>>
      BY <2>17, BoundAssumption DEF Crash, ledgerVars
    <3> QED BY <3>1
  <2>18. CASE UNCHANGED vars
    BY <2>18 DEF vars, ledgerVars, executorVars, retrieverVars
  <2> QED
    BY <2>1, <2>2, <2>3, <2>4, <2>5, <2>6, <2>7, <2>8, <2>9, <2>10, <2>11, <2>12,
       <2>13, <2>14, <2>15, <2>16, <2>17, <2>18 DEF Next, ExecutorStep, RetrieverStep
<1> QED BY <1>1, <1>2, PTL DEF Spec
-----------------------------------------------------------------------------
(* What the store shows                                                     *)

\* A change that a record may show: one of a committed transaction's delta.
Governed(m, t) == t = 0 \/ (t \in Call /\ IsCommitted(t) /\ m \in delta[t])

\* Calls that are under way have numbers of their own.
NumberInv ==
    /\ \A e \in Executor : mode[e] # "idle" => txn[e] \in 1..fresh
    /\ \A e, f \in Executor : e # f /\ mode[e] # "idle" /\ mode[f] # "idle" => txn[e] # txn[f]

\* What a call on its way out has appended, and what it has yet to append.
Pending ==
    { << <<>>, <<"PROPOSED", "REJECTED", "AUDITED">> >>,
      << <<"PROPOSED">>, <<"REJECTED", "AUDITED">> >>,
      << <<"PROPOSED", "REJECTED">>, <<"AUDITED">> >>,
      << <<>>, <<"ROLLED_BACK", "AUDITED">> >>,
      << <<"ROLLED_BACK">>, <<"AUDITED">> >> }

\* What the ledger may hold of a transaction that has not committed.
Refused ==
    { <<>>, <<"PROPOSED">>, <<"PROPOSED", "REJECTED">>, Rejected, <<"ROLLED_BACK">>, RolledBack }

\* The ledger has nothing of a transaction before its outcome is known.
StoryInv ==
    /\ \A t \in Call : log[t] \in Refused \cup {Committed}
    /\ \A t \in Call : t > fresh => log[t] = <<>>
    /\ \A e \in Executor : mode[e] \in {"validating", "open", "applied", "traced", "undone"} =>
           log[txn[e]] = <<>>
    /\ \A e \in Executor : mode[e] = "recording" => <<log[txn[e]], script[e]>> \in Pending

\* What is in the store, and what the threads have read of it, is governed; a
\* transaction sees its own change besides.
GovernedInv ==
    \A m \in Memory :
        /\ \A t \in memory[m] : Governed(m, t)
        /\ \A e \in Executor : mode[e] \in {"validating", "open", "applied", "traced"} =>
               \A t \in before[e][m] : Governed(m, t)
        /\ \A e \in Executor : InTransaction(e) =>
               \A t \in draft[e][m] : t = txn[e] \/ Governed(m, t)
        /\ \A r \in Retriever : step[r] = "touching" => \A t \in found[r][m] : Governed(m, t)

\* A second row, ...
LEMMA AppendToOne ==
  ASSUME NEW a, NEW b
  PROVE  Append(<<a>>, b) = <<a, b>>
<1> DEFINE S == {a, b}
           l == Append(<<a>>, b)
           k == <<a, b>>
<1>1. <<a>> \in Seq(S) /\ k \in Seq(S) /\ Len(k) = 2
  OBVIOUS
<1>2. l \in Seq(S) /\ Len(l) = 2 /\ l[1] = a /\ l[2] = b
  BY <1>1, AppendProperties
<1>3. k[1] = a /\ k[2] = b
  OBVIOUS
<1>4. \A i \in 1..2 : l[i] = k[i]
  BY <1>2, <1>3
<1>5. ASSUME NEW p \in Seq(S), NEW q \in Seq(S), Len(p) = 2, Len(q) = 2, \A i \in 1..2 : p[i] = q[i]
      PROVE  p = q
  BY <1>5, SeqEqual
<1> QED BY <1>1, <1>2, <1>4, <1>5

\* ... and a third.
LEMMA AppendToTwo ==
  ASSUME NEW a, NEW b, NEW c
  PROVE  Append(<<a, b>>, c) = <<a, b, c>>
<1> DEFINE S == {a, b, c}
           l == Append(<<a, b>>, c)
           k == <<a, b, c>>
<1>1. <<a, b>> \in Seq(S) /\ k \in Seq(S) /\ Len(k) = 3
  OBVIOUS
<1>2. l \in Seq(S) /\ Len(l) = 3 /\ l[1] = a /\ l[2] = b /\ l[3] = c
  BY <1>1, AppendProperties
<1>3. \A i \in 1..3 : l[i] = k[i]
  BY <1>2
<1>4. ASSUME NEW p \in Seq(S), NEW q \in Seq(S), Len(p) = 3, Len(q) = 3, \A i \in 1..3 : p[i] = q[i]
      PROVE  p = q
  BY <1>4, SeqEqual
<1> QED BY <1>1, <1>2, <1>3, <1>4

\* The next row of a rejection or of a rollback leaves it a refusal.
LEMMA PendingStep ==
  ASSUME NEW rows, NEW rest, <<rows, rest>> \in Pending
  PROVE  /\ Append(rows, Head(rest)) \in Refused
         /\ Len(rest) = 1 \/ <<Append(rows, Head(rest)), Tail(rest)>> \in Pending
<1>1. CASE rows = <<>> /\ rest = <<"PROPOSED", "REJECTED", "AUDITED">>
  <2>1. Head(rest) = "PROPOSED" /\ Tail(rest) = <<"REJECTED", "AUDITED">>
    BY <1>1
  <2>2. Append(rows, Head(rest)) = <<"PROPOSED">>
    BY <1>1, <2>1
  <2> QED BY <2>1, <2>2 DEF Pending, Refused
<1>2. CASE rows = <<"PROPOSED">> /\ rest = <<"REJECTED", "AUDITED">>
  <2>1. Head(rest) = "REJECTED" /\ Tail(rest) = <<"AUDITED">>
    BY <1>2
  <2>2. Append(rows, Head(rest)) = <<"PROPOSED", "REJECTED">>
    BY <1>2, <2>1, AppendToOne
  <2> QED BY <2>1, <2>2 DEF Pending, Refused
<1>3. CASE rows = <<"PROPOSED", "REJECTED">> /\ rest = <<"AUDITED">>
  <2>1. Head(rest) = "AUDITED" /\ Len(rest) = 1
    BY <1>3
  <2>2. Append(rows, Head(rest)) = <<"PROPOSED", "REJECTED", "AUDITED">>
    BY <1>3, <2>1, AppendToTwo
  <2> QED BY <2>1, <2>2 DEF Refused, Rejected
<1>4. CASE rows = <<>> /\ rest = <<"ROLLED_BACK", "AUDITED">>
  <2>1. Head(rest) = "ROLLED_BACK" /\ Tail(rest) = <<"AUDITED">>
    BY <1>4
  <2>2. Append(rows, Head(rest)) = <<"ROLLED_BACK">>
    BY <1>4, <2>1
  <2> QED BY <2>1, <2>2 DEF Pending, Refused
<1>5. CASE rows = <<"ROLLED_BACK">> /\ rest = <<"AUDITED">>
  <2>1. Head(rest) = "AUDITED" /\ Len(rest) = 1
    BY <1>5
  <2>2. Append(rows, Head(rest)) = <<"ROLLED_BACK", "AUDITED">>
    BY <1>5, <2>1, AppendToOne
  <2> QED BY <2>1, <2>2 DEF Refused, RolledBack
<1> QED BY <1>1, <1>2, <1>3, <1>4, <1>5 DEF Pending

\* A committed transaction is no refusal, and a refusal tells part of one story.
LEMMA RefusedStories ==
  /\ Committed \notin Refused
  /\ \A rows \in Refused : IsPrefix(rows, Rejected) \/ IsPrefix(rows, RolledBack)
<1>1. Committed \notin Refused
  BY DEF Committed, Refused, Rejected, RolledBack
<1>2. IsPrefix(<<>>, Rejected) /\ IsPrefix(<<"PROPOSED">>, Rejected)
  BY DEF IsPrefix, Rejected
<1>3. IsPrefix(<<"PROPOSED", "REJECTED">>, Rejected)
  BY DEF IsPrefix, Rejected
<1>4. IsPrefix(Rejected, Rejected)
  BY DEF IsPrefix, Rejected
<1>5. IsPrefix(<<"ROLLED_BACK">>, RolledBack) /\ IsPrefix(RolledBack, RolledBack)
  BY DEF IsPrefix, RolledBack
<1> QED BY <1>1, <1>2, <1>3, <1>4, <1>5 DEF Refused

\* No step gives a number twice.
LEMMA NumberInvNext == TypeOK /\ NumberInv /\ [Next]_vars => NumberInv'
<1> SUFFICES ASSUME TypeOK, NumberInv, [Next]_vars PROVE NumberInv'
  OBVIOUS
<1> USE DEF NumberInv, Goto
<1>1. ASSUME NEW e \in Executor, Snapshot(e) PROVE NumberInv'
  <2>1. fresh \in Nat /\ fresh' = fresh + 1
    BY <1>1, BoundAssumption DEF Snapshot, TypeOK
  <2>2. /\ mode' = [mode EXCEPT ![e] = "validating"] /\ mode[e] = "idle"
        /\ txn' = [txn EXCEPT ![e] = fresh + 1]
    BY <1>1 DEF Snapshot
  <2>3. \A f \in Executor : f # e => txn'[f] = txn[f] /\ mode'[f] = mode[f]
    BY <2>2 DEF TypeOK
  <2>4. txn'[e] = fresh + 1
    BY <2>2 DEF TypeOK
  <2>5. \A f \in Executor : mode'[f] # "idle" => txn'[f] \in 1..fresh'
    BY <2>1, <2>3, <2>4
  <2>6. \A f, g \in Executor : f # g /\ mode'[f] # "idle" /\ mode'[g] # "idle" => txn'[f] # txn'[g]
    BY <2>1, <2>3, <2>4
  <2> QED BY <2>5, <2>6
<1>2. CASE UNCHANGED <<fresh, txn>> /\ \A e \in Executor : mode'[e] # "idle" => mode[e] # "idle"
  BY <1>2
<1>3. ASSUME NEW e \in Executor, ExecutorStep(e)
      PROVE  UNCHANGED <<fresh, txn>> /\ \A f \in Executor : mode'[f] # "idle" => mode[f] # "idle"
  BY <1>3 DEF TypeOK, ExecutorStep, Reject, Open, Apply, TakeTrace, Commit, AssertionFails,
              NoteRollback, Record, Raise
<1>4. ASSUME NEW r \in Retriever, RetrieverStep(r)
      PROVE  UNCHANGED <<fresh, txn>> /\ UNCHANGED mode
  BY <1>4 DEF RetrieverStep, Touch, SetTrace, ReadSelection, Return, SearchFails, executorVars
<1>5. ASSUME NEW r \in Retriever, Search(r) PROVE NumberInv'
  <2>1. fresh' = fresh + 1 /\ fresh \in Nat /\ UNCHANGED <<mode, txn>>
    BY <1>5, BoundAssumption DEF Search, TypeOK, executorVars
  <2> QED BY <2>1
<1>6. CASE Crash
  BY <1>2, <1>6 DEF Crash
<1>7. CASE UNCHANGED vars
  BY <1>2, <1>7 DEF vars, executorVars
<1> QED BY <1>1, <1>2, <1>3, <1>4, <1>5, <1>6, <1>7 DEF Next
\* Every row a call appends, and every commit, continues one story.
LEMMA StoryInvNext ==
  TypeOK /\ NumberInv /\ StoryInv /\ [Next]_vars => StoryInv'
<1> SUFFICES ASSUME TypeOK, NumberInv, StoryInv, [Next]_vars PROVE StoryInv'
  OBVIOUS
<1>a. fresh \in Nat /\ \A e \in Executor : mode[e] # "idle" => txn[e] \in Call /\ txn[e] <= fresh
  BY BoundAssumption DEF TypeOK, NumberInv, Call
<1>b. \A e, f \in Executor : e # f /\ mode[e] # "idle" /\ mode[f] # "idle" => txn[e] # txn[f]
  BY DEF NumberInv
<1> USE DEF StoryInv, Goto
<1>1. ASSUME NEW e \in Executor, Snapshot(e) PROVE StoryInv'
  <2>1. /\ mode' = [mode EXCEPT ![e] = "validating"] /\ mode[e] = "idle"
        /\ txn' = [txn EXCEPT ![e] = fresh + 1]
        /\ fresh' = fresh + 1 /\ fresh < MaxCall
        /\ UNCHANGED <<log, script>>
    BY <1>1 DEF Snapshot, ledgerVars
  <2>2. fresh + 1 \in Call /\ log[fresh + 1] = <<>>
    BY <2>1, <1>a, BoundAssumption DEF Call
  <2>3. /\ \A f \in Executor : f # e => txn'[f] = txn[f] /\ mode'[f] = mode[f]
        /\ txn'[e] = fresh + 1 /\ mode'[e] = "validating"
    BY <2>1 DEF TypeOK
  <2>4. \A t \in Call : t > fresh' => log'[t] = <<>>
    BY <2>1, <1>a DEF Call
  <2> QED BY <2>1, <2>2, <2>3, <2>4
<1>2. ASSUME NEW e \in Executor, NEW place \in {"open", "applied", "traced", "undone"},
             mode[e] \in {"validating", "open", "applied", "traced"},
             mode' = [mode EXCEPT ![e] = place],
             UNCHANGED <<log, fresh, txn, script>>
      PROVE  StoryInv'
  BY <1>2 DEF TypeOK
<1>3. ASSUME NEW e \in Executor, NEW story \in {Rejected, RolledBack},
             mode[e] \in {"validating", "undone"},
             mode' = [mode EXCEPT ![e] = "recording"],
             script' = [script EXCEPT ![e] = story],
             UNCHANGED <<log, fresh, txn>>
      PROVE  StoryInv'
  <2>1. <<log[txn[e]], story>> \in Pending
    BY <1>3 DEF Pending, Rejected, RolledBack
  <2>2. /\ \A f \in Executor : f # e => script'[f] = script[f] /\ mode'[f] = mode[f]
        /\ script'[e] = story /\ mode'[e] = "recording"
    BY <1>3 DEF TypeOK
  <2> QED BY <1>3, <2>1, <2>2
<1>4. ASSUME NEW e \in Executor, Commit(e) PROVE StoryInv'
  <2>1. /\ log' = [log EXCEPT ![txn[e]] = Committed]
        /\ mode' = [mode EXCEPT ![e] = "idle"] /\ mode[e] = "traced"
        /\ UNCHANGED <<fresh, txn, script>>
    BY <1>4 DEF Commit
  <2>2. txn[e] \in Call /\ txn[e] <= fresh
    BY <2>1, <1>a
  <2>3. /\ log'[txn[e]] = Committed
        /\ \A t \in Call : t # txn[e] => log'[t] = log[t]
    BY <2>1, <2>2 DEF TypeOK
  <2>4. \A f \in Executor : mode'[f] # "idle" =>
           mode'[f] = mode[f] /\ txn[f] \in Call /\ txn[f] # txn[e]
    BY <2>1, <1>a, <1>b DEF TypeOK
  <2>5. \A t \in Call : t > fresh => t # txn[e]
    BY <2>2, <1>a DEF Call
  <2> QED BY <2>1, <2>3, <2>4, <2>5
<1>5. ASSUME NEW e \in Executor, Record(e) PROVE StoryInv'
  <2> DEFINE rows == Append(log[txn[e]], Head(script[e]))
  <2>1. /\ log' = [log EXCEPT ![txn[e]] = Append(@, Head(script[e]))]
        /\ script' = [script EXCEPT ![e] = Tail(@)]
        /\ mode' = [mode EXCEPT ![e] = IF Len(script[e]) = 1 THEN "idle" ELSE "recording"]
        /\ mode[e] = "recording"
        /\ UNCHANGED <<fresh, txn>>
    BY <1>5 DEF Record
  <2>2. txn[e] \in Call /\ txn[e] <= fresh
    BY <2>1, <1>a
  <2>3. /\ log'[txn[e]] = rows
        /\ \A t \in Call : t # txn[e] => log'[t] = log[t]
    BY <2>1, <2>2 DEF TypeOK
  <2>4. <<log[txn[e]], script[e]>> \in Pending
    BY <2>1
  <2>5. rows \in Refused /\ (Len(script[e]) = 1 \/ <<rows, Tail(script[e])>> \in Pending)
    BY <2>4, PendingStep
  <2>6. \A f \in Executor : f # e /\ mode'[f] # "idle" =>
           mode'[f] = mode[f] /\ txn[f] \in Call /\ txn[f] # txn[e] /\ script'[f] = script[f]
    BY <2>1, <1>a, <1>b DEF TypeOK
  <2>7. mode'[e] \in {"idle", "recording"} /\ script'[e] = Tail(script[e])
        /\ (mode'[e] = "recording" => Len(script[e]) # 1)
    BY <2>1 DEF TypeOK
  <2>8. \A t \in Call : t > fresh => t # txn[e]
    BY <2>2, <1>a DEF Call
  <2> HIDE DEF rows
  <2>9. \A t \in Call : log'[t] \in Refused \cup {Committed}
    BY <2>3, <2>5
  <2>10. \A t \in Call : t > fresh' => log'[t] = <<>>
    BY <2>1, <2>3, <2>8
  <2>11. ASSUME NEW f \in Executor,
                mode'[f] \in {"validating", "open", "applied", "traced", "undone"}
         PROVE  log'[txn'[f]] = <<>>
    BY <2>1, <2>3, <2>6, <2>7, <2>11
  <2>12. ASSUME NEW f \in Executor, mode'[f] = "recording"
         PROVE  <<log'[txn'[f]], script'[f]>> \in Pending
    <3>1. CASE f = e
      BY <2>1, <2>3, <2>5, <2>7, <2>12, <3>1
    <3>2. CASE f # e
      BY <2>1, <2>3, <2>6, <2>12, <3>2
    <3> QED BY <3>1, <3>2
  <2> QED BY <2>9, <2>10, <2>11, <2>12
<1>6. CASE /\ UNCHANGED <<log, fresh, txn, script>>
           /\ \A e \in Executor : mode'[e] # "idle" => mode'[e] = mode[e]
  BY <1>6
<1>7. ASSUME NEW e \in Executor, Raise(e) PROVE StoryInv'
  BY <1>6, <1>7 DEF Raise, ledgerVars, TypeOK
<1>8. ASSUME NEW e \in Executor, ExecutorStep(e) PROVE StoryInv'
  <2>1. CASE Open(e) \/ Apply(e) \/ TakeTrace(e) \/ AssertionFails(e)
    BY <2>1, <1>2 DEF Open, Apply, TakeTrace, AssertionFails, ledgerVars
  <2>2. CASE Reject(e)
    <3>1. mode[e] = "validating" /\ script' = [script EXCEPT ![e] = Rejected]
      BY <2>2 DEF Reject
    <3>2. mode' = [mode EXCEPT ![e] = "recording"] /\ UNCHANGED <<log, fresh, txn>>
      BY <2>2 DEF Reject, ledgerVars
    <3> QED BY <3>1, <3>2, <1>3
  <2>3. CASE NoteRollback(e)
    <3>1. mode[e] = "undone" /\ script' = [script EXCEPT ![e] = RolledBack]
      BY <2>3 DEF NoteRollback
    <3>2. mode' = [mode EXCEPT ![e] = "recording"] /\ UNCHANGED <<log, fresh, txn>>
      BY <2>3 DEF NoteRollback, ledgerVars
    <3> QED BY <3>1, <3>2, <1>3
  <2> QED BY <1>4, <1>5, <1>7, <1>8, <2>1, <2>2, <2>3 DEF ExecutorStep
<1>9. ASSUME NEW r \in Retriever, RetrieverStep(r) PROVE StoryInv'
  BY <1>6, <1>9 DEF RetrieverStep, Touch, SetTrace, ReadSelection, Return, SearchFails,
                    ledgerVars, executorVars
<1>10. ASSUME NEW r \in Retriever, Search(r) PROVE StoryInv'
  <2>1. fresh' = fresh + 1 /\ UNCHANGED <<log, mode, txn, script>>
    BY <1>10 DEF Search, ledgerVars, executorVars
  <2>2. \A t \in Call : t > fresh' => log'[t] = <<>>
    BY <2>1, <1>a DEF Call
  <2> QED BY <2>1, <2>2
<1>11. CASE Crash
  BY <1>6, <1>11 DEF Crash, ledgerVars
<1>12. CASE UNCHANGED vars
  BY <1>6, <1>12 DEF vars, ledgerVars, executorVars
<1> QED BY <1>1, <1>8, <1>9, <1>10, <1>11, <1>12 DEF Next

\* Each transaction has one outcome in the ledger: committed whole, or refused.
THEOREM OneOutcomeCorrect == Spec => []OneOutcome
<1>1. Init => NumberInv /\ StoryInv
  BY DEF Init, NumberInv, StoryInv, Refused
<1>2. StoryInv => OneOutcome
  BY RefusedStories DEF StoryInv, OneOutcome, IsCommitted
<1> QED BY <1>1, <1>2, NumberInvNext, StoryInvNext, TypeCorrect, PTL DEF Spec
\* The store, the drafts and what the threads have read stay governed.
LEMMA GovernedInvNext ==
  TypeOK /\ NumberInv /\ StoryInv /\ StoryInv' /\ GovernedInv /\ [Next]_vars => GovernedInv'
<1> SUFFICES ASSUME TypeOK, NumberInv, StoryInv, StoryInv', GovernedInv, [Next]_vars
             PROVE  GovernedInv'
  OBVIOUS
<1>a. \A e \in Executor : mode[e] # "idle" => txn[e] \in Call
  BY BoundAssumption DEF TypeOK, NumberInv, Call
<1>b. \A e, f \in Executor : e # f /\ mode[e] # "idle" /\ mode[f] # "idle" => txn[e] # txn[f]
  BY DEF NumberInv
<1>c. \A rows \in Refused : rows # Committed
  BY RefusedStories
<1>d. /\ memory \in [Memory -> SUBSET (0..MaxCall)]
      /\ \A e \in Executor : /\ before[e] \in [Memory -> SUBSET (0..MaxCall)]
                            /\ draft[e] \in [Memory -> SUBSET (0..MaxCall)]
      /\ \A r \in Retriever : found[r] \in [Memory -> SUBSET (0..MaxCall)]
  BY DEF TypeOK, Records
<1>1. ASSUME UNCHANGED <<log, delta>>, NEW m \in Memory, NEW t PROVE Governed(m, t)' <=> Governed(m, t)
  BY <1>1 DEF Governed, IsCommitted
<1>2. ASSUME UNCHANGED <<log, delta, memory, txn, before, draft, found>>,
             \A e \in Executor : mode'[e] # mode[e] =>
                 \/ mode'[e] \in {"idle", "recording", "undone"}
                 \/ InTransaction(e),
             \A r \in Retriever : step'[r] = "touching" => step[r] = "touching"
      PROVE  GovernedInv'
  BY <1>1, <1>2 DEF GovernedInv, InTransaction
<1>3. ASSUME NEW e \in Executor, Snapshot(e) PROVE GovernedInv'
  <2>1. /\ UNCHANGED <<log, delta, memory, draft, found, step>>
        /\ \A f \in Executor : f # e => before'[f] = before[f] /\ mode'[f] = mode[f] /\ txn'[f] = txn[f]
        /\ before'[e] = memory /\ mode'[e] = "validating"
    BY <1>3 DEF Snapshot, Goto, ledgerVars, retrieverVars, TypeOK
  <2> QED BY <1>1, <2>1 DEF GovernedInv, InTransaction
<1>4. ASSUME NEW e \in Executor, Open(e) PROVE GovernedInv'
  <2>1. /\ UNCHANGED <<log, delta, memory, txn, before, found, step>>
        /\ \A f \in Executor : f # e => draft'[f] = draft[f] /\ mode'[f] = mode[f]
        /\ draft'[e] = memory /\ mode[e] = "validating" /\ mode'[e] = "open"
    BY <1>4 DEF Open, Goto, ledgerVars, retrieverVars, TypeOK
  <2> QED BY <1>1, <2>1 DEF GovernedInv, InTransaction
<1>5. ASSUME NEW e \in Executor, Apply(e) PROVE GovernedInv'
  <2>1. PICK records \in Records : Applied(e, records) /\ draft' = [draft EXCEPT ![e] = records]
    BY <1>5 DEF Apply
  <2>2. \A m \in Memory : \A t \in records[m] : t = txn[e] \/ t \in draft[e][m]
    BY <2>1, <1>d DEF Applied
  <2>3. /\ UNCHANGED <<log, delta, memory, txn, before, found, step>>
        /\ \A f \in Executor : f # e => draft'[f] = draft[f] /\ mode'[f] = mode[f]
        /\ draft'[e] = records /\ mode[e] = "open" /\ mode'[e] = "applied"
    BY <1>5, <2>1 DEF Apply, Goto, ledgerVars, retrieverVars, TypeOK
  <2> QED BY <1>1, <2>2, <2>3 DEF GovernedInv, InTransaction
<1>6. ASSUME NEW e \in Executor, Commit(e) PROVE GovernedInv'
  <2>1. /\ memory' = draft[e]
        /\ log' = [log EXCEPT ![txn[e]] = Committed]
        /\ delta' = [delta EXCEPT ![txn[e]] = Delta(e)]
        /\ mode[e] = "traced" /\ mode' = [mode EXCEPT ![e] = "idle"]
        /\ UNCHANGED <<txn, before, draft, found, step>>
    BY <1>6 DEF Commit, Goto, retrieverVars
  <2>2. txn[e] \in Call /\ log[txn[e]] = <<>>
    BY <2>1, <1>a DEF StoryInv
  <2>3. /\ log'[txn[e]] = Committed /\ delta'[txn[e]] = Delta(e)
        /\ \A t \in Call : t # txn[e] => log'[t] = log[t] /\ delta'[t] = delta[t]
    BY <2>1, <2>2 DEF TypeOK
  <2>4. ~ IsCommitted(txn[e]) /\ txn[e] # 0
    BY <2>2, BoundAssumption DEF IsCommitted, Committed, Call
  <2>5. \A m \in Memory : \A t : Governed(m, t) => t # txn[e] /\ Governed(m, t)'
    BY <2>3, <2>4 DEF Governed, IsCommitted
  <2>6. \A m \in Memory : txn[e] \notin before[e][m]
    BY <2>1, <2>5 DEF GovernedInv
  <2>7. \A m \in Memory : txn[e] \in draft[e][m] => m \in Delta(e)
    BY <2>6 DEF Delta
  <2>8. \A m \in Memory : \A t \in draft[e][m] : Governed(m, t)'
    BY <2>1, <2>2, <2>3, <2>5, <2>7 DEF GovernedInv, InTransaction, Governed, IsCommitted
  <2>9. \A f \in Executor : mode'[f] # "idle" => mode'[f] = mode[f]
    BY <2>1 DEF TypeOK
  <2> QED BY <2>1, <2>5, <2>8, <2>9 DEF GovernedInv, InTransaction
<1>7. ASSUME NEW e \in Executor, Record(e) PROVE GovernedInv'
  <2>1. /\ log' = [log EXCEPT ![txn[e]] = Append(@, Head(script[e]))]
        /\ mode[e] = "recording"
        /\ mode' = [mode EXCEPT ![e] = IF Len(script[e]) = 1 THEN "idle" ELSE "recording"]
        /\ UNCHANGED <<memory, delta, txn, before, draft, found, step>>
    BY <1>7 DEF Record, Goto, retrieverVars
  <2>2. txn[e] \in Call /\ <<log[txn[e]], script[e]>> \in Pending
    BY <2>1, <1>a DEF StoryInv
  <2>3. log[txn[e]] \in Refused
    BY <2>2 DEF Pending, Refused
  <2>4. \A m \in Memory : \A t : Governed(m, t) => Governed(m, t)'
    BY <2>1, <2>2, <2>3, <1>c DEF Governed, IsCommitted, TypeOK
  <2>5. \A f \in Executor : mode'[f] = mode[f] \/ mode'[f] = "idle"
    BY <2>1 DEF TypeOK
  <2> QED BY <2>1, <2>4, <2>5 DEF GovernedInv, InTransaction
<1>8. ASSUME NEW r \in Retriever, Search(r) PROVE GovernedInv'
  <2>1. /\ UNCHANGED <<log, delta, memory, txn, before, draft, mode>>
        /\ \A q \in Retriever : q # r => found'[q] = found[q] /\ step'[q] = step[q]
        /\ found'[r] = memory
    BY <1>8 DEF Search, ledgerVars, executorVars, TypeOK
  <2> QED BY <1>1, <2>1 DEF GovernedInv, InTransaction
<1>9. ASSUME NEW r \in Retriever, Touch(r) PROVE GovernedInv'
  <2>1. PICK m \in todo[r] : memory' = [memory EXCEPT ![m] = found[r][m]]
    BY <1>9 DEF Touch
  <2>2. /\ UNCHANGED <<log, delta, txn, before, draft, mode, found, step>>
        /\ step[r] = "touching" /\ m \in Memory
        /\ \A n \in Memory : memory'[n] = IF n = m THEN found[r][m] ELSE memory[n]
    BY <1>9, <2>1, <1>d DEF Touch, ledgerVars, executorVars, TypeOK
  <2> QED BY <1>1, <2>2 DEF GovernedInv, InTransaction
<1>10. ASSUME NEW e \in Executor, ExecutorStep(e) PROVE GovernedInv'
  <2>1. CASE Reject(e)
    BY <2>1, <1>2 DEF Reject, Goto, ledgerVars, retrieverVars, TypeOK
  <2>2. CASE TakeTrace(e)
    BY <2>2, <1>2 DEF TakeTrace, Goto, ledgerVars, retrieverVars, TypeOK, InTransaction
  <2>3. CASE AssertionFails(e)
    BY <2>3, <1>2 DEF AssertionFails, Goto, ledgerVars, retrieverVars, TypeOK
  <2>4. CASE NoteRollback(e)
    BY <2>4, <1>2 DEF NoteRollback, Goto, ledgerVars, retrieverVars, TypeOK
  <2>5. CASE Raise(e)
    BY <2>5, <1>2 DEF Raise, Goto, ledgerVars, retrieverVars, TypeOK
  <2> QED BY <1>4, <1>5, <1>6, <1>7, <1>10, <2>1, <2>2, <2>3, <2>4, <2>5 DEF ExecutorStep
<1>11. ASSUME NEW r \in Retriever, RetrieverStep(r) PROVE GovernedInv'
  <2>1. CASE SetTrace(r) \/ ReadSelection(r) \/ Return(r) \/ SearchFails(r)
    BY <2>1, <1>2 DEF SetTrace, ReadSelection, Return, SearchFails, ledgerVars, executorVars, TypeOK
  <2> QED BY <1>9, <1>11, <2>1 DEF RetrieverStep
<1>12. CASE Crash
  BY <1>12, <1>2 DEF Crash, ledgerVars
<1>13. CASE UNCHANGED vars
  BY <1>13, <1>2 DEF vars, ledgerVars, executorVars, retrieverVars
<1> QED BY <1>3, <1>8, <1>10, <1>11, <1>12, <1>13 DEF Next

\* Whatever is rejected, rolled back, raised or cut off by a crash, and whatever
\* the retrievals write back: the store shows committed changes only, and each
\* of them is named by the delta of its transaction.
THEOREM OnlyGovernedChangesCorrect == Spec => []OnlyGovernedChanges
<1>1. Init => NumberInv /\ StoryInv /\ GovernedInv
  BY DEF Init, NumberInv, StoryInv, GovernedInv, InTransaction, Governed, Refused
<1>2. GovernedInv => OnlyGovernedChanges
  BY DEF GovernedInv, OnlyGovernedChanges, Governed
<1> QED BY <1>1, <1>2, NumberInvNext, StoryInvNext, GovernedInvNext, TypeCorrect, PTL DEF Spec
-----------------------------------------------------------------------------
(* The lock                                                                 *)

\* Whoever is not in a transaction writes only when nobody is in one.
LEMMA LockNext ==
  TypeOK /\ NumberInv /\ StoryInv /\ GovernedInv /\ NoWriteBelowTransaction /\ [Next]_vars
    => NoWriteBelowTransaction'
<1> SUFFICES ASSUME TypeOK, NumberInv, StoryInv, GovernedInv, NoWriteBelowTransaction, [Next]_vars
             PROVE  NoWriteBelowTransaction'
  OBVIOUS
<1> USE DEF NoWriteBelowTransaction
<1>1. ASSUME UNCHANGED <<memory, txn, draft>>,
             \A f \in Executor : mode'[f] \in {"open", "applied", "traced"} =>
                 InTransaction(f) /\ (lock = f => lock' = f)
      PROVE  NoWriteBelowTransaction'
  BY <1>1 DEF InTransaction
<1>2. ASSUME NEW e \in Executor, Open(e) PROVE NoWriteBelowTransaction'
  <2>1. /\ UNCHANGED <<memory, txn>> /\ lock = Nobody /\ lock' = e /\ mode[e] = "validating"
        /\ \A f \in Executor : f # e => draft'[f] = draft[f] /\ mode'[f] = mode[f]
        /\ draft'[e] = memory
    BY <1>2 DEF Open, Goto, TypeOK
  <2>2. \A f \in Executor : f # e => ~ InTransaction(f)
    BY <2>1, NobodyAssumption DEF InTransaction
  <2>3. txn[e] \in Call /\ ~ IsCommitted(txn[e]) /\ txn[e] # 0
    BY <2>1, BoundAssumption, RefusedStories DEF NumberInv, StoryInv, TypeOK, Call, IsCommitted, Refused
  <2>4. \A m \in Memory : txn[e] \notin memory[m]
    BY <2>3 DEF GovernedInv, Governed
  <2> QED BY <2>1, <2>2, <2>4 DEF InTransaction
<1>3. ASSUME NEW e \in Executor, Apply(e) PROVE NoWriteBelowTransaction'
  <2>1. PICK records \in Records : Applied(e, records) /\ draft' = [draft EXCEPT ![e] = records]
    BY <1>3 DEF Apply
  <2>2. \A m \in Memory : records[m] \ {txn[e]} = draft[e][m] \ {txn[e]}
    <3>1. draft[e] \in [Memory -> SUBSET (0..MaxCall)]
      BY DEF TypeOK, Records
    <3> QED BY <2>1, <3>1 DEF Applied
  <2>3. /\ UNCHANGED <<memory, txn, lock>> /\ mode[e] = "open"
        /\ \A f \in Executor : f # e => draft'[f] = draft[f] /\ mode'[f] = mode[f]
        /\ draft'[e] = records
    BY <1>3, <2>1 DEF Apply, Goto, TypeOK
  <2> QED BY <2>2, <2>3
<1>4. ASSUME NEW e \in Executor, Commit(e) PROVE NoWriteBelowTransaction'
  <2>1. lock = e /\ \A f \in Executor : f # e => ~ InTransaction(f)
    BY <1>4 DEF Commit, InTransaction
  <2>2. \A f \in Executor : mode'[f] = IF f = e THEN "idle" ELSE mode[f]
    BY <1>4 DEF Commit, Goto, TypeOK
  <2> QED BY <2>1, <2>2 DEF InTransaction
<1>5. ASSUME NEW e \in Executor, Raise(e) \/ AssertionFails(e) PROVE NoWriteBelowTransaction'
  <2>1. \A f \in Executor : (mode'[f] = mode[f] /\ f # e) \/ mode'[f] \in {"idle", "undone"}
    BY <1>5 DEF Raise, AssertionFails, Goto, TypeOK
  <2>2. \A f \in Executor : InTransaction(f) /\ f # e => lock = f /\ lock' = f
    BY <1>5 DEF Raise, AssertionFails, InTransaction
  <2>3. UNCHANGED <<memory, txn, draft>>
    BY <1>5 DEF Raise, AssertionFails
  <2> QED BY <1>1, <2>1, <2>2, <2>3 DEF InTransaction
<1>6. ASSUME NEW e \in Executor, Snapshot(e) PROVE NoWriteBelowTransaction'
  <2>1. /\ UNCHANGED <<memory, draft, lock>>
        /\ \A f \in Executor : f # e => txn'[f] = txn[f] /\ mode'[f] = mode[f]
        /\ mode'[e] = "validating"
    BY <1>6 DEF Snapshot, Goto, TypeOK
  <2> QED BY <2>1
<1>7. ASSUME NEW e \in Executor, Reject(e) \/ TakeTrace(e) \/ NoteRollback(e) \/ Record(e)
      PROVE  NoWriteBelowTransaction'
  BY <1>1, <1>7 DEF Reject, TakeTrace, NoteRollback, Record, Goto, TypeOK, InTransaction
<1>8. ASSUME NEW r \in Retriever, Touch(r) PROVE NoWriteBelowTransaction'
  <2>1. lock = Nobody /\ UNCHANGED mode
    BY <1>8 DEF Touch, executorVars
  <2> QED BY <2>1, NobodyAssumption
<1>9. ASSUME NEW r \in Retriever,
             Search(r) \/ SetTrace(r) \/ ReadSelection(r) \/ Return(r) \/ SearchFails(r)
      PROVE  NoWriteBelowTransaction'
  BY <1>1, <1>9 DEF Search, SetTrace, ReadSelection, Return, SearchFails, executorVars, InTransaction
<1>10. CASE Crash
  BY <1>10 DEF Crash
<1>11. CASE UNCHANGED vars
  BY <1>1, <1>11 DEF vars, executorVars, InTransaction
<1> QED BY <1>2, <1>3, <1>4, <1>5, <1>6, <1>7, <1>8, <1>9, <1>10, <1>11 DEF Next, ExecutorStep, RetrieverStep

\* What LockNext needs and keeps.
StoreInv == NumberInv /\ StoryInv /\ GovernedInv /\ NoWriteBelowTransaction

\* The parts of StoreInv hold together throughout.
LEMMA StoreInvCorrect == Spec => []StoreInv
<1>1. Init => StoreInv
  BY DEF Init, StoreInv, NumberInv, StoryInv, GovernedInv, NoWriteBelowTransaction,
         InTransaction, Governed, Refused
<1>2. TypeOK /\ StoreInv /\ [Next]_vars => StoreInv'
  BY NumberInvNext, StoryInvNext, GovernedInvNext, LockNext DEF StoreInv
<1> QED BY <1>1, <1>2, TypeCorrect, PTL DEF Spec

\* No thread of the process writes to the store while a transaction is open.
THEOREM NoWriteBelowTransactionCorrect == Spec => []NoWriteBelowTransaction
<1>1. StoreInv => NoWriteBelowTransaction
  BY DEF StoreInv
<1> QED BY <1>1, StoreInvCorrect, PTL

-----------------------------------------------------------------------------
(* Records                                                                  *)

\* All the versions of a record that are around have something in common.
OriginInv ==
    \A m \in Memory :
        /\ memory[m] = {} => \A r \in Retriever : step[r] = "touching" => m \notin todo[r]
        /\ memory[m] # {} => \E o \in memory[m] :
               \A r \in Retriever : step[r] = "touching" /\ m \in todo[r] => o \in found[r][m]

\* A commit extends the records, a retrieval writes one of their versions back.
LEMMA OriginStep ==
  ASSUME TypeOK, NoWriteBelowTransaction, OriginInv, [Next]_vars
  PROVE  OriginInv' /\ \A m \in Memory : memory[m] # {} => memory[m] \cap memory'[m] # {}
<1> DEFINE Persist == \A m \in Memory : memory[m] # {} => memory[m] \cap memory'[m] # {}
<1> USE DEF OriginInv
<1>1. ASSUME \A m \in Memory : memory[m] \subseteq memory'[m], UNCHANGED <<found, todo>>,
             \A r \in Retriever : step'[r] = "touching" => step[r] = "touching"
      PROVE  OriginInv' /\ Persist
  BY <1>1
<1>2. ASSUME NEW e \in Executor, Commit(e) PROVE OriginInv' /\ Persist
  <2>1. \A m \in Memory : memory[m] \subseteq memory'[m]
    BY <1>2 DEF Commit, NoWriteBelowTransaction
  <2> QED BY <1>1, <1>2, <2>1 DEF Commit, retrieverVars
<1>3. ASSUME NEW r \in Retriever, Search(r) PROVE OriginInv' /\ Persist
  <2>1. PICK hits \in SUBSET {m \in Memory : memory[m] # {}} : todo' = [todo EXCEPT ![r] = hits]
    BY <1>3 DEF Search
  <2>2. /\ UNCHANGED memory
        /\ \A q \in Retriever : q # r => found'[q] = found[q] /\ step'[q] = step[q] /\ todo'[q] = todo[q]
        /\ found'[r] = memory /\ todo'[r] = hits
    BY <1>3, <2>1 DEF Search, TypeOK
  <2> QED BY <2>1, <2>2
<1>4. ASSUME NEW r \in Retriever, Touch(r) PROVE OriginInv' /\ Persist
  <2>1. PICK m \in todo[r] : /\ memory' = [memory EXCEPT ![m] = found[r][m]]
                            /\ todo' = [todo EXCEPT ![r] = @ \ {m}]
    BY <1>4 DEF Touch
  <2>2. step[r] = "touching" /\ m \in Memory /\ UNCHANGED <<step, found>>
    BY <1>4, <2>1 DEF Touch, TypeOK
  <2>3. /\ memory'[m] = found[r][m]
        /\ \A n \in Memory : n # m => memory'[n] = memory[n]
        /\ \A q \in Retriever : todo'[q] \subseteq todo[q]
    BY <2>1, <2>2 DEF TypeOK, Records
  <2>4. PICK o \in memory[m] :
          \A q \in Retriever : step[q] = "touching" /\ m \in todo[q] => o \in found[q][m]
    BY <2>1, <2>2
  <2>5. o \in memory'[m]
    BY <2>1, <2>2, <2>3, <2>4
  <2>6. Persist
    BY <2>3, <2>4, <2>5
  <2>7. ASSUME NEW n \in Memory
        PROVE  /\ memory'[n] = {} => \A q \in Retriever : step'[q] = "touching" => n \notin todo'[q]
               /\ memory'[n] # {} => \E p \in memory'[n] :
                    \A q \in Retriever : step'[q] = "touching" /\ n \in todo'[q] => p \in found'[q][n]
    <3>1. CASE n = m
      BY <3>1, <2>2, <2>3, <2>4, <2>5
    <3>2. CASE n # m
      BY <3>2, <2>2, <2>3
    <3> QED BY <3>1, <3>2
  <2> QED BY <2>6, <2>7
<1>5. ASSUME NEW e \in Executor, ~ Commit(e), Snapshot(e) \/ ExecutorStep(e) PROVE OriginInv' /\ Persist
  BY <1>1, <1>5 DEF Snapshot, ExecutorStep, Reject, Open, Apply, TakeTrace, AssertionFails,
                    NoteRollback, Record, Raise, retrieverVars
<1>6. ASSUME NEW r \in Retriever, SetTrace(r) \/ ReadSelection(r) \/ Return(r) \/ SearchFails(r)
      PROVE  OriginInv' /\ Persist
  BY <1>1, <1>6 DEF SetTrace, ReadSelection, Return, SearchFails, TypeOK
<1>7. CASE Crash
  BY <1>1, <1>7 DEF Crash
<1>8. CASE UNCHANGED vars
  BY <1>1, <1>8 DEF vars, retrieverVars
<1> QED BY <1>2, <1>3, <1>4, <1>5, <1>6, <1>7, <1>8 DEF Next, RetrieverStep

\* No record disappears or turns into another one, however long ago a retrieval
\* read what it writes back.
THEOREM RecordsPersistCorrect == Spec => RecordsPersist
<1>1. Init => OriginInv
  BY DEF Init, OriginInv
<1>2. TypeOK /\ NoWriteBelowTransaction /\ OriginInv /\ [Next]_vars
        => /\ OriginInv'
           /\ [\A m \in Memory : memory[m] # {} => memory[m] \cap memory'[m] # {}]_vars
  BY OriginStep
<1> QED BY <1>1, <1>2, TypeCorrect, NoWriteBelowTransactionCorrect, PTL DEF Spec, RecordsPersist

-----------------------------------------------------------------------------
(* One executor that nobody disturbs                                        *)

\* No retrieval runs and no second thread executes policies: one event loop
\* with retrieval_graph_commit other than async, between two queries.
Undisturbed == Retriever = {} /\ \A e, f \in Executor : e = f

\* The first snapshot is still the store, the trace is still its own.
SoloInv ==
    /\ LedgerExplainsStore
    /\ CommitsCarryOwnTrace
    /\ \A e \in Executor :
         /\ mode[e] \in {"validating", "open", "applied", "traced"} => before[e] = memory
         /\ mode[e] = "applied" => lastTrace = txn[e]
         /\ mode[e] = "traced" => trace[e] = txn[e]

\* With one executor the delta of a commit is what the commit changes.
LEMMA SoloInvNext ==
  ASSUME Undisturbed, TypeOK, StoreInv, SoloInv, [Next]_vars
  PROVE  SoloInv'
<1>a. \A e \in Executor : mode[e] # "idle" => txn[e] \in Call
  BY BoundAssumption DEF TypeOK, StoreInv, NumberInv, Call
<1>b. \A e, f \in Executor : e = f
  BY DEF Undisturbed
<1> USE DEF SoloInv, LedgerExplainsStore, CommitsCarryOwnTrace, IsCommitted, Goto
<1>1. ASSUME UNCHANGED <<memory, log, delta, source>>,
             \A e \in Executor :
               /\ mode'[e] \in {"validating", "open", "applied", "traced"} => before'[e] = memory
               /\ mode'[e] = "applied" => lastTrace' = txn'[e]
               /\ mode'[e] = "traced" => trace'[e] = txn'[e]
      PROVE  SoloInv'
  BY <1>1
<1>2. ASSUME NEW e \in Executor, Snapshot(e) PROVE SoloInv'
  <2>1. before'[e] = memory /\ mode'[e] = "validating" /\ UNCHANGED <<memory, log, delta, source>>
    BY <1>2 DEF Snapshot, ledgerVars, TypeOK
  <2> QED BY <1>1, <1>b, <2>1
<1>3. ASSUME NEW e \in Executor, Reject(e) \/ NoteRollback(e) \/ AssertionFails(e) \/ Raise(e)
      PROVE  SoloInv'
  <2>1. mode'[e] \in {"idle", "recording", "undone"} /\ UNCHANGED <<memory, log, delta, source>>
    BY <1>3 DEF Reject, NoteRollback, AssertionFails, Raise, ledgerVars, TypeOK
  <2> QED BY <1>1, <1>b, <2>1
<1>4. ASSUME NEW e \in Executor, Open(e) PROVE SoloInv'
  <2>1. /\ mode'[e] = "open" /\ mode[e] = "validating"
        /\ UNCHANGED <<memory, log, delta, source, before>>
    BY <1>4 DEF Open, ledgerVars, TypeOK
  <2> QED BY <1>1, <1>b, <2>1
<1>5. ASSUME NEW e \in Executor, Apply(e) PROVE SoloInv'
  <2>1. /\ mode'[e] = "applied" /\ mode[e] = "open" /\ lastTrace' = txn[e]
        /\ UNCHANGED <<memory, log, delta, source, before, txn>>
    BY <1>5 DEF Apply, ledgerVars, TypeOK
  <2> QED BY <1>1, <1>b, <2>1
<1>6. ASSUME NEW e \in Executor, TakeTrace(e) PROVE SoloInv'
  <2>1. /\ mode'[e] = "traced" /\ mode[e] = "applied" /\ trace'[e] = lastTrace
        /\ UNCHANGED <<memory, log, delta, source, before, txn>>
    BY <1>6 DEF TakeTrace, ledgerVars, TypeOK
  <2> QED BY <1>1, <1>b, <2>1
<1>7. ASSUME NEW e \in Executor, Commit(e) PROVE SoloInv'
  <2>1. /\ memory' = draft[e] /\ mode[e] = "traced" /\ mode'[e] = "idle"
        /\ log' = [log EXCEPT ![txn[e]] = Committed]
        /\ delta' = [delta EXCEPT ![txn[e]] = Delta(e)]
        /\ source' = [source EXCEPT ![txn[e]] = trace[e]]
    BY <1>7 DEF Commit, TypeOK
  <2>2. txn[e] \in Call
    BY <2>1, <1>a
  <2>3. /\ log'[txn[e]] = Committed /\ delta'[txn[e]] = Delta(e) /\ source'[txn[e]] = txn[e]
        /\ \A t \in Call : t # txn[e] =>
             log'[t] = log[t] /\ delta'[t] = delta[t] /\ source'[t] = source[t]
    BY <2>1, <2>2 DEF TypeOK
  <2>4. \A m \in Memory : draft[e][m] \ {txn[e]} = memory[m]
    BY <2>1 DEF StoreInv, NoWriteBelowTransaction
  <2>5. \A m \in Memory : memory[m] \subseteq memory'[m]
    BY <2>1, <2>4
  <2>6. \A m \in Delta(e) : m \in Memory /\ memory[m] # draft[e][m]
    BY <2>1 DEF Delta
  <2>7. ASSUME NEW m \in Delta(e) PROVE txn[e] \in memory'[m]
    <3>1. draft[e][m] \ {txn[e]} = memory[m]
      BY <2>4, <2>6
    <3>2. txn[e] \notin draft[e][m] => draft[e][m] \ {txn[e]} = draft[e][m]
      OBVIOUS
    <3>3. txn[e] \in draft[e][m]
      BY <2>6, <3>1, <3>2
    <3> QED BY <2>1, <3>3
  <2>8. \A t \in Call : delta[t] \subseteq Memory
    BY DEF TypeOK
  <2>9. LedgerExplainsStore'
    BY <2>3, <2>5, <2>7, <2>8
  <2>10. CommitsCarryOwnTrace'
    BY <2>3
  <2> QED BY <2>1, <2>9, <2>10, <1>b
<1>8. ASSUME NEW e \in Executor, Record(e) PROVE SoloInv'
  <2>1. /\ log' = [log EXCEPT ![txn[e]] = Append(@, Head(script[e]))]
        /\ mode[e] = "recording" /\ mode'[e] \in {"idle", "recording"}
        /\ UNCHANGED <<memory, delta, source>>
    BY <1>8 DEF Record, TypeOK
  <2>2. txn[e] \in Call /\ <<log[txn[e]], script[e]>> \in Pending
    BY <2>1, <1>a DEF StoreInv, StoryInv
  <2>3. Append(log[txn[e]], Head(script[e])) # Committed
    <3>1. Append(log[txn[e]], Head(script[e])) \in Refused
      BY <2>2, PendingStep
    <3> QED BY <3>1, RefusedStories
  <2>4. \A t \in Call : log'[t] = Committed => log[t] = Committed
    BY <2>1, <2>2, <2>3 DEF TypeOK
  <2> QED BY <2>1, <2>4, <1>b
<1>9. CASE Crash
  BY <1>1, <1>9 DEF Crash, ledgerVars
<1>10. CASE UNCHANGED vars
  BY <1>1, <1>10 DEF vars, ledgerVars, executorVars
<1> QED BY <1>2, <1>3, <1>4, <1>5, <1>6, <1>7, <1>8, <1>9, <1>10 DEF Next, ExecutorStep, Undisturbed

\* One executor alone: SoloInv holds throughout.
LEMMA SoloInvCorrect == ASSUME Undisturbed PROVE Spec => []SoloInv
<1>1. Init => SoloInv
  BY DEF Init, SoloInv, LedgerExplainsStore, CommitsCarryOwnTrace, IsCommitted, Committed
<1>2. TypeOK /\ StoreInv /\ SoloInv /\ [Next]_vars => SoloInv'
  BY SoloInvNext
<1> QED BY <1>1, <1>2, TypeCorrect, StoreInvCorrect, PTL DEF Spec

\* Without a retrieval or a second executor beside it, whatever crashes or is
\* refused: a change the ledger reports is in the store.
THEOREM LedgerExplainsStoreCorrect == ASSUME Undisturbed PROVE Spec => []LedgerExplainsStore
<1>1. SoloInv => LedgerExplainsStore
  BY DEF SoloInv
<1> QED BY <1>1, SoloInvCorrect, PTL

\* Under the same assumption the committed row carries its transaction's trace.
THEOREM CommitsCarryOwnTraceCorrect == ASSUME Undisturbed PROVE Spec => []CommitsCarryOwnTrace
<1>1. SoloInv => CommitsCarryOwnTrace
  BY DEF SoloInv
<1> QED BY <1>1, SoloInvCorrect, PTL

=============================================================================
