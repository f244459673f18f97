-------------------------- MODULE RequestScopeProofs --------------------------
(***************************************************************************)
(* Proofs about RequestScope, for any requests, header ids and handlers.   *)
(*                                                                         *)
(* A statement is only ever flushed to the session of the trace id of its  *)
(* request, and stays there while the request is inside the dependency.    *)
(* Two requests inside it with one trace id are both in "shared"; so that  *)
(* nobody else commits, rolls back or closes the session of a request that *)
(* is not, and what it finds there at its commit is what it has flushed.   *)
(***************************************************************************)
EXTENDS RequestScope, TLAPS

\* What a request has been through, wherever its session is.
Flow ==
  \A r \in Requests :
    /\ Active(r) => trace[r] \in TraceIds
    /\ pc[r] \in {"idle", "admitting"} => written[r] = 0
    /\ pc[r] \in {"idle", "admitting", "handling"} => error[r] = "none"
    /\ pc[r] = "leaving" /\ error[r] = "none" /\ method[r] = "POST" => written[r] = Statements
    /\ error[r] = "invalid" => written[r] = 0
    /\ Active(r) => error[r] # "unclosed"
    /\ pc[r] \in {"answering", "answered"} => error[r] # "cancelled"
    /\ answer[r] = IF pc[r] = "answered" THEN Status(error[r]) ELSE "none"

\* A statement is in the session of its request only, and only while that runs.
Located ==
  \A t \in TraceIds : \A w \in flushed[t] :
    Active(w[1]) /\ trace[w[1]] = t /\ w[2] <= written[w[1]]

\* Requests that are inside at the same time with one trace id are known as shared.
SharedKnown ==
  \A r, s \in Requests :
    r # s /\ Active(r) /\ Active(s) /\ trace[r] = trace[s] => r \in shared

Nothing(r) == \A k \in 1..Statements : <<r, k>> \notin db
Everything(r) == \A k \in 1..Statements : <<r, k>> \in db

AllPending(r) == \A k \in 1..Statements : k <= written[r] => <<r, k>> \in flushed[trace[r]]
NonePending(r) == \A k \in 1..Statements : <<r, k>> \notin flushed[trace[r]]

\* What is committed of a request on its own, at every point of its way, and what
\* its session holds until then.
Fate(r) ==
  /\ Nothing(r) \/ Everything(r)
  /\ pc[r] \in {"idle", "admitting", "handling"} => Nothing(r)
  /\ pc[r] = "leaving" /\ error[r] \notin {"lost", "cancelled"} => Nothing(r)
  /\ error[r] \notin {"none", "lost", "cancelled"} => Nothing(r)
  /\ method[r] = "GET" => Nothing(r)
  /\ Active(r) => Nothing(r) \/ NonePending(r)
  /\ pc[r] \in {"closing", "forgetting", "answering", "answered"}
       /\ error[r] = "none" /\ method[r] = "POST" => Everything(r)
  /\ pc[r] = "handling" \/ (pc[r] = "leaving" /\ error[r] = "none") => AllPending(r)

Alone == \A r \in Requests \ shared : Fate(r)

IInv == TypeOK /\ Flow /\ Located /\ SharedKnown /\ NoSessionLeft /\ Alone

-----------------------------------------------------------------------------

\* The invariant holds before any request is received.
LEMMA InitIInv == Init => IInv
<1> SUFFICES ASSUME Init PROVE IInv
  OBVIOUS
<1> USE DEF Init
<1>1. TypeOK
  BY RequestAssumption DEF TypeOK, TraceIds, Phases, Inside, Unraised, Raised
<1>2. Flow /\ Located /\ SharedKnown /\ NoSessionLeft
  BY DEF Flow, Located, SharedKnown, NoSessionLeft, Active, Inside
<1>3. Alone
  BY DEF Alone, Fate, Nothing
<1> QED
  BY <1>1, <1>2, <1>3 DEF IInv

\* Every action keeps the types of the variables.
LEMMA TypeKeeps == TypeOK /\ Flow /\ [Next]_vars => TypeOK'
<1> SUFFICES ASSUME TypeOK, Flow, [Next]_vars PROVE TypeOK'
  OBVIOUS
<1> USE DEF TypeOK
<1>1. CASE UNCHANGED vars
  BY <1>1 DEF vars
<1>2. CASE Crash
  BY <1>2 DEF Crash, Phases
<1>3. CASE \E r \in Requests, t \in TraceIds : Receive(r, t)
  BY <1>3 DEF Receive, Advance, Phases, Inside, TraceIds
<1>4. CASE \E r \in Requests : Step(r)
  <2> PICK r \in Requests : Step(r)
    BY <1>4
  <2> USE DEF Phases, Inside, Raised, Unraised, Advance, Fail
  <2>1. CASE TurnAway(r) \/ Invalid(r) \/ Admit(r) \/ Return(r) \/ Raise(r)
    BY <2>1 DEF TurnAway, Invalid, Admit, Return, Raise
  <2>2. CASE Flush(r)
    <3>1. written[r] + 1 \in 1..Statements
      BY <2>2, RequestAssumption DEF Flush
    <3>2. /\ trace[r] \in TraceIds
          /\ <<r, written[r] + 1>> \in AllWork
      BY <2>2, <3>1 DEF Flush, Flow, Active, AllWork
    <3> QED
      BY <2>2, <3>1, <3>2 DEF Flush
  <2>3. CASE Commit(r) \/ CommitFails(r) \/ Except(r)
    <3>1. trace[r] \in TraceIds
      BY <2>3 DEF Commit, CommitFails, Except, Flow, Active
    <3>2. Session(r) \subseteq AllWork
      BY <3>1 DEF Session
    <3> QED
      BY <2>3, <3>1, <3>2 DEF Commit, CommitFails, Except
  <2>4. CASE Close(r) \/ CloseFails(r) \/ Forget(r)
    BY <2>4 DEF Close, CloseFails, Forget
  <2>5. CASE Answer(r)
    BY <2>5 DEF Answer, Status, ErrorHandler
  <2> QED
    BY <2>1, <2>2, <2>3, <2>4, <2>5 DEF Step
<1> QED
  BY <1>1, <1>2, <1>3, <1>4 DEF Next

\* Every action keeps the account of each request's own way.
LEMMA FlowKeeps == TypeOK /\ Flow /\ [Next]_vars => Flow'
<1> SUFFICES ASSUME TypeOK, Flow, [Next]_vars PROVE Flow'
  OBVIOUS
<1> USE DEF TypeOK, Flow, Active, Inside
<1>1. CASE UNCHANGED vars
  BY <1>1 DEF vars
<1>2. CASE Crash
  BY <1>2 DEF Crash
<1>3. CASE \E r \in Requests, t \in TraceIds : Receive(r, t)
  BY <1>3 DEF Receive, Advance, TraceIds
<1>4. CASE \E r \in Requests : Step(r)
  <2> PICK r \in Requests : Step(r)
    BY <1>4
  <2> USE DEF Advance, Fail, Raised, Unraised
  <2>1. CASE TurnAway(r) \/ Invalid(r) \/ Admit(r) \/ Return(r) \/ Raise(r)
    BY <2>1 DEF TurnAway, Invalid, Admit, Return, Raise
  <2>2. CASE Flush(r)
    BY <2>2, RequestAssumption DEF Flush
  <2>3. CASE Commit(r) \/ CommitFails(r) \/ Except(r)
    BY <2>3 DEF Commit, CommitFails, Except
  <2>4. CASE Close(r) \/ CloseFails(r) \/ Forget(r)
    BY <2>4 DEF Close, CloseFails, Forget
  <2>5. CASE Answer(r)
    BY <2>5 DEF Answer
  <2> QED
    BY <2>1, <2>2, <2>3, <2>4, <2>5 DEF Step
<1> QED
  BY <1>1, <1>2, <1>3, <1>4 DEF Next

\* Statements stay in the session of their request, and go before it leaves.
LEMMA LocatedKeeps == TypeOK /\ Flow /\ Located /\ [Next]_vars => Located'
<1> SUFFICES ASSUME TypeOK, Flow, Located, [Next]_vars PROVE Located'
  OBVIOUS
<1> USE DEF TypeOK, Located, Active, Inside
<1>1. CASE UNCHANGED vars
  BY <1>1 DEF vars, AllWork
<1>2. CASE Crash
  BY <1>2 DEF Crash
<1>3. CASE \E r \in Requests, t \in TraceIds : Receive(r, t)
  BY <1>3 DEF Receive, Advance, AllWork
<1>4. CASE \E r \in Requests : Step(r)
  <2> PICK r \in Requests : Step(r)
    BY <1>4
  <2> USE DEF Advance
  <2>1. CASE TurnAway(r) \/ Invalid(r) \/ Admit(r) \/ Return(r) \/ Raise(r)
    BY <2>1 DEF TurnAway, Invalid, Admit, Return, Raise, AllWork
  <2>2. CASE Flush(r)
    <3>1. /\ trace[r] \in TraceIds /\ UNCHANGED <<pc, trace>>
          /\ \A s \in Requests : written[s] <= written'[s]
          /\ written'[r] = written[r] + 1
      BY <2>2, RequestAssumption DEF Flush, Flow
    <3> SUFFICES ASSUME NEW t \in TraceIds, NEW w \in flushed'[t]
                 PROVE  Active(w[1])' /\ trace'[w[1]] = t /\ w[2] <= written'[w[1]]
      BY DEF Located
    <3>2. CASE w \in flushed[t]
      <4>1. w[1] \in Requests /\ w[2] \in Nat /\ written[w[1]] \in Nat /\ written'[w[1]] \in Nat
        BY <3>2, <2>2, RequestAssumption DEF AllWork, Flush
      <4> QED
        BY <3>1, <3>2, <4>1
    <3>3. CASE w \notin flushed[t]
      <4>1. t = trace[r] /\ w = <<r, written[r] + 1>>
        BY <3>3, <2>2 DEF Flush
      <4> QED
        BY <3>1, <4>1, <2>2 DEF Flush
    <3> QED
      BY <3>2, <3>3
  <2>3. CASE Commit(r) \/ CommitFails(r) \/ Except(r)
    BY <2>3 DEF Commit, CommitFails, Except, AllWork
  <2>4. CASE Close(r) \/ CloseFails(r) \/ Forget(r)
    BY <2>4 DEF Close, CloseFails, Forget, AllWork
  <2>5. CASE Answer(r)
    BY <2>5 DEF Answer, AllWork
  <2> QED
    BY <2>1, <2>2, <2>3, <2>4, <2>5 DEF Step
<1> QED
  BY <1>1, <1>2, <1>3, <1>4 DEF Next

\* Requests that meet with one trace id are recorded.
LEMMA SharedKeeps == TypeOK /\ SharedKnown /\ [Next]_vars => SharedKnown'
<1> SUFFICES ASSUME TypeOK, SharedKnown, [Next]_vars PROVE SharedKnown'
  OBVIOUS
<1> USE DEF TypeOK, SharedKnown, Active, Inside
<1>1. CASE UNCHANGED vars
  BY <1>1 DEF vars
<1>2. CASE Crash
  BY <1>2 DEF Crash
<1>3. CASE \E r \in Requests, t \in TraceIds : Receive(r, t)
  <2> PICK r \in Requests, t \in TraceIds : Receive(r, t)
    BY <1>3
  <2> DEFINE others == {s \in Requests : Active(s) /\ trace[s] = t}
  <2>1. /\ pc' = [pc EXCEPT ![r] = "admitting"]
        /\ trace' = [trace EXCEPT ![r] = t]
        /\ shared' = IF others = {} THEN shared ELSE shared \cup others \cup {r}
    BY DEF Receive, Advance
  <2> SUFFICES ASSUME NEW p \in Requests, NEW q \in Requests, p # q,
                      Active(p)', Active(q)', trace'[p] = trace'[q]
               PROVE  p \in shared'
    BY DEF SharedKnown
  <2>2. CASE p # r /\ q # r
    BY <2>1, <2>2
  <2>3. CASE p = r
    BY <2>1, <2>3
  <2>4. CASE q = r
    BY <2>1, <2>4
  <2> QED
    BY <2>2, <2>3, <2>4
<1>4. CASE \E r \in Requests : Step(r)
  <2> PICK r \in Requests : Step(r)
    BY <1>4
  <2> USE DEF Advance
  <2>1. CASE TurnAway(r) \/ Invalid(r) \/ Admit(r) \/ Return(r) \/ Raise(r) \/ Flush(r)
    BY <2>1 DEF TurnAway, Invalid, Admit, Return, Raise, Flush
  <2>2. CASE Commit(r) \/ CommitFails(r) \/ Except(r)
    BY <2>2 DEF Commit, CommitFails, Except
  <2>3. CASE Close(r) \/ CloseFails(r) \/ Forget(r) \/ Answer(r)
    BY <2>3 DEF Close, CloseFails, Forget, Answer
  <2> QED
    BY <2>1, <2>2, <2>3 DEF Step
<1> QED
  BY <1>1, <1>2, <1>3, <1>4 DEF Next

\* A session in the registry has a request inside the dependency.
LEMMA SessionsKeep ==
  TypeOK /\ Flow /\ NoSessionLeft /\ [Next]_vars => NoSessionLeft'
<1> SUFFICES ASSUME TypeOK, Flow, NoSessionLeft, [Next]_vars PROVE NoSessionLeft'
  OBVIOUS
<1> USE DEF TypeOK, NoSessionLeft, Active, Inside, Flow
<1>1. CASE UNCHANGED vars
  BY <1>1 DEF vars
<1>2. CASE Crash
  BY <1>2 DEF Crash
<1>3. CASE \E r \in Requests, t \in TraceIds : Receive(r, t)
  BY <1>3 DEF Receive, Advance
<1>4. CASE \E r \in Requests : Step(r)
  <2> PICK r \in Requests : Step(r)
    BY <1>4
  <2> USE DEF Advance, Fail
  <2>1. ASSUME Active(r)', UNCHANGED trace,
               \A q \in Requests \ {r} : pc'[q] = pc[q] /\ error'[q] = error[q],
               registry' \in {registry, registry \cup {trace[r]}},
               \A t \in TraceIds \ {trace[r]} : flushed'[t] = flushed[t],
               flushed'[trace[r]] # {} => trace[r] \in registry'
        PROVE  NoSessionLeft'
    BY <2>1
  <2>2. CASE TurnAway(r) \/ Invalid(r) \/ Admit(r) \/ Return(r) \/ Raise(r)
    <3>1. Active(r)' /\ UNCHANGED <<trace, registry, flushed>>
      BY <2>2 DEF TurnAway, Invalid, Admit, Return, Raise
    <3>2. \A q \in Requests \ {r} : pc'[q] = pc[q] /\ error'[q] = error[q]
      BY <2>2 DEF TurnAway, Invalid, Admit, Return, Raise
    <3>3. flushed'[trace[r]] # {} => trace[r] \in registry'
      BY <2>2, <3>1 DEF TurnAway, Invalid, Admit, Return, Raise
    <3> QED
      BY <2>1, <3>1, <3>2, <3>3
  <2>3. CASE Flush(r)
    BY <2>1, <2>3 DEF Flush
  <2>4. CASE Commit(r) \/ CommitFails(r) \/ Except(r)
    <3>1. Active(r)' /\ UNCHANGED trace /\ trace[r] \in TraceIds
      BY <2>4 DEF Commit, CommitFails, Except
    <3>2. \A q \in Requests \ {r} : pc'[q] = pc[q] /\ error'[q] = error[q]
      BY <2>4 DEF Commit, CommitFails, Except
    <3>3. \/ UNCHANGED <<registry, flushed>>
          \/ /\ registry' = registry \cup {trace[r]}
             /\ flushed' = [flushed EXCEPT ![trace[r]] = {}]
      BY <2>4 DEF Commit, CommitFails, Except
    <3> QED
      BY <2>1, <3>1, <3>2, <3>3
  <2>5. CASE Close(r)
    BY <2>1, <2>5 DEF Close
  <2>6. CASE CloseFails(r)
    <3>1. /\ UNCHANGED <<trace, registry>> /\ error'[r] = "unclosed" /\ trace[r] \in TraceIds
          /\ flushed' = [flushed EXCEPT ![trace[r]] = {}]
          /\ \A q \in Requests \ {r} : pc'[q] = pc[q] /\ error'[q] = error[q]
      BY <2>6 DEF CloseFails
    <3> QED
      BY <3>1
  <2>7. CASE Forget(r)
    <3>1. /\ UNCHANGED <<trace, error>> /\ trace[r] \in TraceIds
          /\ registry' = registry \ {trace[r]}
          /\ flushed' = [flushed EXCEPT ![trace[r]] = {}]
          /\ \A q \in Requests \ {r} : pc'[q] = pc[q]
      BY <2>7 DEF Forget
    <3> QED
      BY <3>1
  <2>8. CASE Answer(r)
    BY <2>8 DEF Answer
  <2> QED
    BY <2>2, <2>3, <2>4, <2>5, <2>6, <2>7, <2>8 DEF Step
<1> QED
  BY <1>1, <1>2, <1>3, <1>4 DEF Next

-----------------------------------------------------------------------------

\* A session used by somebody else holds nothing of a request on its own.
LEMMA NotMine ==
  ASSUME TypeOK, Located, SharedKnown, NEW r \in Requests \ shared,
         NEW s \in Requests, s # r, Active(s), trace[s] \in TraceIds
  PROVE  /\ \A k \in 1..Statements : <<r, k>> \notin Session(s)
         /\ Active(r) => trace[r] # trace[s]
<1>1. Active(r) => trace[r] # trace[s]
  BY DEF SharedKnown
<1> SUFFICES ASSUME NEW k \in 1..Statements, <<r, k>> \in flushed[trace[s]] PROVE FALSE
  BY <1>1 DEF Session
<1>2. Active(r) /\ trace[r] = trace[s]
  BY DEF Located
<1> QED
  BY <1>1, <1>2

\* What another request does leaves the fate of a request on its own as it is.
LEMMA OthersLeaveAlone ==
  ASSUME TypeOK, Flow, Located, SharedKnown, NEW r \in Requests \ shared, Fate(r),
         NEW s \in Requests, s # r, Step(s)
  PROVE  Fate(r)'
<1> USE DEF TypeOK, Advance, Fate, Nothing, Everything
<1>0. ASSUME pc'[r] = pc[r], error'[r] = error[r], UNCHANGED <<trace, method>>,
             \A k \in 1..Statements : <<r, k>> \in db' <=> <<r, k>> \in db,
             Active(r) => (AllPending(r) => AllPending(r)') /\ (NonePending(r) => NonePending(r)')
      PROVE  Fate(r)'
  <2>1. (Nothing(r)' <=> Nothing(r)) /\ (Everything(r)' <=> Everything(r))
    BY <1>0
  <2> HIDE DEF Nothing, Everything
  <2> QED
    BY <1>0, <2>1 DEF Active, Inside
<1>1. CASE TurnAway(s) \/ Invalid(s) \/ Admit(s) \/ Return(s) \/ Raise(s) \/ Answer(s)
  <2>1. /\ pc'[r] = pc[r] /\ error'[r] = error[r]
        /\ UNCHANGED <<trace, method, written, flushed, db>>
    BY <1>1 DEF TurnAway, Invalid, Admit, Return, Raise, Answer, Fail
  <2> QED
    BY <1>0, <2>1 DEF AllPending, NonePending
<1>2. CASE Flush(s)
  <2>1. /\ UNCHANGED <<pc, trace, method, error, db>>
        /\ written'[r] = written[r]
        /\ \A t \in TraceIds, k \in 1..Statements : <<r, k>> \in flushed'[t] <=> <<r, k>> \in flushed[t]
    BY <1>2 DEF Flush
  <2>2. Active(r) => trace[r] \in TraceIds
    BY DEF Flow
  <2>3. Active(r) => (AllPending(r) => AllPending(r)') /\ (NonePending(r) => NonePending(r)')
    BY <2>1, <2>2 DEF AllPending, NonePending
  <2> QED
    BY <1>0, <2>1, <2>3
<1>3. CASE Commit(s) \/ CommitFails(s) \/ Except(s) \/ Close(s) \/ CloseFails(s) \/ Forget(s)
  <2>1. Active(s) /\ trace[s] \in TraceIds
    BY <1>3 DEF Commit, CommitFails, Except, Close, CloseFails, Forget, Active, Inside, Flow
  <2>2. /\ \A k \in 1..Statements : <<r, k>> \notin Session(s)
        /\ Active(r) => trace[r] # trace[s]
    BY <2>1, NotMine
  <2>3. /\ pc'[r] = pc[r] /\ error'[r] = error[r]
        /\ UNCHANGED <<trace, method, written>>
    BY <1>3 DEF Commit, CommitFails, Except, Close, CloseFails, Forget, Fail
  <2>4. db' = db \/ db' = db \cup Session(s)
    BY <1>3 DEF Commit, CommitFails, Except, Close, CloseFails, Forget
  <2>5. \A t \in TraceIds : t # trace[s] => flushed'[t] = flushed[t]
    BY <1>3 DEF Commit, CommitFails, Except, Close, CloseFails, Forget
  <2>6. \A k \in 1..Statements : <<r, k>> \in db' <=> <<r, k>> \in db
    BY <2>2, <2>4
  <2>7. Active(r) => trace[r] \in TraceIds /\ flushed'[trace[r]] = flushed[trace[r]]
    BY <2>2, <2>5 DEF Flow
  <2>8. Active(r) => (AllPending(r) => AllPending(r)') /\ (NonePending(r) => NonePending(r)')
    BY <2>3, <2>7 DEF AllPending, NonePending
  <2> QED
    BY <1>0, <2>3, <2>6, <2>8
<1> QED
  BY <1>1, <1>2, <1>3 DEF Step

\* What a request on its own does next keeps its own fate: its session holds all
\* it has flushed until it is committed or dropped as a whole.
LEMMA OwnFateKept ==
  ASSUME TypeOK, Flow, Located, SharedKnown, NEW r \in Requests \ shared, Fate(r), Step(r)
  PROVE  Fate(r)'
<1> USE DEF TypeOK, Advance, Fate, Unraised, Raised, Fail, Active, Inside
<1>1. ASSUME UNCHANGED db PROVE (Nothing(r)' <=> Nothing(r)) /\ (Everything(r)' <=> Everything(r))
  BY <1>1 DEF Nothing, Everything
<1>2. ASSUME UNCHANGED <<trace, written, flushed>>
      PROVE  (AllPending(r)' <=> AllPending(r)) /\ (NonePending(r)' <=> NonePending(r))
  BY <1>2 DEF AllPending, NonePending
<1>3. CASE TurnAway(r) \/ Invalid(r) \/ Raise(r)
  BY <1>1, <1>2, <1>3 DEF TurnAway, Invalid, Raise
<1>4. CASE Admit(r)
  <2>1. AllPending(r)
    BY <1>4, RequestAssumption DEF Admit, Flow, AllPending
  <2> QED
    BY <1>1, <1>2, <1>4, <2>1 DEF Admit
<1>5. CASE Return(r)
  BY <1>1, <1>2, <1>5 DEF Return, Flow
<1>6. CASE Flush(r)
  <2>1. /\ trace[r] \in TraceIds /\ pc[r] = "handling"
        /\ UNCHANGED <<pc, trace, method, error, db>>
        /\ written'[r] = written[r] + 1 /\ written[r] \in Nat
        /\ flushed'[trace[r]] = flushed[trace[r]] \cup {<<r, written[r] + 1>>}
    BY <1>6, RequestAssumption DEF Flush, Flow
  <2>2. \A k \in 1..Statements : k <= written[r] + 1 => k <= written[r] \/ k = written[r] + 1
    BY <2>1, RequestAssumption
  <2>3. AllPending(r)'
    BY <2>1, <2>2 DEF AllPending
  <2> QED
    BY <1>1, <2>1, <2>3
<1>7. CASE Commit(r) \/ CommitFails(r)
  <2>1. trace[r] \in TraceIds /\ pc[r] = "leaving" /\ error[r] \in Unraised /\ Nothing(r)
    BY <1>7 DEF Commit, CommitFails, Flow
  <2>2. CASE method[r] = "GET"
    BY <1>1, <1>2, <1>7, <2>1, <2>2 DEF Commit, CommitFails
  <2>3. CASE method[r] = "POST"
    <3>1. error[r] = "none" => \A k \in 1..Statements : <<r, k>> \in Session(r)
      BY <2>1, <2>3, RequestAssumption DEF Flow, Session, AllPending
    <3>2. error[r] = "invalid" => \A k \in 1..Statements : <<r, k>> \notin Session(r)
      <4> SUFFICES ASSUME error[r] = "invalid", NEW k \in 1..Statements,
                          <<r, k>> \in flushed[trace[r]]
                   PROVE  FALSE
        BY DEF Session
      <4>1. written[r] = 0
        BY DEF Flow
      <4>2. k <= written[r]
        BY <2>1 DEF Located
      <4> QED
        BY <4>1, <4>2
    <3>3. NonePending(r)'
      BY <1>7, <2>1, <2>3 DEF Commit, CommitFails, NonePending
    <3>4. db' = db \cup Session(r) =>
            /\ error[r] = "none" => Everything(r)'
            /\ error[r] = "invalid" => Nothing(r)'
      BY <2>1, <3>1, <3>2 DEF Everything, Nothing
    <3>5. CASE Commit(r)
      BY <2>1, <2>3, <3>3, <3>4, <3>5 DEF Commit
    <3>6. CASE CommitFails(r)
      <4>1. /\ UNCHANGED <<pc, method>> /\ pc[r] = "leaving"
            /\ error'[r] \in {"other", "lost", "cancelled"}
            /\ error'[r] = "other" => db' = db
            /\ db' = db \/ db' = db \cup Session(r)
        BY <3>6 DEF CommitFails
      <4>2. CASE db' = db
        BY <1>1, <2>1, <2>3, <3>3, <4>1, <4>2
      <4>3. CASE db' # db
        BY <2>1, <2>3, <3>3, <3>4, <4>1, <4>3
      <4> QED
        BY <4>2, <4>3
    <3> QED
      BY <1>7, <3>5, <3>6
  <2> QED
    BY <2>2, <2>3
<1>8. CASE Except(r)
  <2>1. /\ pc[r] = "leaving" /\ pc'[r] = "closing" /\ UNCHANGED <<db, trace, method, written>>
        /\ trace[r] \in TraceIds
    BY <1>8 DEF Except, Flow
  <2>2. CASE RollsBack(r)
    <3>1. NonePending(r)'
      BY <1>8, <2>1, <2>2 DEF Except, NonePending
    <3>2. /\ error[r] \notin {"none", "invalid", "cancelled"} /\ method[r] = "POST"
          /\ error'[r] \in {error[r], "other", "cancelled"}
          /\ error[r] = "lost" => error'[r] \in {"lost", "cancelled"}
      BY <1>8, <2>2 DEF Except, RollsBack
    <3> QED
      BY <1>1, <2>1, <3>1, <3>2
  <2>3. CASE ~RollsBack(r)
    <3>1. UNCHANGED <<error, flushed>> /\ error[r] \notin {"none", "invalid"}
      BY <1>8, <2>3 DEF Except
    <3> QED
      BY <1>1, <1>2, <2>1, <3>1
  <2> QED
    BY <2>2, <2>3
<1>9. CASE Close(r) \/ Forget(r)
  <2>1. /\ UNCHANGED <<db, trace, method, error>> /\ trace[r] \in TraceIds
        /\ pc[r] \in {"closing", "forgetting"}
        /\ pc'[r] \in {"forgetting", "answering", "dead"}
    BY <1>9 DEF Close, Forget, Flow
  <2>2. NonePending(r)'
    BY <1>9, <2>1 DEF Close, Forget, NonePending
  <2> QED
    BY <1>1, <2>1, <2>2
<1>10. CASE Answer(r)
  BY <1>1, <1>10 DEF Answer
<1>11. CASE CloseFails(r)
  <2>1. Active(r) /\ pc'[r] \in {"answering", "dead"} /\ error'[r] = "unclosed" /\ UNCHANGED db
    BY <1>11 DEF CloseFails
  <2>2. PICK w \in AllWork : w \in flushed[trace[r]]
    BY <1>11, <2>1 DEF CloseFails, Session, Flow
  <2>3. Active(w[1]) /\ trace[w[1]] = trace[r] /\ w[1] \in Requests
    BY <2>1, <2>2 DEF Located, Flow, AllWork
  <2>4. w[1] = r
    BY <2>1, <2>3 DEF SharedKnown
  <2>5. ~NonePending(r)
    BY <2>2, <2>4 DEF NonePending, AllWork
  <2>6. Nothing(r)
    BY <2>1, <2>5
  <2> QED
    BY <1>1, <2>1, <2>6
<1> QED
  BY <1>3, <1>4, <1>5, <1>6, <1>7, <1>8, <1>9, <1>10, <1>11 DEF Step

\* Every action keeps the fates of the requests that are on their own.
LEMMA AloneKeeps ==
  TypeOK /\ Flow /\ Located /\ SharedKnown /\ Alone /\ [Next]_vars => Alone'
<1> SUFFICES ASSUME TypeOK, Flow, Located, SharedKnown, Alone, [Next]_vars,
                    NEW r \in Requests, r \notin shared'
             PROVE  Fate(r)'
  BY DEF Alone
<1>1. CASE UNCHANGED vars
  BY <1>1 DEF vars, Alone, Fate, Nothing, Everything, AllPending, NonePending, Active
<1>2. CASE Crash
  BY <1>2 DEF Crash, Alone, Fate, Nothing, Everything, TypeOK, Active, Inside
<1>3. CASE \E s \in Requests, t \in TraceIds : Receive(s, t)
  <2> PICK s \in Requests, t \in TraceIds : Receive(s, t)
    BY <1>3
  <2>1. r \notin shared
    BY DEF Receive
  <2>2. Fate(r)
    BY <2>1 DEF Alone
  <2>3. UNCHANGED <<written, error, flushed, db>> /\ (Nothing(r)' <=> Nothing(r))
          /\ (Everything(r)' <=> Everything(r))
    BY DEF Receive, Nothing, Everything
  <2>4. CASE r = s
    BY <2>2, <2>3, <2>4 DEF Receive, Advance, Fate, TypeOK, Flow
  <2>5. CASE r # s
    <3>1. pc'[r] = pc[r] /\ method'[r] = method[r] /\ trace'[r] = trace[r]
      BY <2>5 DEF Receive, Advance, TypeOK
    <3>2. (AllPending(r)' <=> AllPending(r)) /\ (NonePending(r)' <=> NonePending(r))
      BY <2>3, <3>1 DEF AllPending, NonePending
    <3> QED
      BY <2>2, <2>3, <3>1, <3>2 DEF Fate, Active
  <2> QED
    BY <2>4, <2>5
<1>4. CASE \E s \in Requests : Step(s)
  <2> PICK s \in Requests : Step(s)
    BY <1>4
  <2>1. shared' = shared
    BY DEF Step, TurnAway, Invalid, Admit, Flush, Return, Raise, Commit, CommitFails,
           Except, Close, CloseFails, Forget, Answer
  <2>2. r \in Requests \ shared /\ Fate(r)
    BY <2>1 DEF Alone
  <2> QED
    BY <2>2, OthersLeaveAlone, OwnFateKept
<1> QED
  BY <1>1, <1>2, <1>3, <1>4 DEF Next

-----------------------------------------------------------------------------

\* The strengthened invariant holds in every state of every behaviour.
THEOREM InvariantHolds == Spec => []IInv
<1>1. IInv /\ [Next]_vars => IInv'
  BY TypeKeeps, FlowKeeps, LocatedKeeps, SharedKeeps, SessionsKeep, AloneKeeps DEF IInv
<1> QED
  BY <1>1, InitIInv, PTL DEF Spec

\* The context variables, the registry of sessions and the tables keep their types.
THEOREM TypeCorrect == Spec => []TypeOK
<1>1. IInv => TypeOK
  BY DEF IInv
<1> QED
  BY <1>1, InvariantHolds, PTL

\* init_ctx_db_session leaves a session in the registry only where its close() has
\* failed, whatever is raised and whoever overlaps, and never one whose transaction is
\* still open.
THEOREM NoSessionStays == Spec => []NoSessionLeft
<1>1. IInv => NoSessionLeft
  BY DEF IInv
<1> QED
  BY <1>1, InvariantHolds, PTL

\* The transaction around a handler is atomic for a request that shares its trace
\* id with nobody.
THEOREM HandlersAreAtomic == Spec => []AllOrNothing
<1>1. IInv => AllOrNothing
  <2> SUFFICES ASSUME IInv, NEW r \in Requests \ shared
               PROVE  Work(r) \cap db \in {{}, Work(r)}
    BY DEF AllOrNothing
  <2>1. Nothing(r) \/ Everything(r)
    BY DEF IInv, Alone, Fate
  <2>2. Nothing(r) => Work(r) \cap db = {}
    BY DEF Nothing, Work
  <2>3. Everything(r) => Work(r) \cap db = Work(r)
    BY DEF Everything, Work
  <2> QED
    BY <2>1, <2>2, <2>3
<1> QED
  BY <1>1, InvariantHolds, PTL

\* The status such a request gets says whether its work is committed.
THEOREM AnswersAreTrue == Spec => []AnswerIsTrue
<1>1. IInv => AnswerIsTrue
  <2> SUFFICES ASSUME IInv, NEW r \in Requests \ shared
               PROVE  /\ answer[r] = "success" /\ method[r] = "POST" => Work(r) \subseteq db
                      /\ answer[r] \notin {"none", "success"} /\ error[r] # "lost" =>
                           Work(r) \cap db = {}
    BY DEF AnswerIsTrue
  <2>1. Fate(r) /\ answer[r] = IF pc[r] = "answered" THEN Status(error[r]) ELSE "none"
    BY DEF IInv, Alone, Flow
  <2>2. answer[r] = "success" => pc[r] = "answered" /\ error[r] = "none"
    BY <2>1 DEF Status, ErrorHandler
  <2>3. answer[r] \notin {"none", "success"} => error[r] # "none"
    BY <2>1 DEF Status, ErrorHandler
  <2>4. answer[r] = "success" /\ method[r] = "POST" => Everything(r)
    BY <2>1, <2>2 DEF Fate
  <2>5. answer[r] # "none" => error[r] # "cancelled"
    BY <2>1 DEF IInv, Flow
  <2>6. answer[r] \notin {"none", "success"} /\ error[r] # "lost" => Nothing(r)
    BY <2>1, <2>3, <2>5 DEF Fate
  <2> QED
    BY <2>4, <2>6 DEF Everything, Nothing, Work
<1> QED
  BY <1>1, InvariantHolds, PTL

-----------------------------------------------------------------------------
(* The requests implement the transactions *)

\* No request is outside the dependency and on its way, or inside, with an answer.
LEMMA UnansweredInside ==
  ASSUME IInv, NEW r \in Requests, pc[r] # "answered"
  PROVE  answer[r] = "none"
BY DEF IInv, Flow

\* The initial states are those of the transactions.
LEMMA TransactionsInit == Init => Transactions!Init
<1> SUFFICES ASSUME Init PROVE Transactions!Init
  OBVIOUS
<1>1. 1 \in 1..Statements
  BY RequestAssumption
<1>2. CommittedAlone = {}
  <2>1. \A r \in Requests : <<r, 1>> \in Work(r)
    BY <1>1 DEF Work
  <2>2. db = {}
    BY DEF Init
  <2> QED
    BY <2>1, <2>2 DEF CommittedAlone
<1>3. \A r \in Requests : Told(r) = "nothing"
  BY DEF Init, Told
<1> QED
  BY <1>2, <1>3 DEF Init, Transactions!Init

\* A step that commits and answers nothing is not seen.
LEMMA QuietStep ==
  ASSUME UNCHANGED <<db, shared, answer, method>>,
         \A r \in Requests : answer[r] # "none" => error'[r] = error[r]
  PROVE  UNCHANGED Transactions!vars
<1>1. CommittedAlone' = CommittedAlone
  BY DEF CommittedAlone, Work
<1>2. \A r \in Requests : Told(r)' = Told(r)
  BY DEF Told
<1> QED
  BY <1>1, <1>2 DEF Transactions!vars

\* A commit adds the work of the request itself, if of any on its own.
LEMMA CommitSeen ==
  ASSUME IInv, NEW s \in Requests, Commit(s) \/ CommitFails(s)
  PROVE  Transactions!Next \/ UNCHANGED Transactions!vars
<1>1. /\ pc[s] = "leaving" /\ answer[s] = "none"
      /\ UNCHANGED <<shared, answer, method>>
      /\ \A r \in Requests \ {s} : error'[r] = error[r]
      /\ db' = db \/ db' = db \cup Session(s)
  BY UnansweredInside DEF Commit, CommitFails, Advance, Fail, IInv, TypeOK
<1>2. \A r \in Requests : Told(r)' = Told(r)
  BY <1>1 DEF Told
<1>3. ASSUME NEW r \in Requests \ shared, r # s
      PROVE  (Work(r) \subseteq db') <=> (Work(r) \subseteq db)
  <2>1. Active(s) /\ trace[s] \in TraceIds
    BY <1>1 DEF Active, Inside, IInv, Flow
  <2>2. \A k \in 1..Statements : <<r, k>> \notin Session(s)
    BY <1>3, <2>1, NotMine DEF IInv
  <2> QED
    BY <1>1, <2>2 DEF Work
<1>4. Work(s) \subseteq db => Work(s) \subseteq db'
  BY <1>1
<1>5. CASE s \notin shared /\ ~ (Work(s) \subseteq db) /\ Work(s) \subseteq db'
  <2>1. CommittedAlone' = CommittedAlone \cup {s} /\ s \notin CommittedAlone
    BY <1>1, <1>3, <1>5 DEF CommittedAlone, Work
  <2>2. Told(s) = "nothing"
    BY <1>1 DEF Told
  <2>3. Transactions!Commit(s)
    BY <1>1, <1>2, <1>5, <2>1, <2>2 DEF Transactions!Commit, Transactions!Waiting
  <2> QED
    BY <2>3 DEF Transactions!Next
<1>6. CASE s \in shared \/ Work(s) \subseteq db \/ ~ (Work(s) \subseteq db')
  <2>1. CommittedAlone' = CommittedAlone
    BY <1>1, <1>3, <1>4, <1>6 DEF CommittedAlone, Work
  <2> QED
    BY <1>1, <1>2, <2>1 DEF Transactions!vars
<1> QED
  BY <1>5, <1>6

\* An answer tells what has become of the request's work.
LEMMA AnswerSeen ==
  ASSUME IInv, NEW s \in Requests, Answer(s)
  PROVE  Transactions!Next \/ UNCHANGED Transactions!vars
<1>1. /\ pc[s] = "answering" /\ answer[s] = "none"
      /\ UNCHANGED <<shared, db, method, error>>
      /\ answer' = [answer EXCEPT ![s] = Status(error[s])]
  BY UnansweredInside DEF Answer, Advance
<1>2. CommittedAlone' = CommittedAlone
  BY <1>1 DEF CommittedAlone, Work
<1>3. \A r \in Requests \ {s} : Told(r)' = Told(r)
  BY <1>1 DEF Told, IInv, TypeOK
<1>4. Told(s) = "nothing"
  BY <1>1 DEF Told
<1>5. CASE s \in shared \/ method[s] = "GET"
  <2>1. Told(s)' = "nothing"
    BY <1>1, <1>5 DEF Told
  <2>2. \A r \in Requests : Told(r)' = Told(r)
    BY <1>3, <1>4, <2>1
  <2> QED
    BY <1>1, <1>2, <2>2 DEF Transactions!vars
<1>6. CASE s \notin shared /\ method[s] # "GET"
  <2>1. method[s] = "POST" /\ Fate(s)
    BY <1>6 DEF IInv, TypeOK, Alone
  <2>2. answer'[s] = Status(error[s]) /\ Status(error[s]) # "none"
    BY <1>1 DEF IInv, TypeOK, Status, ErrorHandler
  <2>3. Status(error[s]) = "success" <=> error[s] = "none"
    BY DEF Status, ErrorHandler
  <2>4. Told(s)' = IF error[s] = "none" THEN "success"
                   ELSE IF error[s] = "lost" THEN "doubt" ELSE "failure"
    BY <1>1, <1>6, <2>2, <2>3 DEF Told
  <2>5. error[s] = "none" => s \in CommittedAlone
    BY <1>1, <1>6, <2>1 DEF Fate, Everything, CommittedAlone, Work
  <2>6. error[s] \notin {"none", "lost"} => s \notin CommittedAlone
    <3>1. 1 \in 1..Statements
      BY RequestAssumption
    <3>2. error[s] # "cancelled"
      BY <1>1 DEF IInv, Flow
    <3> QED
      BY <3>1, <3>2, <2>1 DEF Fate, Nothing, CommittedAlone, Work
  <2>7. Told(s)' \in {"success", "failure", "doubt"}
    BY <2>4
  <2>8. [r \in Requests |-> Told(r)'] = [[r \in Requests |-> Told(r)] EXCEPT ![s] = Told(s)']
    BY <1>3
  <2>9. Transactions!Tell(s, Told(s)')
    BY <1>1, <1>2, <1>4, <1>6, <2>4, <2>5, <2>6, <2>8
    DEF Transactions!Tell, Transactions!Waiting
  <2> QED
    BY <2>7, <2>9 DEF Transactions!Next
<1> QED
  BY <1>5, <1>6

\* A request that is received may overlap others, none of which has an answer.
LEMMA OverlapSeen ==
  ASSUME IInv, NEW s \in Requests, NEW t \in TraceIds, Receive(s, t)
  PROVE  Transactions!Next \/ UNCHANGED Transactions!vars
<1> DEFINE others == {r \in Requests : Active(r) /\ trace[r] = t}
<1>1. /\ pc[s] = "idle"
      /\ UNCHANGED <<db, answer, error>>
      /\ \A r \in Requests \ {s} : method'[r] = method[r]
      /\ shared' = IF others = {} THEN shared ELSE shared \cup others \cup {s}
  BY DEF Receive, Advance, IInv, TypeOK
<1>2. \A r \in others \cup {s} : answer[r] = "none"
  BY <1>1, UnansweredInside DEF Active, Inside
<1>3. PICK S \in SUBSET Requests : /\ \A r \in S : answer[r] = "none"
                                   /\ shared' = shared \cup S
  <2>1. CASE others = {}
    BY <1>1, <2>1
  <2>2. CASE others # {}
    <3>1. others \cup {s} \in SUBSET Requests
      OBVIOUS
    <3>2. shared' = shared \cup (others \cup {s})
      BY <1>1, <2>2
    <3> HIDE DEF others
    <3> QED
      BY <1>2, <3>1, <3>2
  <2> QED
    BY <2>1, <2>2
<1> HIDE DEF others
<1>4. CommittedAlone' = CommittedAlone \ S
  BY <1>1, <1>3 DEF CommittedAlone, Work
<1>5. \A r \in S : Told(r) = "nothing"
  BY <1>3 DEF Told
<1>6. \A r \in Requests : Told(r)' = Told(r)
  <2> SUFFICES ASSUME NEW r \in Requests PROVE Told(r)' = Told(r)
    OBVIOUS
  <2>1. CASE answer[r] = "none"
    BY <1>1, <2>1 DEF Told
  <2>2. CASE answer[r] # "none"
    BY <1>1, <1>2, <1>3, <2>2 DEF Told
  <2> QED
    BY <2>1, <2>2
<1>7. Transactions!Overlap(S)
  BY <1>3, <1>4, <1>5, <1>6 DEF Transactions!Overlap
<1> QED
  BY <1>7 DEF Transactions!Next

\* The dependency around the handlers implements transactions: whatever is raised,
\* lost or interleaved, a request that writes and shares its trace id with nobody
\* commits once, as a whole and before its answer, which says so.
THEOREM ScopesImplementTransactions == Spec => ImplementsTransactions
<1>1. IInv /\ [Next]_vars => [Transactions!Next]_(Transactions!vars)
  <2> SUFFICES ASSUME IInv, [Next]_vars
               PROVE  Transactions!Next \/ UNCHANGED Transactions!vars
    OBVIOUS
  <2>1. CASE UNCHANGED vars \/ Crash
    BY <2>1, QuietStep DEF vars, Crash
  <2>2. ASSUME NEW s \in Requests, NEW t \in TraceIds, Receive(s, t)
        PROVE  Transactions!Next \/ UNCHANGED Transactions!vars
    BY <2>2, OverlapSeen
  <2>3. ASSUME NEW s \in Requests, Step(s)
        PROVE  Transactions!Next \/ UNCHANGED Transactions!vars
    <3>1. CASE Commit(s) \/ CommitFails(s)
      BY <3>1, CommitSeen
    <3>2. CASE Answer(s)
      BY <3>2, AnswerSeen
    <3>3. CASE \/ TurnAway(s) \/ Invalid(s) \/ Admit(s) \/ Flush(s) \/ Return(s) \/ Raise(s)
               \/ Except(s) \/ Close(s) \/ CloseFails(s) \/ Forget(s)
      <4>1. /\ UNCHANGED <<db, shared, answer, method>>
            /\ answer[s] = "none"
            /\ \A r \in Requests \ {s} : error'[r] = error[r]
        BY <3>3, UnansweredInside
        DEF TurnAway, Invalid, Admit, Flush, Return, Raise, Except, Close, CloseFails, Forget, Advance,
            Fail, IInv, TypeOK
      <4> QED
        BY <4>1, QuietStep
    <3> QED
      BY <2>3, <3>1, <3>2, <3>3 DEF Step
  <2> QED
    BY <2>1, <2>2, <2>3 DEF Next
<1> QED
  BY <1>1, TransactionsInit, InvariantHolds, PTL
  DEF Spec, ImplementsTransactions, Transactions!Spec

-----------------------------------------------------------------------------
(* Trace ids of the server *)

\* A request that has a trace id of the server is met by nobody, whatever ids the
\* clients of the others send.
LEMMA OwnIdsAreAlone == Spec => [](\A r \in Requests : trace[r] = r => r \notin shared)
<1> DEFINE Own == \A r \in Requests :
             (pc[r] = "idle" => trace[r] = NoTrace) /\ (trace[r] \in {r, NoTrace} => r \notin shared)
           OthersDiffer == \A r, s \in Requests : r # s => trace[s] # r
<1>1. Init => Own /\ OthersDiffer
  BY RequestAssumption DEF Init
<1>2. TypeOK /\ Own /\ OthersDiffer /\ [Next]_vars => Own' /\ OthersDiffer'
  <2> SUFFICES ASSUME TypeOK, Own, OthersDiffer, [Next]_vars PROVE Own' /\ OthersDiffer'
    OBVIOUS
  <2>1. CASE UNCHANGED vars \/ Crash
    BY <2>1 DEF vars, Crash
  <2>2. ASSUME NEW s \in Requests, Step(s) PROVE Own' /\ OthersDiffer'
    <3>1. UNCHANGED <<trace, shared>> /\ pc[s] # "idle"
          /\ \A r \in Requests : pc'[r] = "idle" => pc[r] = "idle"
      BY <2>2 DEF Step, TurnAway, Invalid, Admit, Flush, Return, Raise, Commit, CommitFails,
                  Except, Close, CloseFails, Forget, Answer, Advance, TypeOK
    <3> QED
      BY <3>1
  <2>3. ASSUME NEW s \in Requests, NEW t \in TraceIds, Receive(s, t)
        PROVE  Own' /\ OthersDiffer'
    <3>1. /\ pc[s] = "idle" /\ pc' = [pc EXCEPT ![s] = "admitting"]
          /\ t \in HeaderIds \cup {s} /\ trace' = [trace EXCEPT ![s] = t]
      BY <2>3 DEF Receive, Advance
    <3>2. trace' \in [Requests -> TraceIds \cup {NoTrace}] /\ trace'[s] = t
          /\ \A r \in Requests \ {s} : trace'[r] = trace[r]
      BY <3>1 DEF TypeOK
    <3>3. OthersDiffer'
      BY <3>1, <3>2, RequestAssumption
    <3> DEFINE others == {r \in Requests : Active(r) /\ trace[r] = t}
    <3>4. shared' = IF others = {} THEN shared ELSE shared \cup others \cup {s}
      BY <2>3 DEF Receive
    <3>5. s \notin others
      BY <3>1 DEF Active, Inside
    <3>6. t = s => others = {}
      BY <3>5
    <3>7. \A r \in others : r # s /\ trace[r] \notin {r, NoTrace}
      BY <3>1, <3>5, RequestAssumption DEF TraceIds
    <3> HIDE DEF others
    <3>8. ASSUME NEW r \in Requests
          PROVE  /\ pc'[r] = "idle" => trace'[r] = NoTrace
                 /\ trace'[r] \in {r, NoTrace} => r \notin shared'
      <4>1. CASE r = s
        BY <3>1, <3>2, <3>4, <3>6, <4>1, RequestAssumption DEF TypeOK, TraceIds
      <4>2. CASE r # s
        BY <3>1, <3>2, <3>4, <3>7, <4>2 DEF TypeOK
      <4> QED
        BY <4>1, <4>2
    <3> QED
      BY <3>3, <3>8
  <2> QED
    BY <2>1, <2>2, <2>3 DEF Next
<1>3. Own => \A r \in Requests : trace[r] = r => r \notin shared
  OBVIOUS
<1> HIDE DEF Own, OthersDiffer
<1> QED
  BY <1>1, <1>2, <1>3, TypeCorrect, PTL DEF Spec

\* A client that sends no X-Request-ID is safe from those that do: its handler is
\* atomic and its answer true, whatever ids the others choose, overlap with or leave
\* sessions behind in.
THEOREM OwnIdsAreSafe ==
  Spec => [](\A r \in Requests : trace[r] = r =>
               /\ Work(r) \cap db \in {{}, Work(r)}
               /\ answer[r] = "success" /\ method[r] = "POST" => Work(r) \subseteq db
               /\ answer[r] \notin {"none", "success"} /\ error[r] # "lost" =>
                    Work(r) \cap db = {})
<1>1. /\ \A r \in Requests : trace[r] = r => r \notin shared
      /\ AllOrNothing /\ AnswerIsTrue
      => \A r \in Requests : trace[r] = r =>
           /\ Work(r) \cap db \in {{}, Work(r)}
           /\ answer[r] = "success" /\ method[r] = "POST" => Work(r) \subseteq db
           /\ answer[r] \notin {"none", "success"} /\ error[r] # "lost" =>
                Work(r) \cap db = {}
  BY DEF AllOrNothing, AnswerIsTrue
<1> QED
  BY <1>1, OwnIdsAreAlone, HandlersAreAtomic, AnswersAreTrue, PTL
=============================================================================
