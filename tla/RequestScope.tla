---------------------------- MODULE RequestScope ----------------------------
(***************************************************************************)
(* What surrounds every handler: a trace id, the identity of the caller, a *)
(* database session kept per trace id and ended by init_ctx_db_session,    *)
(* and the turning of whatever was raised into an answer.                  *)
(*                                                                         *)
(* The trace id is the client's X-Request-ID if it sends one, so that two  *)
(* requests, a retry and the request it repeats for instance, may have the *)
(* same.  All requests are coroutines of one process and interleave at     *)
(* each await.  What a handler does is a number of statements, each        *)
(* sent to the session it looks up by its trace id.                        *)
(***************************************************************************)
EXTENDS Naturals

CONSTANTS
  Requests,      \* the requests of a behaviour, each received once
  HeaderIds,     \* the ids clients send as X-Request-ID
  Statements,    \* statements of a handler that writes, bound for one that reads
  NoTrace

ASSUME RequestAssumption ==
  /\ Statements \in Nat \ {0}
  /\ HeaderIds \cap Requests = {}
  /\ NoTrace \notin HeaderIds \cup Requests

VARIABLES
  pc,            \* where each request is
  trace,         \* its TRACE_ID; its own name stands for a fresh uuid4
  method,        \* GET or another
  written,       \* the statements its handler has sent
  error,         \* what its handler, or its commit, raised
  registry,      \* trace ids async_scoped_session keeps a session for
  flushed,       \* the open transaction of the session of each trace id
  db,            \* committed statements
  answer,        \* the status the client gets
  shared         \* history: requests that overlapped another of their trace id

vars == <<pc, trace, method, written, error, registry, flushed, db, answer, shared>>

TraceIds == HeaderIds \cup Requests
Work(r) == {r} \X (1..Statements)
AllWork == Requests \X (1..Statements)
Session(r) == flushed[trace[r]]

\* Between init_ctx_db_session's try and the end of its finally.
Inside == {"admitting", "handling", "leaving", "closing", "forgetting"}
Phases == {"idle", "answering", "answered", "dead"} \cup Inside
Active(r) == pc[r] \in Inside

-----------------------------------------------------------------------------
(* Errors and their answers *)

\* "invalid" is a body or parameter that does not validate: the dependencies
\* have been entered by then and are left without an exception.  "lost" is a
\* commit whose acknowledgement is lost, "unclosed" the end of a request whose
\* session could not be closed, "cancelled" a CancelledError.
Unraised == {"none", "invalid"}
Raised == {"expected", "server", "base", "validation", "response", "other",
           "lost", "unclosed", "cancelled"}

\* An ExpectedError, or any error of a GET, is left to close(), and a CancelledError
\* is no Exception.
RollsBack(r) == error[r] \in Raised \ {"expected", "cancelled"} /\ method[r] # "GET"

\* Variant: exceptions reach the client as they are.
StatusOfAny(e) == IF e = "none" THEN "success" ELSE e

\* setup_fastapi_error_handlers: a ServerError has a status of its own, the errors
\* of validation are redefined.
Handled == {"expected", "server", "invalid", "validation", "response"}
ErrorHandler(e) ==
  IF e \in {"expected", "server"} THEN "declared"
  ELSE IF e = "response" THEN "s500" ELSE "s400"

\* ErrorsHandlerMiddleware wraps what is left, a BaseError included, in a ServerError.
Status(e) ==
  IF e = "none" THEN "success" ELSE IF e \in Handled THEN ErrorHandler(e) ELSE "s520"

-----------------------------------------------------------------------------

Advance(r, from, to) == pc[r] = from /\ pc' = [pc EXCEPT ![r] = to]

Init ==
  /\ pc = [r \in Requests |-> "idle"]
  /\ trace = [r \in Requests |-> NoTrace]
  /\ method = [r \in Requests |-> "GET"]
  /\ written = [r \in Requests |-> 0]
  /\ error = [r \in Requests |-> "none"]
  /\ registry = {}
  /\ flushed = [t \in TraceIds |-> {}]
  /\ db = {}
  /\ answer = [r \in Requests |-> "none"]
  /\ shared = {}

\* TraceIdMiddleware, and the dependencies of the router are entered.
Receive(r, t) ==
  /\ Advance(r, "idle", "admitting")
  /\ t \in HeaderIds \cup {r}
  /\ trace' = [trace EXCEPT ![r] = t]
  /\ \E m \in {"GET", "POST"} : method' = [method EXCEPT ![r] = m]
  /\ LET others == {s \in Requests : Active(s) /\ trace[s] = t}
     IN shared' = IF others = {} THEN shared ELSE shared \cup others \cup {r}
  /\ UNCHANGED <<written, error, registry, flushed, db, answer>>

Fail(r, e) == error' = [error EXCEPT ![r] = e]

\* get_current_user and check_customer_access: Ory does not answer, or the
\* route is for verified users and the caller is not one; or the request is
\* cancelled meanwhile.
TurnAway(r) ==
  /\ Advance(r, "admitting", "leaving")
  /\ \E e \in {"server", "expected", "cancelled"} : Fail(r, e)
  /\ UNCHANGED <<trace, method, written, registry, flushed, db, answer, shared>>

\* The dependencies are solved and the body does not validate.
Invalid(r) ==
  /\ Advance(r, "admitting", "leaving")
  /\ Fail(r, "invalid")
  /\ UNCHANGED <<trace, method, written, registry, flushed, db, answer, shared>>

Admit(r) ==
  /\ Advance(r, "admitting", "handling")
  /\ UNCHANGED <<trace, method, written, error, registry, flushed, db, answer, shared>>

\* ISqlAlchemyRepository.session: the session of the trace id, made if there is
\* none, also by a handler that only reads.  Its transaction begins by itself.
Flush(r) ==
  /\ pc[r] = "handling" /\ written[r] < Statements
  /\ written' = [written EXCEPT ![r] = @ + 1]
  /\ registry' = registry \cup {trace[r]}
  /\ flushed' = [flushed EXCEPT ![trace[r]] = @ \cup {<<r, written[r] + 1>>}]
  /\ UNCHANGED <<pc, trace, method, error, db, answer, shared>>

\* Variant: the response goes out before the dependencies are left.
ReturnAnswering(r) ==
  /\ Advance(r, "handling", "leaving")
  /\ method[r] # "GET" => written[r] = Statements
  /\ answer' = [answer EXCEPT ![r] = Status(error[r])]
  /\ UNCHANGED <<trace, method, written, error, registry, flushed, db, shared>>

Return(r) ==
  /\ Advance(r, "handling", "leaving")
  /\ method[r] # "GET" => written[r] = Statements
  /\ UNCHANGED <<trace, method, written, error, registry, flushed, db, answer, shared>>

\* Anything the handler raises, or its response model, after any statement; two
\* coroutines in one session at the same time raise as well.  At an await it can be
\* cancelled.
Raise(r) ==
  /\ Advance(r, "handling", "leaving")
  /\ \E e \in Raised \ {"lost", "unclosed"} : Fail(r, e)
  /\ UNCHANGED <<trace, method, written, registry, flushed, db, answer, shared>>

\* Variant: the commit comes whatever the handler has raised.
CommitAnyway(r) ==
  /\ Advance(r, "leaving", "closing")
  /\ IF method[r] = "GET"
     THEN UNCHANGED <<registry, flushed, db>>
     ELSE /\ registry' = registry \cup {trace[r]}
          /\ db' = db \cup Session(r)
          /\ flushed' = [flushed EXCEPT ![trace[r]] = {}]
  /\ UNCHANGED <<trace, method, written, error, answer, shared>>

\* After the yield: commit, unless it is a GET.
Commit(r) ==
  /\ Advance(r, "leaving", "closing")
  /\ error[r] \in Unraised
  /\ IF method[r] = "GET"
     THEN UNCHANGED <<registry, flushed, db>>
     ELSE /\ registry' = registry \cup {trace[r]}
          /\ db' = db \cup Session(r)
          /\ flushed' = [flushed EXCEPT ![trace[r]] = {}]
  /\ UNCHANGED <<trace, method, written, error, answer, shared>>

\* Variant: the response has been sent when the dependency ends.
CommitFailsUnseen(r) ==
  /\ Advance(r, "leaving", "closing")
  /\ error[r] \in Unraised /\ method[r] # "GET"
  /\ registry' = registry \cup {trace[r]}
  /\ flushed' = [flushed EXCEPT ![trace[r]] = {}]
  /\ UNCHANGED <<trace, method, written, error, db, answer, shared>>

\* commit() raises: the database has refused, or has committed and the
\* acknowledgement is lost; or it is cancelled before or after that.
CommitFails(r) ==
  /\ pc[r] = "leaving" /\ error[r] \in Unraised /\ method[r] # "GET"
  /\ registry' = registry \cup {trace[r]}
  /\ \/ /\ \E e \in {"other", "cancelled"} : Fail(r, e)
        /\ UNCHANGED db
     \/ /\ \E e \in {"lost", "cancelled"} : Fail(r, e)
        /\ db' = db \cup Session(r)
  /\ flushed' = [flushed EXCEPT ![trace[r]] = {}]
  /\ UNCHANGED <<pc, trace, method, written, answer, shared>>

\* The except clause.  A rollback that raises, or is cancelled, has lost its
\* connection, and the database drops the transaction with it; after a commit that
\* has lost it there is nothing left to send.
Except(r) ==
  /\ Advance(r, "leaving", "closing")
  /\ error[r] \in Raised
  /\ IF RollsBack(r)
     THEN /\ registry' = registry \cup {trace[r]}
          /\ flushed' = [flushed EXCEPT ![trace[r]] = {}]
          /\ \/ UNCHANGED error
             \/ error[r] # "lost" /\ \E e \in {"other", "cancelled"} : Fail(r, e)
     ELSE UNCHANGED <<registry, flushed, error>>
  /\ UNCHANGED <<trace, method, written, db, answer, shared>>

\* close() has an open transaction to roll back, and raises or is cancelled: its
\* connection is lost or invalidated, which ends the transaction, and remove() does
\* not come to clearing the registry.
CloseFails(r) ==
  /\ pc[r] = "closing" /\ Session(r) # {}
  /\ \E to \in {"answering", "dead"} :
       /\ error[r] = "cancelled" => to = "dead"
       /\ pc' = [pc EXCEPT ![r] = to]
  /\ Fail(r, "unclosed")
  /\ flushed' = [flushed EXCEPT ![trace[r]] = {}]
  /\ UNCHANGED <<trace, method, written, registry, db, answer, shared>>

\* async_scoped_session.remove(): close() is awaited ...
Close(r) ==
  /\ Advance(r, "closing", "forgetting")
  /\ flushed' = [flushed EXCEPT ![trace[r]] = {}]
  /\ UNCHANGED <<trace, method, written, error, registry, db, answer, shared>>

\* Variant: the session is closed and stays in the registry.
ForgetNothing(r) ==
  /\ Advance(r, "forgetting", IF error[r] = "cancelled" THEN "dead" ELSE "answering")
  /\ UNCHANGED <<trace, method, written, error, registry, flushed, db, answer, shared>>

\* ... and then the registry is cleared.  What another coroutine has flushed to
\* the session meanwhile is never committed.  Nobody waits for the answer of a
\* request that was cancelled.
Forget(r) ==
  /\ Advance(r, "forgetting", IF error[r] = "cancelled" THEN "dead" ELSE "answering")
  /\ registry' = registry \ {trace[r]}
  /\ flushed' = [flushed EXCEPT ![trace[r]] = {}]
  /\ UNCHANGED <<trace, method, written, error, db, answer, shared>>

\* FastAPILoggingRoute reads the body again, swallows its own errors and passes
\* the outcome on; the handlers and the middleware make the response.
Answer(r) ==
  /\ Advance(r, "answering", "answered")
  /\ answer' = [answer EXCEPT ![r] = Status(error[r])]
  /\ UNCHANGED <<trace, method, written, error, registry, flushed, db, shared>>

\* The process, the only one, dies.
Crash ==
  /\ \E r \in Requests : Active(r)
  /\ pc' = [r \in Requests |-> IF pc[r] \in {"idle", "answered"} THEN pc[r] ELSE "dead"]
  /\ registry' = {}
  /\ flushed' = [t \in TraceIds |-> {}]
  /\ UNCHANGED <<trace, method, written, error, db, answer, shared>>

Step(r) ==
  \/ TurnAway(r) \/ Invalid(r) \/ Admit(r)
  \/ Flush(r) \/ Return(r) \/ Raise(r)
  \/ Commit(r) \/ CommitFails(r) \/ Except(r)
  \/ Close(r) \/ CloseFails(r) \/ Forget(r) \/ Answer(r)

Next ==
  \/ \E r \in Requests : Step(r) \/ \E t \in TraceIds : Receive(r, t)
  \/ Crash

Spec == Init /\ [][Next]_vars

-----------------------------------------------------------------------------
(* Correctness *)

\* Every variable holds what its context variable, registry or table can hold.
TypeOK ==
  /\ pc \in [Requests -> Phases]
  /\ trace \in [Requests -> TraceIds \cup {NoTrace}]
  /\ method \in [Requests -> {"GET", "POST"}]
  /\ written \in [Requests -> 0..Statements]
  /\ error \in [Requests -> Unraised \cup Raised]
  /\ registry \subseteq TraceIds
  /\ flushed \in [TraceIds -> SUBSET AllWork]
  /\ db \subseteq AllWork
  /\ answer \in [Requests -> {"none", "success", "declared", "s400", "s500", "s520"}]
  /\ shared \subseteq Requests

\* A request that shared its trace id with nobody while it ran commits all its
\* work or nothing of it, wherever it fails.
AllOrNothing ==
  \A r \in Requests \ shared : Work(r) \cap db \in {{}, Work(r)}

\* ... and is told the truth: success means that all of it is committed, and an
\* error that nothing is, unless the commit's acknowledgement was lost.
AnswerIsTrue ==
  \A r \in Requests \ shared :
    /\ answer[r] = "success" /\ method[r] = "POST" => Work(r) \subseteq db
    /\ answer[r] \notin {"none", "success"} /\ error[r] # "lost" => Work(r) \cap db = {}

\* A session is kept for as long as a request of its trace id is inside the
\* dependency, whoever overlaps and whatever is raised, and after that only if a
\* close() has failed; what is left over so has no open transaction, so that no later
\* request of that trace id commits what an earlier one has flushed.
NoSessionLeft ==
  /\ \A t \in registry :
       \E r \in Requests : trace[r] = t /\ (Active(r) \/ error[r] = "unclosed")
  /\ \A t \in TraceIds : flushed[t] # {} =>
       t \in registry /\ \E r \in Requests : trace[r] = t /\ Active(r)

\* What a request on its own that writes has been told of its work.
Told(r) ==
  IF r \in shared \/ method[r] = "GET" \/ answer[r] = "none" THEN "nothing"
  ELSE IF answer[r] = "success" THEN "success"
  ELSE IF error[r] = "lost" THEN "doubt" ELSE "failure"

CommittedAlone == {r \in Requests \ shared : Work(r) \subseteq db}

\* However requests interleave, fail and share trace ids, those that share it with
\* nobody go through the steps of HandlerTransactions: one commit at most, of all
\* statements at once, before the answer and never after it.
Transactions == INSTANCE HandlerTransactions
  WITH overlapped <- shared, committed <- CommittedAlone,
       told <- [r \in Requests |-> Told(r)]
ImplementsTransactions == Transactions!Spec
=============================================================================
