----------------------------- MODULE ToolCalls -----------------------------
(***************************************************************************)
(* Governed tool calls and the artifacts they leave: ToolInvoker           *)
(* (src/data_agent/tools/invoker.py), the dataset providers, the DuckDB    *)
(* and PostgreSQL connectors, and SQLiteArtifactStore                      *)
(* (src/data_agent/analysis_agent/artifacts.py).                           *)
(*                                                                         *)
(* An invocation has one deadline, for the credential, the provider and    *)
(* its retries (no tool of the product has more than one attempt).  Its    *)
(* store operations run in threads: the deadline, or the cancellation of   *)
(* the run, stops the coroutine and frees the store's asyncio lock, but    *)
(* the thread goes on.  A write is a SQLite transaction around the         *)
(* replacement of a file, and the process may stop between the two.        *)
(*                                                                         *)
(* The id of an artifact is the digest of its call and payload, so a file  *)
(* is a pair of the two, and call[i].read is the payload in the id that    *)
(* the invocation looks up: of the prepared query, then of its own result. *)
(* Tenants, users and runs are part of the call id.                        *)
(* The credential lease of an invocation is issued and checked without     *)
(* suspending; what the connector refuses is a failing query.              *)
(***************************************************************************)
EXTENDS FiniteSets

CONSTANTS Invocations,  \* calls of ToolInvoker.invoke
          CallIds,      \* stable call ids: a repeated action has the same
          CallOf,       \* CallOf[i]: the call id of invocation i
          PreparedOf,   \* PreparedOf[i]: the call whose artifact i reads
          NoCall,       \* PreparedOf[i] for a compilation, which reads none
          Payloads,     \* what a query may return
          Compiled      \* what a compilation returns: it is deterministic

ASSUME CallAssumption ==
  /\ CallOf \in [Invocations -> CallIds]
  /\ PreparedOf \in [Invocations -> CallIds \cup {NoCall}]
  /\ NoCall \notin CallIds
  /\ Compiled \in Payloads

VARIABLES rows,           \* agent_artifacts, by call id
          payload_files,  \* files under the payload root
          store_lock,     \* who holds SQLiteArtifactStore._lock
          transaction,    \* who holds SQLite's write lock
          thread,         \* the store's writing threads
          call            \* invocations

artifact_vars == <<rows, payload_files>>
tool_vars == <<artifact_vars, store_lock, transaction, thread, call>>

NoRow == [payload |-> "none"]
Nobody == "nobody"
Sweep == "sweep"            \* a caller of delete_expired
Writers == Invocations \cup {Sweep}

ASSUME CallerAssumption == {Nobody, Sweep} \cap Invocations = {}

Awaiting == {"load", "query", "put", "preview"}
CallOver == {"succeeded", "failed", "interrupted", "lapsed"}
ThreadStates == {"none", "begin", "begun", "replaced", "returned", "raised"}

(* Faulty: a call that is stored is returned whatever it has stored. *)
SameCall(k, payload) == TRUE

(* _put_sync: the metadata of the row are those of the request. *)
SameMetadata(k, payload) == rows[k].payload = payload

Stored(k) == rows[k] # NoRow
Expired == {k \in CallIds : Stored(k) /\ rows[k].expired}
HasFile(k, payload) == <<k, payload>> \in payload_files

CallMoves(i, at) == call' = [call EXCEPT ![i].at = at]
Thread(w, at) == thread' = [thread EXCEPT ![w].at = at]
(* A thread ends; its answer is kept for a coroutine that still waits: an id *)
(* of an artifact, or an error.                                              *)
Waited(i) == call[i].at = "put"
Returns(i, payload) ==
  /\ Thread(i, IF Waited(i) THEN "returned" ELSE "none")
  /\ call' = IF Waited(i) THEN [call EXCEPT ![i].read = payload] ELSE call
Raised(i) ==
  /\ Thread(i, IF Waited(i) THEN "raised" ELSE "none")
  /\ UNCHANGED call
Results(i) == IF PreparedOf[i] = NoCall THEN {Compiled} ELSE Payloads

-----------------------------------------------------------------------------
(* Invocations. *)

(* The tools of one run are called one after the other. *)
Ready(i) == \A j \in Invocations : CallOf[j] = CallOf[i] /\ j # i =>
              call[j].at \in {"new"} \cup CallOver

(* An unknown tool or version, an invalid input, a tool that is not allowed, *)
(* a missing idempotency key, a spent budget, an invalid lease or authority. *)
Refused(i) ==
  /\ call[i].at = "new" /\ Ready(i)
  /\ CallMoves(i, "failed")
  /\ UNCHANGED <<artifact_vars, store_lock, transaction, thread>>

Invoked(i) ==
  /\ call[i].at = "new" /\ Ready(i)
  /\ CallMoves(i, IF PreparedOf[i] = NoCall THEN "query" ELSE "load")
  /\ UNCHANGED <<artifact_vars, store_lock, transaction, thread>>

(* What _get_sync reads: the prepared query, or what was just stored. *)
Sought(i) == IF call[i].at = "load" THEN PreparedOf[i] ELSE CallOf[i]
Found(i) == Stored(Sought(i)) /\ rows[Sought(i)].payload = call[i].read

(* _get_sync reads the row, then the file: not in one transaction. *)
GetRow(i) ==
  /\ call[i].at \in {"load", "preview"} /\ store_lock = Nobody
  /\ IF Found(i) THEN store_lock' = i /\ UNCHANGED call
     ELSE CallMoves(i, "failed") /\ UNCHANGED store_lock
  /\ UNCHANGED <<artifact_vars, transaction, thread>>

(* A row that was swept since has outlived its retention. *)
GetFile(i) ==
  /\ call[i].at \in {"load", "preview"} /\ store_lock = i
  /\ store_lock' = Nobody
  /\ CallMoves(i, IF ~ HasFile(Sought(i), call[i].read) THEN "failed"
              ELSE IF call[i].at = "load" THEN "query"
              ELSE IF Found(i) THEN "succeeded" ELSE "lapsed")
  /\ UNCHANGED <<artifact_vars, transaction, thread>>

(* The connector answers within the deadline. *)
Queried(i) ==
  /\ call[i].at = "query"
  /\ \E payload \in Results(i) :
       call' = [call EXCEPT ![i].at = "put", ![i].payload = payload]
  /\ UNCHANGED <<artifact_vars, store_lock, transaction, thread>>

(* The query is refused, fails, returns too many rows or is too slow. *)
QueryFails(i) ==
  /\ call[i].at = "query"
  /\ CallMoves(i, "failed")
  /\ UNCHANGED <<artifact_vars, store_lock, transaction, thread>>

PutStarts(i) ==
  /\ call[i].at = "put" /\ store_lock = Nobody
  /\ store_lock' = i
  /\ thread' = [thread EXCEPT ![i] = [@ EXCEPT !.at = "begin"]]
  /\ UNCHANGED <<artifact_vars, transaction, call>>

PutEnds(i) ==
  /\ call[i].at = "put" /\ store_lock = i
  /\ thread[i].at \in {"returned", "raised"}
  /\ store_lock' = Nobody
  /\ Thread(i, "none")
  /\ CallMoves(i, IF thread[i].at = "returned" THEN "preview" ELSE "failed")
  /\ UNCHANGED <<artifact_vars, transaction>>

(* The deadline passes (timed_out), or the run is cancelled, at any await.   *)
(* A thread of the invocation goes on without it.                            *)
Interrupted(i) ==
  /\ call[i].at \in Awaiting
  /\ CallMoves(i, "interrupted")
  /\ store_lock' = IF store_lock = i THEN Nobody ELSE store_lock
  /\ UNCHANGED <<artifact_vars, transaction, thread>>

-----------------------------------------------------------------------------
(* The thread of put_json. *)

(* BEGIN IMMEDIATE, then a call that is already stored is returned if its    *)
(* metadata and its file are those of the request.                           *)
PutBegins(i) ==
  LET k == CallOf[i] IN
  /\ thread[i].at = "begin" /\ transaction = Nobody
  /\ IF Stored(k)
     THEN /\ IF SameMetadata(k, call[i].payload) /\ HasFile(k, rows[k].payload)
             THEN Returns(i, rows[k].payload)
             ELSE Raised(i)
          /\ UNCHANGED transaction
     ELSE transaction' = i /\ Thread(i, "begun") /\ UNCHANGED call
  /\ UNCHANGED <<artifact_vars, store_lock>>

(* SQLite gives up waiting for the write lock after five seconds. *)
Busy(w) ==
  /\ thread[w].at = "begin" /\ transaction # Nobody
  /\ IF w = Sweep THEN Thread(w, "raised") /\ UNCHANGED call ELSE Raised(w)
  /\ UNCHANGED <<artifact_vars, store_lock, transaction>>

FileReplaced(i) ==
  /\ thread[i].at = "begun"
  /\ payload_files' = payload_files \cup {<<CallOf[i], call[i].payload>>}
  /\ Thread(i, "replaced")
  /\ UNCHANGED <<rows, store_lock, transaction, call>>

PutCommits(i) ==
  /\ thread[i].at = "replaced"
  /\ rows' = [rows EXCEPT ![CallOf[i]] =
                [payload |-> call[i].payload, expired |-> FALSE]]
  /\ transaction' = Nobody
  /\ Returns(i, call[i].payload)
  /\ UNCHANGED <<payload_files, store_lock>>

(* The handler removes the file that was put in place; a commit that fails   *)
(* is outside the handler and leaves it.                                     *)
PutFails(i) ==
  /\ thread[i].at \in {"begun", "replaced"}
  /\ \/ payload_files' = payload_files \ {<<CallOf[i], call[i].payload>>}
        /\ thread[i].at = "replaced"
     \/ UNCHANGED payload_files
  /\ transaction' = Nobody
  /\ Raised(i)
  /\ UNCHANGED <<rows, store_lock>>

-----------------------------------------------------------------------------
(* Retention. *)

(* The clock passes expires_at: a day after the row was stored, when the     *)
(* call that stored it, bound by its deadline, and its thread have ended.    *)
Expires(k) ==
  /\ Stored(k) /\ ~ rows[k].expired
  /\ \A i \in Invocations : CallOf[i] = k =>
       call[i].at \notin Awaiting /\ thread[i].at = "none"
  /\ rows' = [rows EXCEPT ![k].expired = TRUE]
  /\ UNCHANGED <<payload_files, store_lock, transaction, thread, call>>

SweepStarts ==
  /\ store_lock = Nobody /\ thread[Sweep].at = "none"
  /\ store_lock' = Sweep
  /\ Thread(Sweep, "begin")
  /\ UNCHANGED <<artifact_vars, transaction, call>>

SweepBegins ==
  /\ thread[Sweep].at = "begin" /\ transaction = Nobody
  /\ transaction' = Sweep
  /\ thread' = [thread EXCEPT ![Sweep] = [at |-> "begun", doomed |-> Expired, deleted |-> {}]]
  /\ UNCHANGED <<artifact_vars, store_lock, call>>

(* The file goes at once, the row with the commit. *)
SweepDeletes(k) ==
  /\ thread[Sweep].at = "begun" /\ k \in thread[Sweep].doomed
  /\ payload_files' = payload_files \ {<<k, rows[k].payload>>}
  /\ thread' = [thread EXCEPT ![Sweep].doomed = @ \ {k}, ![Sweep].deleted = @ \cup {k}]
  /\ UNCHANGED <<rows, store_lock, transaction, call>>

(* A result whose row is deleted has outlived its retention. *)
SweepCommits ==
  /\ thread[Sweep].at = "begun" /\ thread[Sweep].doomed = {}
  /\ rows' = [k \in CallIds |-> IF k \in thread[Sweep].deleted THEN NoRow ELSE rows[k]]
  /\ call' = [i \in Invocations |->
               IF call[i].at = "succeeded" /\ CallOf[i] \in thread[Sweep].deleted
               THEN [call[i] EXCEPT !.at = "lapsed"] ELSE call[i]]
  /\ transaction' = Nobody
  /\ Thread(Sweep, "returned")
  /\ UNCHANGED <<payload_files, store_lock>>

SweepFails ==
  /\ thread[Sweep].at = "begun"
  /\ transaction' = Nobody
  /\ Thread(Sweep, "raised")
  /\ UNCHANGED <<artifact_vars, store_lock, call>>

(* The caller has its answer. *)
SweepEnds ==
  /\ thread[Sweep].at \in {"returned", "raised"}
  /\ store_lock' = IF store_lock = Sweep THEN Nobody ELSE store_lock
  /\ thread' = [thread EXCEPT ![Sweep] = [at |-> "none", doomed |-> {}, deleted |-> {}]]
  /\ UNCHANGED <<artifact_vars, transaction, call>>

(* The caller is cancelled: the lock is free, the thread goes on. *)
SweepInterrupted ==
  /\ store_lock = Sweep
  /\ store_lock' = Nobody
  /\ UNCHANGED <<artifact_vars, transaction, thread, call>>

NoThreads ==
  [w \in Writers |-> IF w = Sweep THEN [at |-> "none", doomed |-> {}, deleted |-> {}]
                     ELSE [at |-> "none"]]

(* The process stops and starts again: the transaction is rolled back. *)
ToolRestart ==
  /\ store_lock' = Nobody /\ transaction' = Nobody /\ thread' = NoThreads
  /\ call' = [i \in Invocations |->
               IF call[i].at \in Awaiting THEN [call[i] EXCEPT !.at = "interrupted"]
               ELSE call[i]]
  /\ UNCHANGED artifact_vars

-----------------------------------------------------------------------------
ToolInit ==
  /\ rows = [k \in CallIds |-> NoRow]
  /\ payload_files = {}
  /\ store_lock = Nobody /\ transaction = Nobody
  /\ thread = NoThreads
  /\ call = [i \in Invocations |->
              [at |-> "new", payload |-> Compiled, read |-> Compiled]]

ToolNext ==
  \/ \E i \in Invocations :
       \/ Refused(i) \/ Invoked(i) \/ GetRow(i) \/ GetFile(i)
       \/ Queried(i) \/ QueryFails(i) \/ PutStarts(i) \/ PutEnds(i)
       \/ Interrupted(i)
       \/ PutBegins(i) \/ FileReplaced(i) \/ PutCommits(i) \/ PutFails(i)
  \/ \E w \in Writers : Busy(w)
  \/ \E k \in CallIds : Expires(k) \/ SweepDeletes(k)
  \/ SweepStarts \/ SweepBegins \/ SweepCommits \/ SweepFails
  \/ SweepEnds \/ SweepInterrupted
  \/ ToolRestart

ToolSpec == ToolInit /\ [][ToolNext]_tool_vars

-----------------------------------------------------------------------------
(* The values of the store, its locks, its threads and the invocations. *)
ToolTypeOK ==
  /\ rows \in [CallIds -> [payload : Payloads, expired : BOOLEAN] \cup {NoRow}]
  /\ payload_files \subseteq CallIds \X Payloads
  /\ store_lock \in Writers \cup {Nobody}
  /\ transaction \in Writers \cup {Nobody}
  /\ DOMAIN thread = Writers
  /\ \A i \in Invocations : thread[i] \in [at : ThreadStates]
  /\ thread[Sweep] \in [at : ThreadStates, doomed : SUBSET CallIds, deleted : SUBSET CallIds]
  /\ call \in [Invocations -> [at : {"new"} \cup Awaiting \cup CallOver,
                               payload : Payloads, read : Payloads]]

(* What a tool call has reported is what its run can read: the artifact of a *)
(* successful call is the payload this call returned, although an earlier    *)
(* attempt of the same call may have gone on writing after its deadline; and *)
(* while an artifact is retained its row has its file, although the process  *)
(* may stop, a write may fail and a sweep may be interrupted anywhere.       *)
ResultsAreReadable ==
  /\ \A i \in Invocations : call[i].at = "succeeded" =>
       Stored(CallOf[i]) /\ rows[CallOf[i]].payload = call[i].payload
  /\ \A k \in CallIds : Stored(k) /\ ~ rows[k].expired => HasFile(k, rows[k].payload)
=============================================================================
