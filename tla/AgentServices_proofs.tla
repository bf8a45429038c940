------------------------ MODULE AgentServices_proofs ------------------------
(***************************************************************************)
(* Theorems about the services around a run: ToolCalls, AuthSessions,      *)
(* AnalysisLoop, RunView and DataSources.                                  *)
(***************************************************************************)
EXTENDS ToolCalls, AuthSessions, RunView, AnalysisLoop, DataSources, WellFoundedInduction,
        TLAPS

(***************************************************************************)
(* Tool calls, for any invocations, calls and payloads.                    *)
(*                                                                         *)
(* A thread that writes is alone in its transaction, whatever became of    *)
(* the invocation that started it, and it writes only what no row has yet: *)
(* this is what lets an attempt that passed its deadline go on without     *)
(* harm.  The invariant says so for each thread, and that a sweep, from    *)
(* the moment it begins until it commits, removes only what was expired.   *)
(***************************************************************************)
CallRecords == [at : {"new"} \cup Awaiting \cup CallOver,
                payload : Payloads, read : Payloads]

RowRecords == [payload : Payloads, expired : BOOLEAN]

(* A thread in its transaction: no row has its call; once it has put its     *)
(* file in place, the file is there.  The id that put_json answers is the    *)
(* one of the payload it was given.                                          *)
ThreadFits(i) ==
  /\ thread[i].at \in {"begun", "replaced"} =>
       transaction = i /\ ~ Stored(CallOf[i])
  /\ thread[i].at = "replaced" => HasFile(CallOf[i], call[i].payload)
  /\ thread[i].at # "none" => call[i].at \in {"put"} \cup CallOver
  /\ thread[i].at = "returned" \/ call[i].at = "preview" =>
       call[i].read = call[i].payload

SweepFits ==
  thread[Sweep].at = "begun" =>
    /\ transaction = Sweep
    /\ thread[Sweep].doomed \cup thread[Sweep].deleted \subseteq Expired

ToolInv ==
  /\ ToolTypeOK
  /\ \A i \in Invocations : ThreadFits(i)
  /\ SweepFits
  /\ ResultsAreReadable

-----------------------------------------------------------------------------
(* Shapes of the records. *)

(* A stored row is a record of its type; a row of any such record is stored. *)
LEMMA RowShape ==
  /\ ToolTypeOK => \A k \in CallIds : Stored(k) => rows[k] \in RowRecords
  /\ \A row \in RowRecords : row # NoRow
<1>1. \A row \in RowRecords : row # NoRow
  BY DEF RowRecords, NoRow
<1> QED BY <1>1 DEF ToolTypeOK, Stored, RowRecords

(* No invocation is Nobody or the sweep, and every invocation has a call. *)
LEMMA Callers ==
  ASSUME NEW i \in Invocations
  PROVE  i # Sweep /\ i # Nobody /\ i \in Writers /\ CallOf[i] \in CallIds
BY CallerAssumption, CallAssumption DEF Writers

(* A step of an invocation that leaves the store and the threads alone. *)
LEMMA InvocationMoves ==
  ASSUME ToolInv, NEW i \in Invocations, NEW new \in CallRecords,
         call' = [call EXCEPT ![i] = new],
         new.payload = call[i].payload \/ thread[i].at = "none",
         new.read = call[i].read, new.at = "preview" => new = call[i],
         thread[i].at # "none" => new.at \in {"put"} \cup CallOver,
         new.at = "succeeded" =>
           Stored(CallOf[i]) /\ rows[CallOf[i]].payload = new.payload,
         store_lock' \in Writers \cup {Nobody},
         UNCHANGED <<rows, payload_files, transaction, thread>>
  PROVE  ToolInv'
<1>1. /\ call' \in [Invocations -> CallRecords] /\ call'[i] = new
      /\ \A j \in Invocations \ {i} : call'[j] = call[j]
  BY DEF ToolInv, ToolTypeOK, CallRecords
<1>2. ToolTypeOK'
  BY <1>1 DEF ToolInv, ToolTypeOK, CallRecords
<1>3. ASSUME NEW j \in Invocations PROVE ThreadFits(j)'
  BY <1>1, Callers DEF ToolInv, ThreadFits, Stored, HasFile
<1>4. SweepFits'
  BY DEF ToolInv, SweepFits, Expired, Stored
<1>5. ResultsAreReadable'
  BY <1>1 DEF ToolInv, ResultsAreReadable, Stored, HasFile
<1> QED BY <1>2, <1>3, <1>4, <1>5 DEF ToolInv

(* A step of an invocation that changes where it is. *)
LEMMA CallMovesKeeps ==
  ASSUME ToolInv, NEW i \in Invocations, NEW at \in {"new"} \cup Awaiting \cup CallOver,
         CallMoves(i, at), at # "preview",
         thread[i].at # "none" => at \in {"put"} \cup CallOver,
         at = "succeeded" =>
           Stored(CallOf[i]) /\ rows[CallOf[i]].payload = call[i].payload,
         store_lock' \in Writers \cup {Nobody},
         UNCHANGED <<rows, payload_files, transaction, thread>>
  PROVE  ToolInv'
<1> DEFINE new == [call[i] EXCEPT !.at = at]
<1>1. call[i] \in CallRecords
  BY DEF ToolInv, ToolTypeOK, CallRecords
<1>2. new \in CallRecords /\ new.at = at /\ new.payload = call[i].payload
      /\ new.read = call[i].read
  BY <1>1 DEF CallRecords
<1>3. call' = [call EXCEPT ![i] = new]
  BY DEF CallMoves
<1> HIDE DEF new
<1> QED BY <1>2, <1>3, InvocationMoves

(* A thread moves: the others stay, and a sweep keeps what it has to do. *)
LEMMA ThreadMoves ==
  ASSUME ToolTypeOK, NEW w \in Writers, NEW at \in ThreadStates, Thread(w, at)
  PROVE  /\ DOMAIN thread' = Writers
         /\ \A v \in Writers \ {w} : thread'[v] = thread[v]
         /\ thread'[w].at = at
         /\ \A i \in Invocations : thread'[i] \in [at : ThreadStates]
         /\ thread'[Sweep] \in [at : ThreadStates, doomed : SUBSET CallIds,
                                deleted : SUBSET CallIds]
         /\ thread'[Sweep].doomed = thread[Sweep].doomed
         /\ thread'[Sweep].deleted = thread[Sweep].deleted
<1> DEFINE new == [thread[w] EXCEPT !.at = at]
<1>1. thread' = [thread EXCEPT ![w] = new]
  BY DEF Thread
<1>2. Sweep \in Writers /\ \A i \in Invocations : i \in Writers /\ i # Sweep
  BY Callers DEF Writers
<1>3. CASE w = Sweep
  <2>1. new \in [at : ThreadStates, doomed : SUBSET CallIds, deleted : SUBSET CallIds]
    BY <1>3 DEF ToolTypeOK
  <2>2. new.at = at /\ new.doomed = thread[w].doomed /\ new.deleted = thread[w].deleted
    BY <1>3 DEF ToolTypeOK
  <2> HIDE DEF new
  <2> QED BY <1>1, <1>2, <1>3, <2>1, <2>2 DEF ToolTypeOK
<1>4. CASE w \in Invocations
  <2>1. new \in [at : ThreadStates] /\ new.at = at
    BY <1>4 DEF ToolTypeOK
  <2> HIDE DEF new
  <2> QED BY <1>1, <1>2, <1>4, <2>1 DEF ToolTypeOK
<1> QED BY <1>3, <1>4 DEF Writers

(* A thread moves and writes nothing. *)
LEMMA ThreadMovesKeeps ==
  ASSUME ToolInv, NEW w \in Writers, NEW at \in ThreadStates, Thread(w, at),
         at \in {"begun", "replaced", "returned"} => at = thread[w].at,
         w \in Invocations /\ at # "none" => call[w].at \in {"put"} \cup CallOver,
         store_lock' \in Writers \cup {Nobody},
         \/ UNCHANGED transaction
         \/ transaction' = Nobody /\ \A v \in Writers \ {w} : transaction # v,
         at \in {"begun", "replaced"} => UNCHANGED transaction,
         UNCHANGED <<rows, payload_files, call>>
  PROVE  ToolInv'
<1>1. /\ DOMAIN thread' = Writers
      /\ \A v \in Writers \ {w} : thread'[v] = thread[v]
      /\ thread'[w].at = at
      /\ \A i \in Invocations : thread'[i] \in [at : ThreadStates]
      /\ thread'[Sweep] \in [at : ThreadStates, doomed : SUBSET CallIds,
                             deleted : SUBSET CallIds]
      /\ thread'[Sweep].doomed = thread[Sweep].doomed
      /\ thread'[Sweep].deleted = thread[Sweep].deleted
  BY ThreadMoves DEF ToolInv
<1>2. ToolTypeOK'
  BY <1>1 DEF ToolInv, ToolTypeOK
<1>3. ASSUME NEW i \in Invocations PROVE ThreadFits(i)'
  BY <1>1, Callers DEF ToolInv, ThreadFits, Stored, HasFile
<1>4. SweepFits'
  BY <1>1 DEF ToolInv, SweepFits, Expired, Stored, Writers
<1>5. ResultsAreReadable'
  BY DEF ToolInv, ResultsAreReadable, Stored, HasFile
<1> QED BY <1>2, <1>3, <1>4, <1>5 DEF ToolInv
-----------------------------------------------------------------------------
(* Invocations. *)

(* Steps that only change where an invocation is, and the store's lock. *)
LEMMA WaitingKeeps ==
  ASSUME ToolInv, NEW i \in Invocations,
         Refused(i) \/ Invoked(i) \/ GetRow(i) \/ GetFile(i) \/ QueryFails(i) \/ Interrupted(i)
  PROVE  ToolInv'
<1>1. /\ store_lock \in Writers \cup {Nobody} /\ ThreadFits(i)
      /\ i \in Writers /\ Nobody \notin Invocations /\ i # Sweep
  BY Callers, CallerAssumption DEF ToolInv, ToolTypeOK
<1>2. CASE Refused(i)
  BY <1>1, <1>2, CallMovesKeeps DEF Refused, CallOver, Awaiting, artifact_vars
<1>3. CASE Invoked(i)
  <2>1. thread[i].at = "none"
    BY <1>1, <1>3 DEF Invoked, ThreadFits, CallOver
  <2> QED BY <1>1, <1>3, <2>1, CallMovesKeeps DEF Invoked, CallOver, Awaiting, artifact_vars
<1>4. CASE GetRow(i)
  <2>1. CASE Found(i)
    <3>1. /\ call' = [call EXCEPT ![i] = call[i]]
          /\ call[i] \in CallRecords /\ call[i].at # "succeeded"
      BY <1>4, <2>1 DEF GetRow, ToolInv, ToolTypeOK, CallRecords
    <3> QED BY <1>1, <1>4, <2>1, <3>1, InvocationMoves DEF GetRow, ThreadFits, artifact_vars
  <2>2. CASE ~ Found(i)
    BY <1>1, <1>4, <2>2, CallMovesKeeps DEF GetRow, CallOver, Awaiting, artifact_vars
  <2> QED BY <2>1, <2>2
<1>5. CASE GetFile(i)
  <2>1. thread[i].at = "none"
    BY <1>1, <1>5 DEF GetFile, ThreadFits, CallOver
  <2>2. CASE call[i].at = "load"
    BY <1>1, <1>5, <2>1, <2>2, CallMovesKeeps
       DEF GetFile, CallOver, Awaiting, artifact_vars
  <2>3. CASE call[i].at = "preview"
    BY <1>1, <1>5, <2>1, <2>3, CallMovesKeeps
       DEF GetFile, CallOver, Awaiting, artifact_vars, Found, Sought, ThreadFits
  <2> QED BY <1>5, <2>2, <2>3 DEF GetFile
<1>6. CASE QueryFails(i)
  BY <1>1, <1>6, CallMovesKeeps DEF QueryFails, CallOver, Awaiting, artifact_vars
<1>7. CASE Interrupted(i)
  BY <1>1, <1>7, CallMovesKeeps DEF Interrupted, CallOver, Awaiting, artifact_vars
<1> QED BY <1>2, <1>3, <1>4, <1>5, <1>6, <1>7

(* A query answers: its payload is the one that will be put. *)
LEMMA QueriedKeeps ==
  ASSUME ToolInv, NEW i \in Invocations, Queried(i)
  PROVE  ToolInv'
<1>1. PICK payload \in Results(i) :
        call' = [call EXCEPT ![i].at = "put", ![i].payload = payload]
  BY DEF Queried
<1> DEFINE new == [call[i] EXCEPT !.at = "put", !.payload = payload]
<1>2. payload \in Payloads /\ call[i] \in CallRecords
  BY <1>1, CallAssumption DEF Results, ToolInv, ToolTypeOK, CallRecords
<1>3. new \in CallRecords /\ new.at = "put" /\ new.read = call[i].read
  BY <1>2 DEF CallRecords, Awaiting
<1>4. thread[i].at = "none" /\ store_lock \in Writers \cup {Nobody}
  BY DEF Queried, ToolInv, ThreadFits, CallOver, ToolTypeOK
<1>5. call' = [call EXCEPT ![i] = new]
  BY <1>1
<1> HIDE DEF new
<1> QED BY <1>3, <1>4, <1>5, InvocationMoves DEF Queried, artifact_vars

(* put_json starts its thread. *)
LEMMA PutStartsKeeps ==
  ASSUME ToolInv, NEW i \in Invocations, PutStarts(i)
  PROVE  ToolInv'
<1>1. Thread(i, "begin")
  BY DEF PutStarts, Thread
<1> QED BY <1>1, Callers, ThreadMovesKeeps DEF PutStarts, ThreadStates, artifact_vars

(* put_json returns or raises to an invocation that still waits. *)
LEMMA PutEndsKeeps ==
  ASSUME ToolInv, NEW i \in Invocations, PutEnds(i)
  PROVE  ToolInv'
<1> DEFINE at == IF thread[i].at = "returned" THEN "preview" ELSE "failed"
           new == [call[i] EXCEPT !.at = at]
<1>1. /\ DOMAIN thread' = Writers
      /\ \A v \in Writers \ {i} : thread'[v] = thread[v]
      /\ thread'[i].at = "none"
      /\ \A j \in Invocations : thread'[j] \in [at : ThreadStates]
      /\ thread'[Sweep] \in [at : ThreadStates, doomed : SUBSET CallIds,
                             deleted : SUBSET CallIds]
  BY Callers, ThreadMoves DEF ToolInv, PutEnds, ThreadStates
<1>2. call[i] \in CallRecords
  BY DEF ToolInv, ToolTypeOK, CallRecords
<1>3. /\ new \in CallRecords /\ new.at \in {"preview", "failed"}
      /\ new.at = "preview" => new.read = new.payload
      /\ call' = [call EXCEPT ![i] = new]
  BY <1>2 DEF PutEnds, CallMoves, CallRecords, CallOver, Awaiting, ToolInv, ThreadFits
<1> HIDE DEF new
<1>4. /\ call' \in [Invocations -> CallRecords] /\ call'[i] = new
      /\ \A j \in Invocations \ {i} : call'[j] = call[j]
  BY <1>3 DEF ToolInv, ToolTypeOK, CallRecords
<1>5. ToolTypeOK'
  BY <1>1, <1>4 DEF PutEnds, ToolInv, ToolTypeOK, CallRecords, artifact_vars
<1>6. ASSUME NEW j \in Invocations PROVE ThreadFits(j)'
  BY <1>1, <1>3, <1>4, Callers DEF PutEnds, ToolInv, ThreadFits, Stored, HasFile, artifact_vars
<1>7. SweepFits'
  BY <1>1, Callers DEF PutEnds, ToolInv, SweepFits, Expired, Stored, artifact_vars, Writers
<1>8. ResultsAreReadable'
  BY <1>3, <1>4 DEF PutEnds, ToolInv, ResultsAreReadable, Stored, HasFile, artifact_vars
<1> QED BY <1>5, <1>6, <1>7, <1>8 DEF ToolInv
-----------------------------------------------------------------------------
(* The thread of put_json. *)

(* A call that waits hears nothing it does not know when its put is refused. *)
LEMMA RaisedKeeps ==
  ASSUME ToolInv, NEW i \in Invocations, Raised(i),
         UNCHANGED <<rows, payload_files, store_lock>>,
         UNCHANGED transaction \/ (transaction = i /\ transaction' = Nobody)
  PROVE  ToolInv'
<1> DEFINE at == IF Waited(i) THEN "raised" ELSE "none"
<1>1. /\ at \in ThreadStates /\ at \notin {"begun", "replaced", "returned"}
      /\ at # "none" => call[i].at = "put"
  BY DEF ThreadStates, Waited
<1>2. Thread(i, at) /\ UNCHANGED call
  BY DEF Raised
<1>3. store_lock' \in Writers \cup {Nobody} /\ i \in Writers
  BY Callers DEF ToolInv, ToolTypeOK
<1> HIDE DEF at
<1> QED BY <1>1, <1>2, <1>3, Callers, ThreadMovesKeeps

(* What the end of a put that succeeds leaves of the calls and the threads. *)
LEMMA ReturnsShape ==
  ASSUME ToolInv, NEW i \in Invocations, Returns(i, call[i].payload)
  PROVE  /\ call' \in [Invocations -> CallRecords]
         /\ \A j \in Invocations :
              call'[j].at = call[j].at /\ call'[j].payload = call[j].payload
         /\ \A j \in Invocations \ {i} : call'[j] = call[j]
         /\ call[i].at # "put" => call'[i] = call[i]
         /\ thread'[i].at = "returned" =>
              call[i].at = "put" /\ call'[i].read = call[i].payload
         /\ DOMAIN thread' = Writers
         /\ \A v \in Writers \ {i} : thread'[v] = thread[v]
         /\ thread'[i].at \in {"returned", "none"}
         /\ \A j \in Invocations : thread'[j] \in [at : ThreadStates]
         /\ thread'[Sweep] \in [at : ThreadStates, doomed : SUBSET CallIds,
                                deleted : SUBSET CallIds]
<1> DEFINE at == IF Waited(i) THEN "returned" ELSE "none"
           new == [call[i] EXCEPT !.read = call[i].payload]
<1>1. Thread(i, at) /\ at \in ThreadStates /\ i \in Writers /\ i # Sweep
  BY Callers DEF Returns, ThreadStates
<1>2. call[i] \in CallRecords /\ call \in [Invocations -> CallRecords]
  BY DEF ToolInv, ToolTypeOK, CallRecords
<1>3. /\ new \in CallRecords /\ new.at = call[i].at
      /\ new.payload = call[i].payload /\ new.read = call[i].payload
  BY <1>2 DEF CallRecords
<1>4. IF Waited(i) THEN call' = [call EXCEPT ![i] = new] ELSE call' = call
  BY DEF Returns
<1> HIDE DEF new
<1>5. /\ call' \in [Invocations -> CallRecords]
      /\ \A j \in Invocations :
           call'[j].at = call[j].at /\ call'[j].payload = call[j].payload
      /\ \A j \in Invocations \ {i} : call'[j] = call[j]
      /\ Waited(i) => call'[i].read = call[i].payload
      /\ call[i].at # "put" => call'[i] = call[i]
  BY <1>2, <1>3, <1>4 DEF Waited
<1>6. at = "returned" => Waited(i) /\ call[i].at = "put"
  BY DEF Waited
<1>7. at \in {"returned", "none"}
  OBVIOUS
<1>8. ToolTypeOK
  BY DEF ToolInv
<1> HIDE DEF at
<1> QED BY <1>1, <1>5, <1>6, <1>7, <1>8, ThreadMoves

(* The transaction begins: a call that is stored is returned or refused. *)
LEMMA PutBeginsKeeps ==
  ASSUME ToolInv, NEW i \in Invocations, PutBegins(i)
  PROVE  ToolInv'
<1>1. /\ CallOf[i] \in CallIds /\ i \in Writers /\ i # Sweep /\ i # Nobody
      /\ transaction = Nobody /\ thread[i].at = "begin"
      /\ UNCHANGED <<rows, payload_files, store_lock>>
      /\ ToolTypeOK /\ ThreadFits(i)
  BY Callers DEF PutBegins, artifact_vars, ToolInv
<1>2. CASE Stored(CallOf[i]) /\ SameMetadata(CallOf[i], call[i].payload)
             /\ HasFile(CallOf[i], rows[CallOf[i]].payload)
  <2>1. Returns(i, call[i].payload) /\ UNCHANGED transaction
    BY <1>2 DEF PutBegins, SameMetadata
  <2>2. ToolTypeOK'
    BY <1>1, <2>1, ReturnsShape DEF ToolTypeOK, CallRecords
  <2>3. ThreadFits(i)'
    BY <1>1, <2>1, ReturnsShape DEF ThreadFits
  <2>4. ASSUME NEW j \in Invocations \ {i} PROVE ThreadFits(j)'
    <3>1. call'[j] = call[j] /\ thread'[j] = thread[j]
      BY <2>1, Callers, ReturnsShape
    <3> QED BY <1>1, <2>1, <3>1 DEF ToolInv, ThreadFits, Stored, HasFile
  <2>5. SweepFits'
    BY <1>1, <2>1, Callers, ReturnsShape DEF ToolInv, SweepFits, Expired, Stored, Writers
  <2>6. ResultsAreReadable'
    BY <1>1, <2>1, ReturnsShape DEF ToolInv, ResultsAreReadable, Stored, HasFile
  <2> QED BY <2>2, <2>3, <2>4, <2>5, <2>6 DEF ToolInv
<1>3. CASE Stored(CallOf[i]) /\ ~ (SameMetadata(CallOf[i], call[i].payload)
             /\ HasFile(CallOf[i], rows[CallOf[i]].payload))
  BY <1>1, <1>3, RaisedKeeps DEF PutBegins
<1>4. CASE ~ Stored(CallOf[i])
  <2>1. Thread(i, "begun") /\ transaction' = i /\ UNCHANGED call
    BY <1>4 DEF PutBegins
  <2>2. /\ DOMAIN thread' = Writers
        /\ \A v \in Writers \ {i} : thread'[v] = thread[v]
        /\ thread'[i].at = "begun"
        /\ \A j \in Invocations : thread'[j] \in [at : ThreadStates]
        /\ thread'[Sweep] \in [at : ThreadStates, doomed : SUBSET CallIds,
                               deleted : SUBSET CallIds]
    BY <1>1, <2>1, ThreadMoves DEF ThreadStates
  <2>3. ToolTypeOK'
    BY <1>1, <2>1, <2>2 DEF ToolTypeOK
  <2>4. ASSUME NEW j \in Invocations PROVE ThreadFits(j)'
    BY <1>1, <1>4, <2>1, <2>2, Callers DEF ToolInv, ThreadFits, Stored, HasFile
  <2>5. SweepFits'
    BY <1>1, <2>1, <2>2, CallerAssumption DEF ToolInv, SweepFits, Writers, Sweep, Nobody
  <2>6. ResultsAreReadable'
    BY <1>1, <2>1 DEF ToolInv, ResultsAreReadable, Stored, HasFile
  <2> QED BY <2>3, <2>4, <2>5, <2>6 DEF ToolInv
<1> QED BY <1>2, <1>3, <1>4

(* SQLite gives up waiting: nothing is written. *)
LEMMA BusyKeeps ==
  ASSUME ToolInv, NEW w \in Writers, Busy(w)
  PROVE  ToolInv'
<1>1. /\ UNCHANGED rows /\ UNCHANGED payload_files
      /\ UNCHANGED store_lock /\ UNCHANGED transaction
      /\ store_lock' \in Writers \cup {Nobody}
  BY DEF Busy, artifact_vars, ToolInv, ToolTypeOK
<1>2. CASE w = Sweep
  BY <1>1, <1>2, Callers, ThreadMovesKeeps DEF Busy, ThreadStates
<1>3. ASSUME NEW i \in Invocations, i = w PROVE ToolInv'
  <2>1. Raised(i)
    BY <1>3, Callers DEF Busy
  <2> QED BY <1>1, <2>1, RaisedKeeps
<1> QED BY <1>2, <1>3 DEF Writers

(* The file is put in place, before its row. *)
LEMMA FileReplacedKeeps ==
  ASSUME ToolInv, NEW i \in Invocations, FileReplaced(i)
  PROVE  ToolInv'
<1>1. /\ CallOf[i] \in CallIds /\ i \in Writers /\ i # Sweep /\ i # Nobody
      /\ thread[i].at = "begun" /\ Thread(i, "replaced")
      /\ UNCHANGED <<rows, store_lock, transaction, call>>
      /\ payload_files' = payload_files \cup {<<CallOf[i], call[i].payload>>}
      /\ ToolTypeOK /\ ThreadFits(i)
  BY Callers DEF FileReplaced, ToolInv
<1>2. /\ DOMAIN thread' = Writers
      /\ \A v \in Writers \ {i} : thread'[v] = thread[v]
      /\ thread'[i].at = "replaced"
      /\ \A j \in Invocations : thread'[j] \in [at : ThreadStates]
      /\ thread'[Sweep] \in [at : ThreadStates, doomed : SUBSET CallIds,
                             deleted : SUBSET CallIds]
  BY <1>1, ThreadMoves DEF ThreadStates
<1>3. ToolTypeOK'
  BY <1>1, <1>2 DEF ToolTypeOK
<1>4. ASSUME NEW j \in Invocations PROVE ThreadFits(j)'
  BY <1>1, <1>2, Callers DEF ToolInv, ThreadFits, Stored, HasFile
<1>5. SweepFits'
  BY <1>1, <1>2 DEF ToolInv, SweepFits, Expired, Stored, Writers
<1>6. ResultsAreReadable'
  BY <1>1 DEF ToolInv, ResultsAreReadable, Stored, HasFile
<1> QED BY <1>3, <1>4, <1>5, <1>6 DEF ToolInv

(* The commit stores the row of the file that is there. *)
LEMMA PutCommitsKeeps ==
  ASSUME ToolInv, NEW i \in Invocations, PutCommits(i)
  PROVE  ToolInv'
<1> DEFINE new == [payload |-> call[i].payload, expired |-> FALSE]
<1>1. /\ CallOf[i] \in CallIds /\ i \in Writers /\ i # Sweep /\ i # Nobody
      /\ thread[i].at = "replaced" /\ Returns(i, call[i].payload)
      /\ UNCHANGED <<payload_files, store_lock>>
      /\ transaction' = Nobody /\ transaction = i
      /\ ToolTypeOK /\ ~ Stored(CallOf[i]) /\ HasFile(CallOf[i], call[i].payload)
  BY Callers DEF PutCommits, ToolInv, ThreadFits
<1>2. call[i].payload \in Payloads
  BY DEF ToolInv, ToolTypeOK
<1>3. /\ new \in RowRecords /\ new # NoRow
      /\ new.payload = call[i].payload /\ new.expired = FALSE
  BY <1>2, RowShape DEF RowRecords
<1>4. rows' = [rows EXCEPT ![CallOf[i]] = new]
  BY DEF PutCommits
<1> HIDE DEF new
<1>5. /\ rows'[CallOf[i]] = new
      /\ \A k \in CallIds \ {CallOf[i]} : rows'[k] = rows[k]
      /\ rows' \in [CallIds -> RowRecords \cup {NoRow}]
  BY <1>1, <1>3, <1>4 DEF ToolTypeOK, RowRecords
<1>6. ToolTypeOK'
  BY <1>1, <1>5, ReturnsShape DEF ToolTypeOK, CallRecords, RowRecords
<1>7. /\ ThreadFits(i)'
      /\ \A j \in Invocations \ {i} : ThreadFits(j)'
  <2>1. ThreadFits(i)'
    BY <1>1, ReturnsShape DEF ToolInv, ThreadFits
  <2>2. ASSUME NEW j \in Invocations \ {i} PROVE ThreadFits(j)'
    BY <1>1, Callers, ReturnsShape DEF ToolInv, ThreadFits
  <2> QED BY <2>1, <2>2
<1>8. SweepFits'
  BY <1>1, ReturnsShape DEF ToolInv, SweepFits, Writers
<1>9. ResultsAreReadable'
  <2>1. ASSUME NEW j \in Invocations, call'[j].at = "succeeded"
        PROVE  Stored(CallOf[j])' /\ rows'[CallOf[j]].payload = call'[j].payload
    BY <1>1, <1>5, <2>1, Callers, ReturnsShape DEF ToolInv, ResultsAreReadable, Stored
  <2>2. ASSUME NEW k \in CallIds, Stored(k)', ~ rows'[k].expired
        PROVE  HasFile(k, rows[k].payload)'
    BY <1>1, <1>3, <1>5, <2>2 DEF ToolInv, ResultsAreReadable, Stored, HasFile
  <2> QED BY <2>1, <2>2 DEF ResultsAreReadable
<1> QED BY <1>6, <1>7, <1>8, <1>9 DEF ToolInv

(* A put that fails may remove its file: no row has it. *)
LEMMA PutFailsKeeps ==
  ASSUME ToolInv, NEW i \in Invocations, PutFails(i)
  PROVE  ToolInv'
<1> DEFINE at == IF Waited(i) THEN "raised" ELSE "none"
<1>1. /\ CallOf[i] \in CallIds /\ i \in Writers /\ i # Sweep /\ i # Nobody
      /\ UNCHANGED <<rows, store_lock, call>>
      /\ transaction' = Nobody /\ transaction = i
      /\ payload_files' \in {payload_files, payload_files \ {<<CallOf[i], call[i].payload>>}}
      /\ ToolTypeOK /\ ~ Stored(CallOf[i])
      /\ Thread(i, at) /\ at \in ThreadStates /\ at \notin {"begun", "replaced", "returned"}
      /\ at # "none" => call[i].at = "put"
  BY Callers DEF PutFails, Raised, Waited, ToolInv, ThreadFits, ThreadStates
<1> HIDE DEF at
<1>2. /\ DOMAIN thread' = Writers
      /\ \A v \in Writers \ {i} : thread'[v] = thread[v]
      /\ thread'[i].at = at
      /\ \A j \in Invocations : thread'[j] \in [at : ThreadStates]
      /\ thread'[Sweep] \in [at : ThreadStates, doomed : SUBSET CallIds,
                             deleted : SUBSET CallIds]
  BY <1>1, ThreadMoves
<1>3. ToolTypeOK'
  BY <1>1, <1>2 DEF ToolTypeOK
<1>4. ASSUME NEW j \in Invocations PROVE ThreadFits(j)'
  BY <1>1, <1>2, Callers DEF ToolInv, ThreadFits, Stored, HasFile
<1>5. SweepFits'
  BY <1>1, <1>2 DEF ToolInv, SweepFits, Writers
<1>6. ResultsAreReadable'
  BY <1>1 DEF ToolInv, ResultsAreReadable, Stored, HasFile
<1> QED BY <1>3, <1>4, <1>5, <1>6 DEF ToolInv
-----------------------------------------------------------------------------
(* Retention. *)

(* A row expires when nobody is at work on its call. *)
LEMMA CallExpiresKeeps ==
  ASSUME ToolInv, NEW k \in CallIds, Expires(k)
  PROVE  ToolInv'
<1> DEFINE new == [rows[k] EXCEPT !.expired = TRUE]
<1>1. rows[k] \in RowRecords /\ Stored(k) /\ ToolTypeOK
  BY RowShape DEF Expires, ToolInv
<1>2. /\ new \in RowRecords /\ new # NoRow
      /\ new.payload = rows[k].payload /\ new.expired = TRUE
  BY <1>1, RowShape DEF RowRecords
<1>3. /\ rows' = [rows EXCEPT ![k] = new]
      /\ UNCHANGED <<payload_files, store_lock, transaction, thread, call>>
  BY DEF Expires
<1> HIDE DEF new
<1>4. /\ rows' \in [CallIds -> RowRecords \cup {NoRow}] /\ rows'[k] = new
      /\ \A j \in CallIds \ {k} : rows'[j] = rows[j]
  BY <1>1, <1>2, <1>3 DEF ToolTypeOK, RowRecords
<1>5. ToolTypeOK'
  BY <1>1, <1>3, <1>4 DEF ToolTypeOK, RowRecords
<1>6. ASSUME NEW i \in Invocations PROVE ThreadFits(i)'
  BY <1>1, <1>3, <1>4, Callers DEF ToolInv, ThreadFits, Stored, HasFile
<1>7. Expired \subseteq Expired'
  BY <1>1, <1>2, <1>4 DEF Expired, Stored
<1>8. SweepFits'
  BY <1>3, <1>7 DEF ToolInv, SweepFits
<1>9. ResultsAreReadable'
  <2>1. ASSUME NEW j \in Invocations, call'[j].at = "succeeded"
        PROVE  Stored(CallOf[j])' /\ rows'[CallOf[j]].payload = call'[j].payload
    BY <1>2, <1>3, <1>4, <2>1, Callers DEF ToolInv, ResultsAreReadable, Stored
  <2>2. ASSUME NEW j \in CallIds, Stored(j)', ~ rows'[j].expired
        PROVE  HasFile(j, rows[j].payload)'
    BY <1>2, <1>3, <1>4, <2>2 DEF ToolInv, ResultsAreReadable, Stored, HasFile
  <2> QED BY <2>1, <2>2 DEF ResultsAreReadable
<1> QED BY <1>5, <1>6, <1>8, <1>9 DEF ToolInv

(* A sweep waits, is refused, or answers. *)
LEMMA SweepWaitsKeeps ==
  ASSUME ToolInv, SweepStarts \/ SweepFails \/ SweepInterrupted
  PROVE  ToolInv'
<1>1. /\ ToolTypeOK /\ SweepFits /\ Sweep \in Writers /\ Sweep \notin Invocations
      /\ Nobody # Sweep
  BY CallerAssumption DEF ToolInv, Writers, Nobody, Sweep
<1>2. CASE SweepStarts
  BY <1>1, <1>2, ThreadMovesKeeps DEF SweepStarts, ThreadStates, artifact_vars
<1>3. CASE SweepFails
  <2>1. transaction = Sweep
    BY <1>1, <1>3 DEF SweepFails, SweepFits
  <2> QED BY <1>1, <1>3, <2>1, ThreadMovesKeeps
             DEF SweepFails, ThreadStates, artifact_vars, ToolTypeOK
<1>4. CASE SweepInterrupted
  <2>1. UNCHANGED <<rows, payload_files, transaction, thread, call>> /\ store_lock' = Nobody
    BY <1>4 DEF SweepInterrupted, artifact_vars
  <2> QED BY <2>1 DEF ToolInv, ToolTypeOK, ThreadFits, SweepFits, Expired, Stored, HasFile,
                      ResultsAreReadable
<1> QED BY <1>2, <1>3, <1>4

(* A sweep with what it has to do: it removes files of expired rows only. *)
LEMMA SweepWorksKeeps ==
  ASSUME ToolInv,
         NEW new \in [at : {"begun", "none"}, doomed : SUBSET CallIds, deleted : SUBSET CallIds],
         new.doomed \cup new.deleted \subseteq Expired,
         thread' = [thread EXCEPT ![Sweep] = new],
         new.at = "begun" => transaction' = Sweep,
         \/ UNCHANGED transaction
         \/ \A i \in Invocations : transaction # i,
         transaction' \in Writers \cup {Nobody}, store_lock' \in Writers \cup {Nobody},
         \/ UNCHANGED payload_files
         \/ /\ \A i \in Invocations : transaction # i
            /\ \E k \in Expired : payload_files' = payload_files \ {<<k, rows[k].payload>>},
         UNCHANGED <<rows, call>>
  PROVE  ToolInv'
<1>1. Expired \subseteq CallIds /\ Sweep \in Writers /\ ToolTypeOK
  BY DEF Expired, Writers, ToolInv
<1>2. new \in [at : ThreadStates, doomed : SUBSET CallIds, deleted : SUBSET CallIds]
  BY DEF ThreadStates
<1>4. /\ DOMAIN thread' = Writers /\ thread'[Sweep] = new
      /\ \A i \in Invocations : thread'[i] = thread[i]
  BY <1>1, Callers DEF ToolTypeOK
<1>5. ToolTypeOK'
  BY <1>1, <1>2, <1>4 DEF ToolTypeOK
<1>6. ASSUME NEW i \in Invocations PROVE ThreadFits(i)'
  <2>1. CASE thread[i].at \in {"begun", "replaced"}
    BY <1>4, <2>1, Callers DEF ToolInv, ThreadFits, Stored, HasFile
  <2>2. CASE thread[i].at \notin {"begun", "replaced"}
    BY <1>4, <2>2 DEF ToolInv, ThreadFits
  <2> QED BY <2>1, <2>2
<1>7. SweepFits'
  BY <1>2, <1>4 DEF SweepFits, Expired, Stored
<1>8. ResultsAreReadable'
  <2>1. ASSUME NEW k \in CallIds, Stored(k), ~ rows[k].expired
        PROVE  HasFile(k, rows[k].payload)'
    BY <2>1 DEF ToolInv, ResultsAreReadable, HasFile, Expired
  <2> QED BY <2>1 DEF ToolInv, ResultsAreReadable, Stored
<1> QED BY <1>5, <1>6, <1>7, <1>8 DEF ToolInv

(* A sweep begins, deletes and ends. *)
LEMMA SweepStepsKeeps ==
  ASSUME ToolInv, SweepBegins \/ SweepEnds \/ \E k \in CallIds : SweepDeletes(k)
  PROVE  ToolInv'
<1>1. /\ ToolTypeOK /\ SweepFits /\ Sweep \in Writers
      /\ \A i \in Invocations : i # Sweep /\ i # Nobody
  BY Callers DEF ToolInv, Writers
<1>2. CASE SweepBegins
  <2> DEFINE new == [at |-> "begun", doomed |-> Expired, deleted |-> {}]
  <2>1. /\ new \in [at : {"begun", "none"}, doomed : SUBSET CallIds, deleted : SUBSET CallIds]
        /\ new.doomed \cup new.deleted \subseteq Expired /\ new.at = "begun"
    BY DEF Expired
  <2>2. thread' = [thread EXCEPT ![Sweep] = new]
    BY <1>2 DEF SweepBegins
  <2> HIDE DEF new
  <2> QED BY <1>1, <1>2, <2>1, <2>2, SweepWorksKeeps DEF SweepBegins, artifact_vars, ToolTypeOK
<1>3. CASE SweepEnds
  <2> DEFINE new == [at |-> "none", doomed |-> {}, deleted |-> {}]
  <2>1. /\ new \in [at : {"begun", "none"}, doomed : SUBSET CallIds, deleted : SUBSET CallIds]
        /\ new.doomed \cup new.deleted \subseteq Expired /\ new.at = "none"
    OBVIOUS
  <2>2. thread' = [thread EXCEPT ![Sweep] = new]
    BY <1>3 DEF SweepEnds
  <2> HIDE DEF new
  <2> QED BY <1>1, <1>3, <2>1, <2>2, SweepWorksKeeps DEF SweepEnds, artifact_vars, ToolTypeOK
<1>4. ASSUME NEW k \in CallIds, SweepDeletes(k) PROVE ToolInv'
  <2> DEFINE old == thread[Sweep]
             new == [old EXCEPT !.doomed = @ \ {k}, !.deleted = @ \cup {k}]
  <2>1. old \in [at : {"begun"}, doomed : SUBSET CallIds, deleted : SUBSET CallIds]
    BY <1>1, <1>4 DEF SweepDeletes, ToolTypeOK
  <2>2. /\ new \in [at : {"begun", "none"}, doomed : SUBSET CallIds, deleted : SUBSET CallIds]
        /\ new.at = "begun" /\ new.doomed = old.doomed \ {k}
        /\ new.deleted = old.deleted \cup {k}
    BY <2>1
  <2>3. /\ k \in Expired /\ transaction = Sweep
        /\ new.doomed \cup new.deleted \subseteq Expired
    BY <1>1, <1>4, <2>2 DEF SweepDeletes, SweepFits
  <2>4. thread' = [thread EXCEPT ![Sweep] = new]
    BY <1>4 DEF SweepDeletes
  <2> HIDE DEF new
  <2> QED BY <1>1, <1>4, <2>2, <2>3, <2>4, SweepWorksKeeps DEF SweepDeletes, ToolTypeOK
<1> QED BY <1>2, <1>3, <1>4

(* The commit of a sweep: results whose rows go have lapsed. *)
LEMMA SweepCommitsKeeps ==
  ASSUME ToolInv, SweepCommits
  PROVE  ToolInv'
<1> DEFINE deleted == thread[Sweep].deleted
<1>1. /\ ToolTypeOK /\ Sweep \in Writers /\ transaction = Sweep
      /\ Thread(Sweep, "returned") /\ transaction' = Nobody
      /\ UNCHANGED <<payload_files, store_lock>>
      /\ \A i \in Invocations : i # Sweep
  BY Callers DEF SweepCommits, ToolInv, SweepFits, Writers
<1>2. /\ DOMAIN thread' = Writers
      /\ \A v \in Writers \ {Sweep} : thread'[v] = thread[v]
      /\ thread'[Sweep].at = "returned"
      /\ \A j \in Invocations : thread'[j] \in [at : ThreadStates]
      /\ thread'[Sweep] \in [at : ThreadStates, doomed : SUBSET CallIds,
                             deleted : SUBSET CallIds]
  BY <1>1, ThreadMoves DEF ThreadStates
<1>3. /\ rows' \in [CallIds -> RowRecords \cup {NoRow}]
      /\ \A k \in CallIds : rows'[k] = IF k \in deleted THEN NoRow ELSE rows[k]
  BY <1>1 DEF SweepCommits, ToolTypeOK, RowRecords
<1>4. ASSUME NEW i \in Invocations
      PROVE  /\ call'[i] \in CallRecords
             /\ call'[i].payload = call[i].payload /\ call'[i].read = call[i].read
             /\ call'[i].at = IF call[i].at = "succeeded" /\ CallOf[i] \in deleted
                              THEN "lapsed" ELSE call[i].at
  <2> DEFINE new == [call[i] EXCEPT !.at = "lapsed"]
  <2>1. call[i] \in CallRecords
    BY <1>1 DEF ToolTypeOK, CallRecords
  <2>2. /\ new \in CallRecords /\ new.at = "lapsed"
        /\ new.payload = call[i].payload /\ new.read = call[i].read
    BY <2>1 DEF CallRecords, CallOver
  <2>3. call'[i] = IF call[i].at = "succeeded" /\ CallOf[i] \in deleted
                   THEN new ELSE call[i]
    BY DEF SweepCommits
  <2> HIDE DEF new
  <2> QED BY <2>1, <2>2, <2>3
<1>5. call' \in [Invocations -> CallRecords]
  BY <1>4 DEF SweepCommits
<1> HIDE DEF deleted
<1>6. ToolTypeOK'
  BY <1>1, <1>2, <1>3, <1>5 DEF ToolTypeOK, CallRecords, RowRecords
<1>7. ASSUME NEW i \in Invocations PROVE ThreadFits(i)'
  <2>1. thread'[i] = thread[i] /\ thread[i].at \notin {"begun", "replaced"} /\ ThreadFits(i)
    BY <1>1, <1>2, Callers DEF ToolInv, ThreadFits
  <2> QED BY <1>4, <2>1 DEF ThreadFits, CallOver
<1>8. SweepFits'
  BY <1>2 DEF SweepFits
<1>9. ResultsAreReadable'
  <2>1. ASSUME NEW i \in Invocations, call'[i].at = "succeeded"
        PROVE  Stored(CallOf[i])' /\ rows'[CallOf[i]].payload = call'[i].payload
    BY <1>3, <1>4, <2>1, Callers DEF ToolInv, ResultsAreReadable, Stored
  <2>2. ASSUME NEW k \in CallIds, Stored(k)', ~ rows'[k].expired
        PROVE  HasFile(k, rows[k].payload)'
    BY <1>1, <1>3, <2>2 DEF ToolInv, ResultsAreReadable, Stored, HasFile
  <2> QED BY <2>1, <2>2 DEF ResultsAreReadable
<1> QED BY <1>6, <1>7, <1>8, <1>9 DEF ToolInv

(* A restart ends every thread; what a transaction left is only a file. *)
LEMMA ToolRestartKeeps ==
  ASSUME ToolInv, ToolRestart
  PROVE  ToolInv'
<1>1. /\ ToolTypeOK /\ UNCHANGED <<rows, payload_files>>
      /\ store_lock' = Nobody /\ transaction' = Nobody /\ thread' = NoThreads
  BY DEF ToolRestart, artifact_vars, ToolInv
<1>2. /\ DOMAIN thread' = Writers
      /\ \A i \in Invocations : thread'[i] \in [at : ThreadStates] /\ thread'[i].at = "none"
      /\ thread'[Sweep] \in [at : ThreadStates, doomed : SUBSET CallIds,
                             deleted : SUBSET CallIds]
      /\ thread'[Sweep].at = "none"
  BY <1>1, Callers DEF NoThreads, ThreadStates, Writers
<1>3. ASSUME NEW i \in Invocations
      PROVE  /\ call'[i] \in CallRecords
             /\ call'[i].payload = call[i].payload
             /\ call'[i].at = "succeeded" => call[i].at = "succeeded"
             /\ call'[i].at # "preview"
  <2> DEFINE new == [call[i] EXCEPT !.at = "interrupted"]
  <2>1. call[i] \in CallRecords
    BY <1>1 DEF ToolTypeOK, CallRecords
  <2>2. /\ new \in CallRecords /\ new.at = "interrupted" /\ new.payload = call[i].payload
    BY <2>1 DEF CallRecords, CallOver
  <2>3. call'[i] = IF call[i].at \in Awaiting THEN new ELSE call[i]
    BY DEF ToolRestart
  <2> HIDE DEF new
  <2> QED BY <2>1, <2>2, <2>3 DEF Awaiting
<1>4. call' \in [Invocations -> CallRecords]
  BY <1>3 DEF ToolRestart
<1>5. ToolTypeOK'
  BY <1>1, <1>2, <1>4 DEF ToolTypeOK, CallRecords
<1>6. (\A i \in Invocations : ThreadFits(i)') /\ SweepFits'
  BY <1>2, <1>3 DEF ThreadFits, SweepFits
<1>7. ResultsAreReadable'
  BY <1>1, <1>3 DEF ToolInv, ResultsAreReadable, Stored, HasFile
<1> QED BY <1>5, <1>6, <1>7 DEF ToolInv

-----------------------------------------------------------------------------
(* Nothing is stored and nothing runs at first. *)
LEMMA ToolInvInit == ToolInit => ToolInv
<1> SUFFICES ASSUME ToolInit PROVE ToolInv
  OBVIOUS
<1>1. /\ thread = NoThreads /\ rows = [k \in CallIds |-> NoRow]
      /\ \A i \in Invocations : call[i].at = "new"
  BY DEF ToolInit
<1>2. /\ DOMAIN thread = Writers
      /\ \A i \in Invocations : thread[i] \in [at : ThreadStates] /\ thread[i].at = "none"
      /\ thread[Sweep] \in [at : ThreadStates, doomed : SUBSET CallIds,
                            deleted : SUBSET CallIds]
      /\ thread[Sweep].at = "none"
  BY <1>1, Callers DEF NoThreads, ThreadStates, Writers
<1>3. ToolTypeOK
  BY <1>2, CallAssumption DEF ToolInit, ToolTypeOK
<1>4. (\A i \in Invocations : ThreadFits(i)) /\ SweepFits
  BY <1>1, <1>2 DEF ThreadFits, SweepFits
<1>5. ResultsAreReadable
  BY <1>1 DEF ResultsAreReadable, Stored
<1> QED BY <1>3, <1>4, <1>5 DEF ToolInv

(* Every step keeps the invariant. *)
LEMMA ToolInvStep == ToolInv /\ [ToolNext]_tool_vars => ToolInv'
<1> SUFFICES ASSUME ToolInv, [ToolNext]_tool_vars PROVE ToolInv'
  OBVIOUS
<1>1. ASSUME NEW i \in Invocations,
             \/ Refused(i) \/ Invoked(i) \/ GetRow(i) \/ GetFile(i)
             \/ Queried(i) \/ QueryFails(i) \/ PutStarts(i) \/ PutEnds(i)
             \/ Interrupted(i)
             \/ PutBegins(i) \/ FileReplaced(i) \/ PutCommits(i) \/ PutFails(i)
      PROVE  ToolInv'
  BY <1>1, WaitingKeeps, QueriedKeeps, PutStartsKeeps, PutEndsKeeps, PutBeginsKeeps,
     FileReplacedKeeps, PutCommitsKeeps, PutFailsKeeps
<1>2. ASSUME NEW w \in Writers, Busy(w) PROVE ToolInv'
  BY <1>2, BusyKeeps
<1>3. ASSUME NEW k \in CallIds, Expires(k) \/ SweepDeletes(k) PROVE ToolInv'
  BY <1>3, CallExpiresKeeps, SweepStepsKeeps
<1>4. CASE \/ SweepStarts \/ SweepBegins \/ SweepCommits \/ SweepFails
           \/ SweepEnds \/ SweepInterrupted
  BY <1>4, SweepWaitsKeeps, SweepStepsKeeps, SweepCommitsKeeps
<1>5. CASE ToolRestart
  BY <1>5, ToolRestartKeeps
<1>6. CASE UNCHANGED tool_vars
  BY <1>6 DEF tool_vars, artifact_vars, ToolInv, ToolTypeOK, ThreadFits, SweepFits, Expired,
              Stored, HasFile, ResultsAreReadable
<1> QED BY <1>1, <1>2, <1>3, <1>4, <1>5, <1>6 DEF ToolNext

(* What every thread and every sweep relies on holds in every state. *)
THEOREM ToolInvariant == ToolSpec => []ToolInv
BY ToolInvInit, ToolInvStep, PTL DEF ToolSpec

(* The store, its locks, its threads and the invocations keep their types. *)
THEOREM ToolTypesHold == ToolSpec => []ToolTypeOK
<1>1. ToolInv => ToolTypeOK
  BY DEF ToolInv
<1> QED BY <1>1, ToolInvariant, PTL

(* Whatever attempts overlap, end late or are stopped: what a call reported  *)
(* is what its run can read, and every retained artifact has its file.       *)
THEOREM ResultsStayReadable == ToolSpec => []ResultsAreReadable
<1>1. ToolInv => ResultsAreReadable
  BY DEF ToolInv
<1> QED BY <1>1, ToolInvariant, PTL

-----------------------------------------------------------------------------
(***************************************************************************)
(* Sessions, for any accounts, requests and number of tokens.              *)
(*                                                                         *)
(* That a rotation gives the family one active token again rests on the    *)
(* UPDATE that finds the old token active: the lookup that came two        *)
(* statements earlier shows nothing by then.  The invariant adds what the  *)
(* handlers rely on without checking it: a token a browser or a request    *)
(* holds was issued to that user, and a family, like the token another was *)
(* replaced by, was issued before.                                         *)
(***************************************************************************)
Bearing == {"refresh", "user", "rotate", "logout", "answer"}

SessionsAreIssued ==
  \A u \in Users : session[u] # NoToken =>
    session[u] \in Issued /\ tokens[session[u]].user = u

RequestsAreIssued ==
  \A r \in Calls : request[r].at \in Bearing =>
    request[r].token \in Issued /\ tokens[request[r].token].user = request[r].user

FamiliesAreIssued == \A t \in Issued : tokens[t].family \in Issued

AuthInv ==
  /\ AuthTypeOK
  /\ SessionsAreIssued
  /\ RequestsAreIssued
  /\ FamiliesAreIssued
  /\ TokensAreOneTime

-----------------------------------------------------------------------------
(* Shapes of the records. *)

(* An issued token has a row; a row is not the mark of an unissued token. *)
LEMMA IssuedHasRow ==
  ASSUME AuthTypeOK, NEW t \in Issued
  PROVE  t \in Tokens /\ tokens[t] \in TokenRows
BY DEF AuthTypeOK, Issued

(* A stored row is never the mark of a token that has not been issued. *)
LEMMA RowIsIssued ==
  ASSUME NEW row \in TokenRows
  PROVE  row # Unissued
<1>1. row.status \in {"active", "revoked", "expired"}
  BY DEF TokenRows
<1>2. Unissued.status = "unissued"
  BY DEF Unissued
<1> QED BY <1>1, <1>2

(* A request that is not idle is a handler in progress. *)
LEMMA BusyIsHandler ==
  ASSUME AuthTypeOK, NEW r \in Calls, request[r].at # "idle"
  PROVE  request[r] \in Handlers
BY DEF AuthTypeOK, Resting

(* No token has the number of none. *)
LEMMA TokensAreNumbers ==
  ASSUME NEW t \in Tokens
  PROVE  t \in Int /\ t # NoToken
BY TokensAssumption DEF Tokens, NoToken

(* A fresh token is one that is not issued. *)
LEMMA FreshIsUnissued ==
  ASSUME NEW t \in Fresh
  PROVE  t \in Tokens /\ t \notin Issued
BY DEF Fresh

-----------------------------------------------------------------------------
(* What steps keep of sessions and requests. *)

(* A step that leaves the tokens leaves what is said of them alone. *)
LEMMA TokensKept ==
  ASSUME FamiliesAreIssued, TokensAreOneTime, UNCHANGED tokens
  PROVE  /\ FamiliesAreIssued' /\ TokensAreOneTime'
         /\ Issued' = Issued
BY DEF FamiliesAreIssued, TokensAreOneTime, Issued, Active

(* Moving a request that keeps its user and its token, to a stage that       *)
(* needs no more than it has shown, keeps the requests issued.               *)
LEMMA MovedKeepsRequests ==
  ASSUME AuthTypeOK, RequestsAreIssued, UNCHANGED tokens, NEW r \in Calls,
         NEW h \in Handlers \cup {Resting},
         h.at \in Bearing =>
           h.token \in Issued /\ tokens[h.token].user = h.user,
         request' = [request EXCEPT ![r] = h]
  PROVE  /\ RequestsAreIssued'
         /\ request' \in [Calls -> Handlers \cup {Resting}]
<1>1. Issued' = Issued
  BY DEF Issued
<1>2. \A q \in Calls : request'[q] = IF q = r THEN h ELSE request[q]
  BY DEF AuthTypeOK
<1>3. RequestsAreIssued'
  BY <1>1, <1>2 DEF RequestsAreIssued
<1> QED BY <1>3 DEF AuthTypeOK

(* Advancing a request. *)
LEMMA ProceedsKeepsRequests ==
  ASSUME AuthTypeOK, RequestsAreIssued, UNCHANGED tokens, NEW r \in Calls,
         NEW at \in Stages, request[r].at # "idle", Proceeds(r, at),
         at \in Bearing => request[r].at \in Bearing
  PROVE  /\ RequestsAreIssued'
         /\ request' \in [Calls -> Handlers \cup {Resting}]
<1> DEFINE h == [request[r] EXCEPT !.at = at]
<1>1. request[r] \in Handlers
  BY BusyIsHandler
<1>2. h \in Handlers /\ h.at = at /\ h.token = request[r].token /\ h.user = request[r].user
  BY <1>1 DEF Handlers
<1>3. request' = [request EXCEPT ![r] = h]
  BY DEF Proceeds
<1>4. h.at \in Bearing => h.token \in Issued /\ tokens[h.token].user = h.user
  BY <1>2 DEF RequestsAreIssued
<1> HIDE DEF h
<1> QED BY <1>2, <1>3, <1>4, MovedKeepsRequests

(* Ending a request. *)
LEMMA ClosesKeepsRequests ==
  ASSUME AuthTypeOK, RequestsAreIssued, UNCHANGED tokens, NEW r \in Calls, Closes(r)
  PROVE  /\ RequestsAreIssued'
         /\ request' \in [Calls -> Handlers \cup {Resting}]
<1>1. Resting.at \notin Bearing
  BY DEF Resting, Bearing
<1>2. request' = [request EXCEPT ![r] = Resting]
  BY DEF Closes
<1> QED BY <1>1, <1>2, MovedKeepsRequests

(* The sessions stay issued when neither they nor the tokens change. *)
LEMMA SessionsKept ==
  ASSUME SessionsAreIssued, UNCHANGED <<tokens, session>>
  PROVE  SessionsAreIssued'
BY DEF SessionsAreIssued, Issued

-----------------------------------------------------------------------------
(* Steps of the table of tokens. *)

(* Every row that was issued keeps its user and its family, and no row goes. *)
RowsStay ==
  /\ tokens' \in [Tokens -> TokenRows \cup {Unissued}]
  /\ \A t \in Issued : /\ tokens'[t] \in TokenRows
                       /\ tokens'[t].user = tokens[t].user
                       /\ tokens'[t].family = tokens[t].family

(* Then what was issued stays issued, to the same users. *)
LEMMA RowsStayIssued ==
  ASSUME AuthTypeOK, RowsStay
  PROVE  /\ Issued \subseteq Issued'
         /\ SessionsAreIssued /\ UNCHANGED session => SessionsAreIssued'
         /\ RequestsAreIssued /\ UNCHANGED request => RequestsAreIssued'
<1>1. Issued \subseteq Issued'
  BY RowIsIssued DEF Issued, RowsStay
<1>2. SessionsAreIssued /\ UNCHANGED session => SessionsAreIssued'
  BY <1>1 DEF SessionsAreIssued, RowsStay
<1>3. RequestsAreIssued /\ UNCHANGED request => RequestsAreIssued'
  BY <1>1 DEF RequestsAreIssued, RowsStay
<1> QED BY <1>1, <1>2, <1>3

(* A token that ends without a successor: by logout or by time.  A token     *)
(* that was replaced is already revoked and is only revoked again.           *)
LEMMA EndsKeepsTokens ==
  ASSUME AuthTypeOK, FamiliesAreIssued, TokensAreOneTime,
         NEW t \in Issued, NEW status \in {"revoked", "expired"},
         status = "expired" => Active(t),
         tokens' = [tokens EXCEPT ![t].status = status]
  PROVE  RowsStay /\ FamiliesAreIssued' /\ TokensAreOneTime'
<1> DEFINE row == [tokens[t] EXCEPT !.status = status]
<1>1. t \in Tokens /\ tokens[t] \in TokenRows
  BY IssuedHasRow
<1>2. /\ row \in TokenRows /\ row.user = tokens[t].user
      /\ row.family = tokens[t].family /\ row.status = status
      /\ row.replaced_by = tokens[t].replaced_by
  BY <1>1 DEF TokenRows
<1>3. \A s \in Tokens : tokens'[s] = IF s = t THEN row ELSE tokens[s]
  BY <1>1 DEF AuthTypeOK
<1> HIDE DEF row
<1>4. RowsStay
  <2>1. tokens' \in [Tokens -> TokenRows \cup {Unissued}]
    BY <1>2, <1>3 DEF AuthTypeOK
  <2> QED BY <1>2, <1>3, <2>1, IssuedHasRow DEF RowsStay
<1>5. Issued' = Issued
  BY <1>1, <1>2, <1>3, RowIsIssued DEF Issued
<1>6. FamiliesAreIssued'
  BY <1>2, <1>3, <1>5, IssuedHasRow DEF FamiliesAreIssued
<1>7. \A s \in Tokens : Active(s)' => Active(s) /\ s # t
  BY <1>2, <1>3, <1>5 DEF Active
<1>8. \A s, u \in Tokens : Active(s)' /\ Active(u)' /\ s # u =>
        tokens'[s].family # tokens'[u].family
  BY <1>3, <1>7 DEF TokensAreOneTime
<1>9. ASSUME NEW s \in Issued', tokens'[s].replaced_by # NoToken
      PROVE  /\ tokens'[s].status = "revoked"
             /\ tokens'[s].replaced_by \in Issued'
             /\ tokens'[tokens'[s].replaced_by].user = tokens'[s].user
             /\ \A u \in Issued' :
                  tokens'[u].replaced_by = tokens'[s].replaced_by => u = s
  <2>1. s \in Issued /\ s \in Tokens
    BY <1>5, IssuedHasRow
  <2>2. \A u \in Issued : /\ tokens'[u].replaced_by = tokens[u].replaced_by
                          /\ tokens'[u].user = tokens[u].user
    BY <1>2, <1>3, IssuedHasRow
  <2>3. /\ tokens[s].status = "revoked" /\ tokens[s].replaced_by \in Issued
        /\ tokens[tokens[s].replaced_by].user = tokens[s].user
        /\ \A u \in Issued : tokens[u].replaced_by = tokens[s].replaced_by => u = s
    BY <1>9, <2>1, <2>2 DEF TokensAreOneTime
  <2>4. tokens'[s].status = "revoked"
    BY <1>2, <1>3, <2>1, <2>3 DEF Active
  <2> QED BY <1>5, <2>1, <2>2, <2>3, <2>4
<1>10. TokensAreOneTime'
  BY <1>8, <1>9 DEF TokensAreOneTime
<1> QED BY <1>4, <1>6, <1>10

-----------------------------------------------------------------------------
(* LoginStored keeps the invariant: a new family of one token. *)
LEMMA LoginStoredKeeps ==
  ASSUME AuthInv, NEW r \in Calls, LoginStored(r)
  PROVE  AuthInv'
<1>1. PICK t \in Fresh :
        /\ tokens' = [tokens EXCEPT ![t] =
                        [user |-> request[r].user, family |-> t,
                         replaced_by |-> NoToken, status |-> "active"]]
        /\ request' = [request EXCEPT ![r].at = "answer", ![r].token = t]
  BY DEF LoginStored
<1> DEFINE row == [user |-> request[r].user, family |-> t,
                   replaced_by |-> NoToken, status |-> "active"]
           h == [request[r] EXCEPT !.at = "answer", !.token = t]
<1>2. t \in Tokens /\ t \notin Issued
  BY FreshIsUnissued
<1>3. request[r] \in Handlers
  BY BusyIsHandler DEF AuthInv, LoginStored, Stage
<1>4. /\ row \in TokenRows /\ row.user = request[r].user /\ row.family = t
      /\ row.replaced_by = NoToken /\ row.status = "active"
  BY <1>2, <1>3 DEF TokenRows, Handlers
<1>5. h \in Handlers /\ h.at = "answer" /\ h.token = t /\ h.user = request[r].user
  BY <1>2, <1>3 DEF Handlers, Stages
<1>6. \A s \in Tokens : tokens'[s] = IF s = t THEN row ELSE tokens[s]
  BY <1>1 DEF AuthInv, AuthTypeOK
<1>7. \A q \in Calls : request'[q] = IF q = r THEN h ELSE request[q]
  BY <1>1 DEF AuthInv, AuthTypeOK
<1> HIDE DEF row, h
<1>8. RowsStay
  <2>1. tokens' \in [Tokens -> TokenRows \cup {Unissued}]
    BY <1>1, <1>4 DEF row, AuthInv, AuthTypeOK
  <2> QED BY <1>2, <1>6, <2>1, IssuedHasRow DEF RowsStay, AuthInv
<1>9. Issued' = Issued \cup {t}
  BY <1>2, <1>4, <1>6, RowIsIssued DEF Issued
<1>10. AuthTypeOK'
  <2>1. request' \in [Calls -> Handlers \cup {Resting}]
    BY <1>1, <1>5 DEF h, AuthInv, AuthTypeOK
  <2> QED BY <1>8, <2>1 DEF AuthInv, AuthTypeOK, RowsStay, LoginStored
<1>11. SessionsAreIssued'
  BY <1>8, RowsStayIssued DEF AuthInv, LoginStored
<1>12. RequestsAreIssued'
  <2>1. ASSUME NEW q \in Calls, request'[q].at \in Bearing
        PROVE  request'[q].token \in Issued' /\
               tokens'[request'[q].token].user = request'[q].user
    <3>1. CASE q = r
      BY <1>2, <1>4, <1>5, <1>6, <1>7, <1>9, <3>1
    <3>2. CASE q # r
      <4>1. request'[q] = request[q] /\ request[q].at \in Bearing
        BY <1>7, <2>1, <3>2
      <4>2. request[q].token \in Issued
            /\ tokens[request[q].token].user = request[q].user
        BY <4>1 DEF AuthInv, RequestsAreIssued
      <4> QED BY <1>8, <1>9, <4>1, <4>2 DEF RowsStay
    <3> QED BY <3>1, <3>2
  <2> QED BY <2>1 DEF RequestsAreIssued
<1>13. FamiliesAreIssued'
  BY <1>2, <1>4, <1>6, <1>9, IssuedHasRow DEF FamiliesAreIssued, AuthInv
<1>14. TokensAreOneTime'
  <2>1. \A s \in Tokens : s # t => (Active(s)' <=> Active(s)) /\ tokens'[s] = tokens[s]
    BY <1>6, <1>9 DEF Active
  <2>2. \A s \in Tokens : Active(s) => tokens[s].family # t
    BY <1>2 DEF Active, FamiliesAreIssued, AuthInv
  <2>3. \A s, u \in Tokens : Active(s)' /\ Active(u)' /\ s # u =>
          tokens'[s].family # tokens'[u].family
    BY <1>4, <1>6, <2>1, <2>2 DEF TokensAreOneTime, AuthInv
  <2>4. ASSUME NEW s \in Issued', tokens'[s].replaced_by # NoToken
        PROVE  /\ tokens'[s].status = "revoked"
               /\ tokens'[s].replaced_by \in Issued'
               /\ tokens'[tokens'[s].replaced_by].user = tokens'[s].user
               /\ \A u \in Issued' :
                    tokens'[u].replaced_by = tokens'[s].replaced_by => u = s
    <3>1. s # t /\ s \in Issued /\ s \in Tokens
      BY <1>2, <1>4, <1>6, <1>9, <2>4, IssuedHasRow DEF AuthInv
    <3>2. tokens'[s] = tokens[s]
      BY <2>1, <3>1
    <3>3. /\ tokens[s].status = "revoked" /\ tokens[s].replaced_by \in Issued
          /\ tokens[tokens[s].replaced_by].user = tokens[s].user
          /\ \A u \in Issued : tokens[u].replaced_by = tokens[s].replaced_by => u = s
      BY <2>4, <3>1, <3>2 DEF TokensAreOneTime, AuthInv
    <3>4. tokens[s].replaced_by # t /\ tokens[s].replaced_by \in Tokens
      BY <1>2, <3>3 DEF Issued
    <3>5. tokens'[tokens'[s].replaced_by].user = tokens'[s].user
      BY <2>1, <3>2, <3>3, <3>4
    <3>6. \A u \in Issued' : tokens'[u].replaced_by = tokens'[s].replaced_by => u = s
      BY <1>2, <1>4, <1>6, <1>9, <2>4, <3>2, <3>3, IssuedHasRow DEF AuthInv
    <3> QED BY <1>9, <3>2, <3>3, <3>5, <3>6
  <2> QED BY <2>3, <2>4 DEF TokensAreOneTime
<1> QED BY <1>10, <1>11, <1>12, <1>13, <1>14 DEF AuthInv

(* Rotated keeps the invariant: the old token, found active, was the only    *)
(* one of its family, and the new one is its only successor.                 *)
LEMMA RotatedKeeps ==
  ASSUME AuthInv, NEW r \in Calls, Rotated(r)
  PROVE  AuthInv'
<1> DEFINE old == request[r].token
<1>1. PICK t \in Fresh :
        /\ tokens' = [tokens EXCEPT
             ![old].status = "revoked", ![old].replaced_by = t,
             ![t] = [user |-> request[r].user, family |-> tokens[old].family,
                     replaced_by |-> NoToken, status |-> "active"]]
        /\ request' = [request EXCEPT ![r].at = "answer", ![r].token = t]
  BY DEF Rotated
<1> DEFINE row == [user |-> request[r].user, family |-> tokens[old].family,
                   replaced_by |-> NoToken, status |-> "active"]
           past == [tokens[old] EXCEPT !.status = "revoked", !.replaced_by = t]
           h == [request[r] EXCEPT !.at = "answer", !.token = t]
<1>2. t \in Tokens /\ t \notin Issued /\ t # NoToken
  BY FreshIsUnissued, TokensAreNumbers
<1>3. request[r] \in Handlers /\ request[r].at = "rotate"
  BY BusyIsHandler DEF AuthInv, Rotated, Stage
<1>4. /\ old \in Issued /\ old \in Tokens /\ old # t /\ tokens[old] \in TokenRows
      /\ tokens[old].user = request[r].user /\ Active(old)
      /\ tokens[old].family \in Tokens /\ tokens[old].family \in Issued
  <2>1. old \in Issued /\ tokens[old].user = request[r].user
    BY <1>3 DEF AuthInv, RequestsAreIssued, Bearing
  <2>2. Active(old)
    BY DEF Rotated, Rotatable
  <2> QED BY <1>2, <2>1, <2>2, IssuedHasRow DEF AuthInv, FamiliesAreIssued, Issued
<1>5. /\ row \in TokenRows /\ row.user = request[r].user
      /\ row.family = tokens[old].family
      /\ row.replaced_by = NoToken /\ row.status = "active"
  BY <1>3, <1>4 DEF TokenRows, Handlers
<1>6. /\ past \in TokenRows /\ past.user = tokens[old].user
      /\ past.family = tokens[old].family
      /\ past.replaced_by = t /\ past.status = "revoked"
  BY <1>2, <1>4 DEF TokenRows
<1>7. h \in Handlers /\ h.at = "answer" /\ h.token = t /\ h.user = request[r].user
  BY <1>2, <1>3 DEF Handlers, Stages
<1>8. tokens' = [[tokens EXCEPT ![old] = past] EXCEPT ![t] = row]
  BY <1>1, <1>2, <1>4 DEF AuthInv, AuthTypeOK
<1>9. \A s \in Tokens :
        tokens'[s] = IF s = t THEN row ELSE IF s = old THEN past ELSE tokens[s]
  BY <1>2, <1>4, <1>8 DEF AuthInv, AuthTypeOK
<1>10. \A q \in Calls : request'[q] = IF q = r THEN h ELSE request[q]
  BY <1>1 DEF AuthInv, AuthTypeOK
<1>11. /\ tokens' \in [Tokens -> TokenRows \cup {Unissued}]
       /\ request' \in [Calls -> Handlers \cup {Resting}]
  <2>1. request' = [request EXCEPT ![r] = h]
    BY <1>1
  <2> HIDE DEF h, row, past
  <2> QED BY <1>5, <1>6, <1>7, <1>8, <2>1 DEF AuthInv, AuthTypeOK
<1> HIDE DEF row, past, h, old
<1>12. RowsStay
  BY <1>2, <1>4, <1>6, <1>9, <1>11, IssuedHasRow DEF RowsStay, AuthInv
<1>13. Issued' = Issued \cup {t}
  BY <1>2, <1>4, <1>5, <1>6, <1>9, RowIsIssued DEF Issued
<1>14. AuthTypeOK'
  BY <1>11 DEF AuthInv, AuthTypeOK, Rotated
<1>15. SessionsAreIssued'
  BY <1>12, RowsStayIssued DEF AuthInv, Rotated
<1>16. RequestsAreIssued'
  <2>1. ASSUME NEW q \in Calls, request'[q].at \in Bearing
        PROVE  request'[q].token \in Issued' /\
               tokens'[request'[q].token].user = request'[q].user
    <3>1. CASE q = r
      BY <1>2, <1>5, <1>7, <1>9, <1>10, <1>13, <3>1
    <3>2. CASE q # r
      <4>1. request'[q] = request[q] /\ request[q].at \in Bearing
        BY <1>10, <2>1, <3>2
      <4>2. request[q].token \in Issued
            /\ tokens[request[q].token].user = request[q].user
        BY <4>1 DEF AuthInv, RequestsAreIssued
      <4> QED BY <1>12, <1>13, <4>1, <4>2 DEF RowsStay
    <3> QED BY <3>1, <3>2
  <2> QED BY <2>1 DEF RequestsAreIssued
<1>17. FamiliesAreIssued'
  BY <1>2, <1>4, <1>5, <1>6, <1>9, <1>13, IssuedHasRow DEF FamiliesAreIssued, AuthInv
<1>18. TokensAreOneTime'
  <2>1. \A s \in Tokens : Active(s)' => s = t \/ (Active(s) /\ s # old)
    BY <1>5, <1>6, <1>9, <1>13 DEF Active
  <2>2. \A s \in Tokens : Active(s) /\ s # old => tokens[s].family # tokens[old].family
    BY <1>4 DEF TokensAreOneTime, AuthInv
  <2>3. \A s, u \in Tokens : Active(s)' /\ Active(u)' /\ s # u =>
          tokens'[s].family # tokens'[u].family
    <3> SUFFICES ASSUME NEW s \in Tokens, NEW u \in Tokens,
                        Active(s)', Active(u)', s # u
                 PROVE  tokens'[s].family # tokens'[u].family
      OBVIOUS
    <3>1. CASE s = t
      BY <1>5, <1>9, <2>1, <2>2, <3>1
    <3>2. CASE u = t
      BY <1>5, <1>9, <2>1, <2>2, <3>2
    <3>3. CASE s # t /\ u # t
      BY <1>9, <2>1, <3>3 DEF TokensAreOneTime, AuthInv
    <3> QED BY <3>1, <3>2, <3>3
  <2>4. tokens[old].replaced_by = NoToken
    BY <1>4 DEF Active, TokensAreOneTime, AuthInv
  <2>5. ASSUME NEW s \in Issued', tokens'[s].replaced_by # NoToken
        PROVE  /\ tokens'[s].status = "revoked"
               /\ tokens'[s].replaced_by \in Issued'
               /\ tokens'[tokens'[s].replaced_by].user = tokens'[s].user
               /\ \A u \in Issued' :
                    tokens'[u].replaced_by = tokens'[s].replaced_by => u = s
    <3>1. s # t /\ s \in Issued /\ s \in Tokens
      BY <1>2, <1>5, <1>9, <1>13, <2>5, IssuedHasRow DEF AuthInv
    <3>2. \A u \in Issued : u \in Tokens /\ (tokens[u].replaced_by # NoToken =>
            tokens[u].replaced_by \in Issued /\ tokens[u].replaced_by # t)
      BY <1>2, IssuedHasRow DEF TokensAreOneTime, AuthInv
    <3>3. CASE s = old
      <4>1. tokens'[s] = past /\ tokens'[t] = row
        BY <1>2, <1>4, <1>9, <3>3
      <4>2. \A u \in Issued' : tokens'[u].replaced_by = t => u = s
        BY <1>2, <1>5, <1>9, <1>13, <3>2, <3>3
      <4> QED BY <1>4, <1>5, <1>6, <1>13, <4>1, <4>2
    <3>4. CASE s # old
      <4>1. tokens'[s] = tokens[s]
        BY <1>9, <3>1, <3>4
      <4>2. /\ tokens[s].status = "revoked" /\ tokens[s].replaced_by \in Issued
            /\ tokens[tokens[s].replaced_by].user = tokens[s].user
            /\ \A u \in Issued : tokens[u].replaced_by = tokens[s].replaced_by => u = s
        BY <2>5, <3>1, <4>1 DEF TokensAreOneTime, AuthInv
      <4>3. tokens'[tokens'[s].replaced_by].user = tokens'[s].user
        BY <1>12, <4>1, <4>2 DEF RowsStay
      <4>4. \A u \in Issued' : tokens'[u].replaced_by = tokens'[s].replaced_by => u = s
        BY <1>2, <1>5, <1>6, <1>9, <1>13, <2>5, <3>2, <4>1, <4>2
      <4> QED BY <1>13, <4>1, <4>2, <4>3, <4>4
    <3> QED BY <3>3, <3>4
  <2> QED BY <2>3, <2>5 DEF TokensAreOneTime
<1> QED BY <1>14, <1>15, <1>16, <1>17, <1>18 DEF AuthInv

-----------------------------------------------------------------------------
(* A step that leaves the tokens alone keeps the invariant when it keeps the *)
(* accounts, the sessions and the requests typed and issued.                 *)
LEMMA QuietKeeps ==
  ASSUME AuthInv, UNCHANGED tokens, disabled' \in [Users -> BOOLEAN],
         session' \in [Users -> Tokens \cup {NoToken}], SessionsAreIssued',
         request' \in [Calls -> Handlers \cup {Resting}], RequestsAreIssued'
  PROVE  AuthInv'
<1>1. AuthTypeOK'
  BY DEF AuthInv, AuthTypeOK
<1>2. FamiliesAreIssued' /\ TokensAreOneTime'
  BY TokensKept DEF AuthInv
<1> QED BY <1>1, <1>2 DEF AuthInv

(* A request is sent: its token, when it bears one, is its user's session.   *)
LEMMA SentKeeps ==
  ASSUME AuthInv, NEW r \in Calls, NEW u \in Users,
         LoginSent(r, u) \/ RefreshSent(r, u) \/ LogoutSent(r, u)
  PROVE  AuthInv'
<1>1. CASE LoginSent(r, u)
  <2> DEFINE h == [at |-> "login", user |-> u, token |-> NoToken]
  <2>1. h \in Handlers /\ h.at \notin Bearing
    BY DEF Handlers, Stages, Bearing
  <2>2. request' = [request EXCEPT ![r] = h] /\ UNCHANGED <<disabled, tokens, session>>
    BY <1>1 DEF LoginSent
  <2> HIDE DEF h
  <2>3. RequestsAreIssued' /\ request' \in [Calls -> Handlers \cup {Resting}]
    BY <2>1, <2>2, MovedKeepsRequests DEF AuthInv
  <2>4. SessionsAreIssued'
    BY <2>2, SessionsKept DEF AuthInv
  <2> QED BY <2>2, <2>3, <2>4, QuietKeeps DEF AuthInv, AuthTypeOK
<1>2. CASE RefreshSent(r, u)
  <2> DEFINE h == [at |-> "refresh", user |-> u, token |-> session[u]]
  <2>1. /\ h \in Handlers
        /\ h.token \in Issued /\ tokens[h.token].user = h.user
    BY <1>2 DEF RefreshSent, Handlers, Stages, AuthInv, AuthTypeOK, SessionsAreIssued
  <2>2. request' = [request EXCEPT ![r] = h] /\ UNCHANGED <<disabled, tokens, session>>
    BY <1>2 DEF RefreshSent
  <2> HIDE DEF h
  <2>3. RequestsAreIssued' /\ request' \in [Calls -> Handlers \cup {Resting}]
    BY <2>1, <2>2, MovedKeepsRequests DEF AuthInv
  <2>4. SessionsAreIssued'
    BY <2>2, SessionsKept DEF AuthInv
  <2> QED BY <2>2, <2>3, <2>4, QuietKeeps DEF AuthInv, AuthTypeOK
<1>3. CASE LogoutSent(r, u)
  <2> DEFINE h == [at |-> "logout", user |-> u, token |-> session[u]]
  <2>1. /\ h \in Handlers
        /\ h.token \in Issued /\ tokens[h.token].user = h.user
    BY <1>3 DEF LogoutSent, Handlers, Stages, AuthInv, AuthTypeOK, SessionsAreIssued
  <2>2. request' = [request EXCEPT ![r] = h] /\ UNCHANGED <<disabled, tokens>>
    BY <1>3 DEF LogoutSent
  <2> HIDE DEF h
  <2>3. RequestsAreIssued' /\ request' \in [Calls -> Handlers \cup {Resting}]
    BY <2>1, <2>2, MovedKeepsRequests DEF AuthInv
  <2>4. /\ session' \in [Users -> Tokens \cup {NoToken}]
        /\ \A v \in Users : session'[v] = NoToken \/ session'[v] = session[v]
    BY <1>3 DEF LogoutSent, AuthInv, AuthTypeOK
  <2>5. SessionsAreIssued'
    BY <2>2, <2>4 DEF AuthInv, SessionsAreIssued, Issued
  <2> QED BY <2>2, <2>3, <2>4, <2>5, QuietKeeps DEF AuthInv, AuthTypeOK
<1> QED BY <1>1, <1>2, <1>3

(* A handler looks something up, or is told that the rotation found nothing. *)
LEMMA LookupKeeps ==
  ASSUME AuthInv, NEW r \in Calls,
         \/ LoginChecked(r) \/ ActiveFound(r) \/ UserFound(r) \/ RotationRefused(r)
  PROVE  AuthInv'
<1>1. UNCHANGED <<disabled, tokens, session>> /\ request[r].at # "idle"
  BY DEF LoginChecked, ActiveFound, UserFound, RotationRefused, Stage
<1>2. PICK at \in Stages :
        Proceeds(r, at) /\ (at \in Bearing => request[r].at \in Bearing)
  <2>1. CASE LoginChecked(r)
    <3>1. PICK at \in {"storing", "denied"} : Proceeds(r, at)
      BY <2>1 DEF LoginChecked
    <3> QED BY <3>1 DEF Stages, Bearing
  <2>2. CASE ActiveFound(r)
    <3>1. request[r].at = "refresh" /\ \E at \in {"user", "denied"} : Proceeds(r, at)
      BY <2>2 DEF ActiveFound, Stage
    <3> QED BY <3>1 DEF Stages, Bearing
  <2>3. CASE UserFound(r)
    <3>1. request[r].at = "user" /\ \E at \in {"rotate", "denied"} : Proceeds(r, at)
      BY <2>3 DEF UserFound, Stage
    <3> QED BY <3>1 DEF Stages, Bearing
  <2>4. CASE RotationRefused(r)
    <3>1. Proceeds(r, "denied")
      BY <2>4 DEF RotationRefused
    <3> QED BY <3>1 DEF Stages, Bearing
  <2> QED BY <2>1, <2>2, <2>3, <2>4
<1>3. RequestsAreIssued' /\ request' \in [Calls -> Handlers \cup {Resting}]
  BY <1>1, <1>2, ProceedsKeepsRequests DEF AuthInv
<1>4. SessionsAreIssued'
  BY <1>1, SessionsKept DEF AuthInv
<1> QED BY <1>1, <1>3, <1>4, QuietKeeps DEF AuthInv, AuthTypeOK

(* An answer arrives, or is lost: the browser holds the token it is given.   *)
LEMMA EndedKeeps ==
  ASSUME AuthInv, NEW r \in Calls, Answered(r) \/ Denied(r) \/ AnswerLost(r)
  PROVE  AuthInv'
<1>1. UNCHANGED <<disabled, tokens>> /\ Closes(r)
  BY DEF Answered, Denied, AnswerLost
<1>2. RequestsAreIssued' /\ request' \in [Calls -> Handlers \cup {Resting}]
  BY <1>1, ClosesKeepsRequests DEF AuthInv
<1>3. CASE Answered(r)
  <2>1. /\ request[r] \in Handlers /\ request[r].token \in Issued
        /\ tokens[request[r].token].user = request[r].user
    BY <1>3, BusyIsHandler DEF Answered, Stage, AuthInv, RequestsAreIssued, Bearing
  <2>2. \A v \in Users :
          session'[v] = IF v = request[r].user THEN request[r].token ELSE session[v]
    BY <1>3 DEF Answered, AuthInv, AuthTypeOK
  <2>3. session' \in [Users -> Tokens \cup {NoToken}]
    BY <1>3, <2>1 DEF Answered, AuthInv, AuthTypeOK, Handlers
  <2>4. SessionsAreIssued'
    BY <1>1, <2>1, <2>2 DEF AuthInv, SessionsAreIssued, Issued
  <2> QED BY <1>1, <1>2, <2>3, <2>4, QuietKeeps DEF AuthInv, AuthTypeOK
<1>4. CASE Denied(r)
  <2>1. /\ session' \in [Users -> Tokens \cup {NoToken}]
        /\ \A v \in Users : session'[v] = NoToken \/ session'[v] = session[v]
    BY <1>4 DEF Denied, AuthInv, AuthTypeOK
  <2>2. SessionsAreIssued'
    BY <1>1, <2>1 DEF AuthInv, SessionsAreIssued, Issued
  <2> QED BY <1>1, <1>2, <2>1, <2>2, QuietKeeps DEF AuthInv, AuthTypeOK
<1>5. CASE AnswerLost(r)
  <2>1. UNCHANGED session
    BY <1>5 DEF AnswerLost
  <2>2. SessionsAreIssued'
    BY <1>1, <2>1, SessionsKept DEF AuthInv
  <2> QED BY <1>1, <1>2, <2>1, <2>2, QuietKeeps DEF AuthInv, AuthTypeOK
<1> QED BY <1>3, <1>4, <1>5

(* LoggedOut and TokenExpires end a token. *)
LEMMA LoggedOutKeeps ==
  ASSUME AuthInv, NEW r \in Calls, LoggedOut(r)
  PROVE  AuthInv'
<1>1. request[r].token \in Issued
  BY DEF LoggedOut, Stage, AuthInv, RequestsAreIssued, Bearing
<1>2. RowsStay /\ FamiliesAreIssued' /\ TokensAreOneTime'
  BY <1>1, EndsKeepsTokens DEF LoggedOut, AuthInv
<1>3. \A q \in Calls : request'[q] = IF q = r THEN Resting ELSE request[q]
  BY DEF LoggedOut, Closes, AuthInv, AuthTypeOK
<1>4. request' \in [Calls -> Handlers \cup {Resting}]
  BY DEF LoggedOut, Closes, AuthInv, AuthTypeOK
<1>5. AuthTypeOK'
  BY <1>2, <1>4 DEF LoggedOut, AuthInv, AuthTypeOK, RowsStay
<1>6. SessionsAreIssued' /\ Issued \subseteq Issued'
  BY <1>2, RowsStayIssued DEF LoggedOut, AuthInv
<1>7. RequestsAreIssued'
  <2>1. Resting.at \notin Bearing
    BY DEF Resting, Bearing
  <2> QED BY <1>2, <1>3, <1>6, <2>1 DEF AuthInv, RequestsAreIssued, RowsStay
<1> QED BY <1>2, <1>5, <1>6, <1>7 DEF AuthInv

(* A token past its time takes no other token with it. *)
LEMMA TokenExpiresKeeps ==
  ASSUME AuthInv, NEW t \in Tokens, TokenExpires(t)
  PROVE  AuthInv'
<1>1. t \in Issued /\ Active(t)
  BY DEF TokenExpires, Active
<1>2. RowsStay /\ FamiliesAreIssued' /\ TokensAreOneTime'
  BY <1>1, EndsKeepsTokens DEF TokenExpires, AuthInv
<1>3. AuthTypeOK'
  BY <1>2 DEF TokenExpires, AuthInv, AuthTypeOK, RowsStay
<1>4. SessionsAreIssued' /\ RequestsAreIssued'
  BY <1>2, RowsStayIssued DEF TokenExpires, AuthInv
<1> QED BY <1>2, <1>3, <1>4 DEF AuthInv

-----------------------------------------------------------------------------
(* The invariant of the sessions holds in every reachable state. *)
THEOREM AuthInvariant == AuthSpec => []AuthInv
<1>1. AuthInit => AuthInv
  <2> SUFFICES ASSUME AuthInit PROVE AuthInv
    OBVIOUS
  <2>1. AuthTypeOK /\ Issued = {}
    BY DEF AuthInit, AuthTypeOK, Issued
  <2>2. Resting.at \notin Bearing
    BY DEF Resting, Bearing
  <2>3. SessionsAreIssued /\ RequestsAreIssued
    BY <2>2 DEF AuthInit, SessionsAreIssued, RequestsAreIssued
  <2>4. FamiliesAreIssued /\ TokensAreOneTime
    BY <2>1 DEF FamiliesAreIssued, TokensAreOneTime, Active
  <2> QED BY <2>1, <2>3, <2>4 DEF AuthInv
<1>2. AuthInv /\ [AuthNext]_auth_vars => AuthInv'
  <2> SUFFICES ASSUME AuthInv, [AuthNext]_auth_vars PROVE AuthInv'
    OBVIOUS
  <2>1. ASSUME NEW r \in Calls,
               \/ \E u \in Users : LoginSent(r, u) \/ RefreshSent(r, u) \/ LogoutSent(r, u)
               \/ LoginChecked(r) \/ LoginStored(r)
               \/ ActiveFound(r) \/ UserFound(r) \/ Rotated(r) \/ RotationRefused(r)
               \/ LoggedOut(r) \/ Answered(r) \/ Denied(r) \/ AnswerLost(r)
        PROVE  AuthInv'
    BY <2>1, SentKeeps, LookupKeeps, LoginStoredKeeps, RotatedKeeps, LoggedOutKeeps,
       EndedKeeps
  <2>2. ASSUME NEW u \in Users, UserUpserted(u)
        PROVE  AuthInv'
    <3>1. disabled' \in [Users -> BOOLEAN] /\ UNCHANGED <<tokens, session, request>>
      BY <2>2 DEF UserUpserted, AuthInv, AuthTypeOK
    <3>2. SessionsAreIssued' /\ RequestsAreIssued'
      BY <3>1 DEF AuthInv, SessionsAreIssued, RequestsAreIssued, Issued
    <3> QED BY <3>1, <3>2, QuietKeeps DEF AuthInv, AuthTypeOK
  <2>3. ASSUME NEW t \in Tokens, TokenExpires(t)
        PROVE  AuthInv'
    BY <2>3, TokenExpiresKeeps
  <2>4. CASE UNCHANGED auth_vars
    <3>1. UNCHANGED <<disabled, tokens, session, request>>
      BY <2>4 DEF auth_vars
    <3>2. SessionsAreIssued' /\ RequestsAreIssued'
      BY <3>1 DEF AuthInv, SessionsAreIssued, RequestsAreIssued, Issued
    <3> QED BY <3>1, <3>2, QuietKeeps DEF AuthInv, AuthTypeOK
  <2> QED BY <2>1, <2>2, <2>3, <2>4 DEF AuthNext
<1> QED BY <1>1, <1>2, PTL DEF AuthSpec

(* The accounts, tokens, sessions and requests have the types they are given.*)
THEOREM AuthTypesHold == AuthSpec => []AuthTypeOK
<1>1. AuthInv => AuthTypeOK
  BY DEF AuthInv
<1> QED BY <1>1, AuthInvariant, PTL

(* However many requests refresh with one token, and whatever answers are    *)
(* lost, a login never has two active tokens and a token has one successor.  *)
THEOREM TokensStayOneTime == AuthSpec => []TokensAreOneTime
<1>1. AuthInv => TokensAreOneTime
  BY DEF AuthInv
<1> QED BY <1>1, AuthInvariant, PTL

-----------------------------------------------------------------------------
(***************************************************************************)
(* The loop of a run, for any plans, limits and answers of the model.      *)
(*                                                                         *)
(* The resolver proposes only what the run has not done: the invariant     *)
(* says so of the action that is pending, which the plan's step, the       *)
(* evidence collected and the metrics bound have all been consulted for.   *)
(***************************************************************************)
StepStates == {"pending", "running", "completed", "blocked", "skipped"}
Words == {"catalog", "semantic"}

(* A plan whose dependencies are steps of it. *)
IsPlan(steps) ==
  steps \in Seq([state : StepStates, about : SUBSET Words, needs : SUBSET (DOMAIN steps)])

(* The resolver's pending action is one that has not succeeded yet, or binds *)
(* an artifact that is not bound.                                            *)
PendingIsNew ==
  pending.by = "resolver" =>
    \A i \in By({pending.tool}) :
      pending.tool = "evidence.collect" /\ observed[i].on # pending.on

ActionFits ==
  stage = "tool" =>
    /\ pending.tool \in AllowedTools(task.mode) /\ pending.on \in 0 .. Len(observed)
    /\ pending.by \in {"resolver", "model"}
    /\ PendingIsNew

(* What is observed was planned. *)
PlanFirst == plan_steps = <<>> => observed = <<>> /\ stage # "tool"

LoopInv == LoopTypeOK /\ NothingIsRedone /\ ActionFits /\ PlanFirst

-----------------------------------------------------------------------------
(* LatestOf is a position, or 0. *)
LEMMA LatestIsLargest ==
  ASSUME NEW n \in Nat, NEW S \in SUBSET (1 .. n)
  PROVE  LatestOf(S) \in 0 .. n /\ (S # {} => LatestOf(S) \in S)
<1>1. CASE S = {}
  BY <1>1 DEF LatestOf
<1>2. CASE S # {}
  <2> DEFINE Bounds == {m \in Nat : \A y \in S : y <= m}
             R == OpToRel(<, Nat)
  <2>1. n \in Bounds /\ Bounds \subseteq Nat
    OBVIOUS
  <2>2. \E x \in Bounds : \A y \in Bounds : ~ (<<y, x>> \in R)
    BY <2>1, NatLessThanWellFounded, WFMin
  <2>3. R = {pair \in Nat \X Nat : pair[1] < pair[2]}
    BY DEF OpToRel
  <2> HIDE DEF R
  <2>4. PICK x \in Bounds : \A y \in Bounds : ~ (<<y, x>> \in R)
    BY <2>2
  <2>5. x \in S
    <3> SUFFICES ASSUME x \notin S
                 PROVE  FALSE
      OBVIOUS
    <3>1. x \in Nat /\ x - 1 \in Nat /\ \A y \in S : y <= x - 1
      <4>1. PICK y \in S : TRUE
        BY <1>2
      <4>2. y \in Nat /\ y >= 1 /\ y <= x /\ x \in Nat
        BY <4>1
      <4> QED
        BY <4>2
    <3>2. x - 1 \in Bounds /\ <<x - 1, x>> \in R
      BY <3>1, <2>3
    <3> QED
      BY <3>2, <2>4
  <2>6. \E m \in S : \A y \in S : m >= y
    BY <2>5
  <2>7. Max(S) \in S
    BY <2>6 DEF Max
  <2>8. LatestOf(S) = Max(S)
    BY <1>2 DEF LatestOf
  <2>9. Max(S) \in 1 .. n
    BY <2>7
  <2>10. LatestOf(S) \in 1 .. n /\ LatestOf(S) \in S
    BY <2>7, <2>8, <2>9
  <2> QED
    BY <2>10
<1> QED
  BY <1>1, <1>2

LEMMA AppendedPlan ==
  ASSUME NEW steps, IsPlan(steps), NEW about \in SUBSET Words, NEW needs \in SUBSET (DOMAIN steps)
  PROVE  /\ IsPlan(Append(steps, PendingStep(about, needs)))
         /\ Append(steps, PendingStep(about, needs)) # <<>>
<1> DEFINE new == PendingStep(about, needs)
           longer == Append(steps, new)
<1>1. longer \in Seq([state : StepStates, about : SUBSET Words, needs : SUBSET (DOMAIN longer)])
  <2>1. Len(steps) \in Nat /\ DOMAIN steps = 1 .. Len(steps) /\ DOMAIN longer = 1 .. Len(steps) + 1
    BY DEF IsPlan
  <2>2. DOMAIN steps \subseteq DOMAIN longer
    BY <2>1
  <2> DEFINE Wider == [state : StepStates, about : SUBSET Words, needs : SUBSET (DOMAIN longer)]
  <2>3. [state : StepStates, about : SUBSET Words, needs : SUBSET (DOMAIN steps)] \subseteq Wider
    BY <2>2
  <2>4. new \in Wider
    BY <2>2 DEF PendingStep, StepStates
  <2> DEFINE Narrow == [state : StepStates, about : SUBSET Words, needs : SUBSET (DOMAIN steps)]
  <2>5. steps \in Seq(Narrow) /\ Narrow \subseteq Wider
    BY <2>3 DEF IsPlan
  <2> HIDE DEF Wider, new, Narrow
  <2>7. steps \in Seq(Wider)
    BY <2>5
  <2>6. Append(steps, new) \in Seq(Wider)
    BY <2>4, <2>7
  <2> QED
    BY <2>6 DEF Wider
<1>2. longer # <<>>
  BY DEF IsPlan
<1> QED
  BY <1>1, <1>2 DEF IsPlan

(* A plan whose steps change their state or their words is a plan. *)
LEMMA ChangedPlan ==
  ASSUME NEW steps, IsPlan(steps), NEW changed, changed = [k \in DOMAIN steps |-> changed[k]],
         \A k \in DOMAIN steps :
           \/ changed[k] = steps[k]
           \/ \E state \in StepStates : changed[k] = [steps[k] EXCEPT !.state = state]
           \/ \E about \in SUBSET Words : changed[k] = [steps[k] EXCEPT !.about = about]
  PROVE  IsPlan(changed) /\ (changed = <<>> <=> steps = <<>>)
<1> DEFINE T == [state : StepStates, about : SUBSET Words, needs : SUBSET (DOMAIN steps)]
<1>1. steps \in Seq(T) /\ DOMAIN steps = 1 .. Len(steps) /\ Len(steps) \in Nat
  BY DEF IsPlan
<1> HIDE DEF T
<1>2. \A k \in DOMAIN steps : steps[k] \in T
  BY <1>1
<1>3. \A k \in DOMAIN steps : changed[k] \in T
  BY <1>2 DEF T
<1>4. changed = [k \in 1 .. Len(steps) |-> changed[k]] /\ \A k \in 1 .. Len(steps) : changed[k] \in T
  BY <1>1, <1>3
<1>5. changed \in Seq(T) /\ DOMAIN changed = DOMAIN steps /\ Len(changed) = Len(steps)
  BY <1>1, <1>4
<1> QED
  BY <1>1, <1>5 DEF IsPlan, T

-----------------------------------------------------------------------------
(* The tools, the calls and the observations are what LoopTypeOK says.       *)
LEMMA Observing ==
  ASSUME LoopTypeOK
  PROVE  /\ observed \in Seq([tool : AllowedTools(task.mode), on : 0 .. Len(observed),
                              by : {"resolver", "model"},
                              outcome : {"done", "empty", "nonfinite"} \cup Errors])
         /\ Len(observed) \in Nat /\ DOMAIN observed = 1 .. Len(observed)
         /\ IsPlan(plan_steps)
BY DEF LoopTypeOK, IsPlan, StepStates, Words

(* By finds positions of observations of the tools it is given.              *)
LEMMA ByFinds ==
  ASSUME NEW tools
  PROVE  /\ By(tools) \subseteq DOMAIN observed
         /\ \A i \in By(tools) : Succeeded(i) /\ observed[i].tool \in tools
         /\ \A i \in DOMAIN observed : Succeeded(i) /\ observed[i].tool \in tools => i \in By(tools)
BY DEF By

(* An action is assigned to a step of a plan.                                *)
LEMMA AssignsFits ==
  ASSUME NEW steps, IsPlan(steps), NEW tool, NEW on, NEW by, Assigns(steps, tool, on, by)
  PROVE  /\ IsPlan(plan_steps') /\ plan_steps' # <<>>
         /\ stage' = "tool" /\ pending'.tool = tool /\ pending'.on = on /\ pending'.by = by
<1> DEFINE k == Min(RunnableIn(steps))
<1>1. /\ RunnableIn(steps) # {} /\ plan_steps' = [steps EXCEPT ![k].state = "running"]
      /\ pending' = [tool |-> tool, on |-> on, by |-> by, step |-> k] /\ stage' = "tool"
  BY DEF Assigns
<1> HIDE DEF k
<1>2. steps # <<>>
  BY <1>1 DEF RunnableIn, IsPlan
<1>3. plan_steps' = [j \in DOMAIN steps |-> plan_steps'[j]]
      /\ \A j \in DOMAIN steps : \/ plan_steps'[j] = steps[j]
                                 \/ plan_steps'[j] = [steps[j] EXCEPT !.state = "running"]
  BY <1>1
<1>4. "running" \in StepStates
  BY DEF StepStates
<1>5. IsPlan(plan_steps') /\ (plan_steps' = <<>> <=> steps = <<>>)
  BY <1>3, <1>4, ChangedPlan
<1> QED
  BY <1>1, <1>2, <1>5

(* The resolver assigns its action to the first runnable step, or to one it  *)
(* adds.                                                                     *)
LEMMA ActsFits ==
  ASSUME LoopTypeOK, NEW tool, NEW on, Acts(tool, on)
  PROVE  /\ IsPlan(plan_steps') /\ plan_steps' # <<>>
         /\ stage' = "tool" /\ pending'.tool = tool /\ pending'.on = on /\ pending'.by = "resolver"
         /\ tool \in AllowedTools(task.mode)
<1> DEFINE steps == WithStep(plan_steps)
           k == Min(RunnableIn(steps))
           told == [steps EXCEPT ![k].about = Canonical(tool)]
<1>1. IsPlan(plan_steps)
  BY Observing
<1>2. IsPlan(steps)
  <2>1. OverSteps \subseteq DOMAIN plan_steps
    BY DEF OverSteps
  <2> QED
    BY <1>1, <2>1, AppendedPlan DEF WithStep
<1>3. tool \in AllowedTools(task.mode) /\ Assigns(told, tool, on, "resolver")
  BY DEF Acts
<1>4. Canonical(tool) \in SUBSET Words
  BY DEF Canonical, Words
<1> HIDE DEF steps, k
<1>5. told = [j \in DOMAIN steps |-> told[j]]
      /\ \A j \in DOMAIN steps : \/ told[j] = steps[j]
                                 \/ told[j] = [steps[j] EXCEPT !.about = Canonical(tool)]
  OBVIOUS
<1> HIDE DEF told
<1>6. IsPlan(told)
  BY <1>2, <1>4, <1>5, ChangedPlan
<1> QED
  BY <1>3, <1>6, AssignsFits

LEMMA FinishesFits ==
  ASSUME LoopTypeOK, NEW states, Finishes(states)
  PROVE  /\ IsPlan(plan_steps') /\ (plan_steps' = <<>> <=> plan_steps = <<>>)
         /\ stage' = "answering"
<1>1. plan_steps' = [j \in DOMAIN plan_steps |-> plan_steps'[j]]
      /\ \A j \in DOMAIN plan_steps :
           \/ plan_steps'[j] = plan_steps[j]
           \/ plan_steps'[j] = [plan_steps[j] EXCEPT !.state = "skipped"]
  BY DEF Finishes
<1>2. "skipped" \in StepStates
  BY DEF StepStates
<1>3. IsPlan(plan_steps)
  BY Observing
<1>4. IsPlan(plan_steps') /\ (plan_steps' = <<>> <=> plan_steps = <<>>)
  BY <1>1, <1>2, <1>3, ChangedPlan
<1> QED
  BY <1>4 DEF Finishes

LEMMA StepEndsFits ==
  ASSUME LoopTypeOK, NEW outcome, StepEnds(outcome)
  PROVE  IsPlan(plan_steps') /\ (plan_steps' = <<>> <=> plan_steps = <<>>)
<1> DEFINE state == IF outcome \in Errors THEN "blocked" ELSE "completed"
<1>1. plan_steps' = [plan_steps EXCEPT ![pending.step].state = state] /\ state \in StepStates
  BY DEF StepEnds, StepStates
<1> HIDE DEF state
<1>2. plan_steps' = [j \in DOMAIN plan_steps |-> plan_steps'[j]]
      /\ \A j \in DOMAIN plan_steps :
           \/ plan_steps'[j] = plan_steps[j]
           \/ plan_steps'[j] = [plan_steps[j] EXCEPT !.state = state]
  BY <1>1
<1>3. IsPlan(plan_steps)
  BY Observing
<1>4. state \in StepStates
  BY <1>1
<1>5. IsPlan(plan_steps') /\ (plan_steps' = <<>> <=> plan_steps = <<>>)
  BY <1>2, <1>3, <1>4, ChangedPlan
<1> QED
  BY <1>5

(* The model's plans are plans, and no plan of the model is empty when the   *)
(* run has one.                                                              *)
LEMMA ModelPlansFit ==
  ASSUME LoopTypeOK, plan_steps # <<>>, NEW steps \in ModelPlans
  PROVE  IsPlan(steps) /\ steps # <<>>
<1>1. IsPlan(plan_steps)
  BY Observing
<1>2. ASSUME NEW state \in {"pending", "skipped"}, steps = Retried(state)
      PROVE  IsPlan(steps) /\ steps # <<>>
  <2>1. steps = [j \in DOMAIN plan_steps |-> steps[j]]
        /\ \A j \in DOMAIN plan_steps :
             \/ steps[j] = plan_steps[j]
             \/ steps[j] = [plan_steps[j] EXCEPT !.state = state]
    BY <1>2 DEF Retried
  <2>2. state \in StepStates
    BY DEF StepStates
  <2> QED
    BY <1>1, <2>1, <2>2, ChangedPlan
<1>3. ASSUME NEW about \in {{}, {"semantic"}}, steps = Append(plan_steps, PendingStep(about, {}))
      PROVE  IsPlan(steps) /\ steps # <<>>
  <2>1. about \in SUBSET Words /\ {} \in SUBSET (DOMAIN plan_steps)
    BY DEF Words
  <2> QED
    BY <1>1, <1>3, <2>1, AppendedPlan
<1> QED
  BY <1>1, <1>2, <1>3 DEF ModelPlans

(* Planning counts within its limits.                                        *)
LEMMA PlanningCounts ==
  ASSUME LoopLimits, LoopTypeOK, Planning
  PROVE  /\ loops' \in [steps : 0 .. MaxLoopSteps, replans : 0 .. MaxLoopReplans]
         /\ replanning' = FALSE /\ UNCHANGED <<task, observed, answer>>
BY DEF LoopTypeOK, Planning, LoopLimits

-----------------------------------------------------------------------------
(* A step that observes nothing and plans an action, or none.                *)
LEMMA PlansOn ==
  ASSUME LoopInv, UNCHANGED <<task, observed>>, IsPlan(plan_steps'),
         stage' \in {"planning", "tool", "evaluating", "waiting", "answering", "answered", "failed"},
         logical' \in {"none", "ready", "unclear", "unsupported"},
         drafted' \in BOOLEAN, replanning' \in BOOLEAN,
         origin' \in {"none", "dataset_query", "planner"},
         loops' \in [steps : 0 .. MaxLoopSteps, replans : 0 .. MaxLoopReplans],
         plan_steps' = <<>> => observed = <<>> /\ stage' # "tool",
         stage' = "tool" =>
           /\ pending'.tool \in AllowedTools(task.mode) /\ pending'.on \in 0 .. Len(observed)
           /\ pending'.by \in {"resolver", "model"}
           /\ pending'.by = "resolver" =>
                \A i \in By({pending'.tool}) :
                  pending'.tool = "evidence.collect" /\ observed[i].on # pending'.on
  PROVE  LoopInv'
<1>1. LoopTypeOK'
  BY DEF LoopInv, LoopTypeOK, IsPlan, StepStates, Words, Errors
<1>2. NothingIsRedone'
  BY DEF LoopInv, NothingIsRedone, By, Succeeded
<1>3. ActionFits'
  BY DEF ActionFits, PendingIsNew, By, Succeeded
<1>4. PlanFirst'
  BY DEF PlanFirst
<1> QED
  BY <1>1, <1>2, <1>3, <1>4 DEF LoopInv

(* Positions of observations, and the last of them.                          *)
LEMMA PositionsFit ==
  ASSUME LoopTypeOK, NEW tools
  PROVE  /\ LatestOf(By(tools)) \in 0 .. Len(observed)
         /\ By(tools) \subseteq 0 .. Len(observed)
<1>1. By(tools) \in SUBSET (1 .. Len(observed)) /\ Len(observed) \in Nat
  BY ByFinds, Observing
<1> QED
  BY <1>1, LatestIsLargest

(* A state of the resolver as the lemma about a step wants it.               *)
LEMMA LoopTypes ==
  ASSUME LoopTypeOK
  PROVE  /\ logical \in {"none", "ready", "unclear", "unsupported"}
         /\ drafted \in BOOLEAN /\ replanning \in BOOLEAN
         /\ origin \in {"none", "dataset_query", "planner"}
         /\ loops \in [steps : 0 .. MaxLoopSteps, replans : 0 .. MaxLoopReplans]
BY DEF LoopTypeOK

LEMMA InitialDecisionKeeps ==
  ASSUME LoopLimits, LoopInv, InitialDecision
  PROVE  LoopInv'
<1> DEFINE first == [PendingStep({"catalog"}, {}) EXCEPT !.state = "running"]
<1>1. /\ Planning /\ plan_steps = <<>> /\ plan_steps' = <<first>> /\ stage' = "tool"
      /\ pending' = [tool |-> "catalog.inspect", on |-> 0, by |-> "resolver", step |-> 1]
      /\ UNCHANGED <<logical, drafted, origin>>
  BY DEF InitialDecision, resolver_vars
<1>2. IsPlan(plan_steps') /\ plan_steps' # <<>>
  <2>1. first \in [state : StepStates, about : SUBSET Words, needs : SUBSET {1}]
    BY DEF PendingStep, StepStates, Words
  <2> HIDE DEF first
  <2>2. DOMAIN <<first>> = {1}
    OBVIOUS
  <2>3. <<first>> \in Seq([state : StepStates, about : SUBSET Words, needs : SUBSET (DOMAIN <<first>>)])
    BY <2>1, <2>2
  <2> QED
    BY <1>1, <2>3 DEF IsPlan
<1>3. observed = <<>> /\ By({"catalog.inspect"}) = {} /\ 0 \in 0 .. Len(observed)
  <2>1. observed = <<>>
    BY <1>1 DEF LoopInv, PlanFirst
  <2> QED
    BY <2>1 DEF By
<1>4. "catalog.inspect" \in AllowedTools(task.mode)
  BY DEF AllowedTools
<1>5. LoopTypeOK
  BY DEF LoopInv
<1> QED
  BY <1>1, <1>2, <1>3, <1>4, <1>5, PlanningCounts, LoopTypes, PlansOn

(* What the resolver asks for is new.                                        *)
LEMMA ActsKeeps ==
  ASSUME LoopLimits, LoopInv, Planning, NEW tool, NEW on \in 0 .. Len(observed), Acts(tool, on),
         \A i \in By({tool}) : tool = "evidence.collect" /\ observed[i].on # on,
         logical' \in {"none", "ready", "unclear", "unsupported"}, drafted' \in BOOLEAN,
         origin' \in {"none", "dataset_query", "planner"}
  PROVE  LoopInv'
<1>1. LoopTypeOK
  BY DEF LoopInv
<1>2. /\ IsPlan(plan_steps') /\ plan_steps' # <<>> /\ tool \in AllowedTools(task.mode)
      /\ stage' = "tool" /\ pending'.tool = tool /\ pending'.on = on /\ pending'.by = "resolver"
  BY <1>1, ActsFits
<1>3. /\ loops' \in [steps : 0 .. MaxLoopSteps, replans : 0 .. MaxLoopReplans]
      /\ replanning' = FALSE /\ UNCHANGED <<task, observed, answer>>
  BY <1>1, PlanningCounts
<1> QED
  BY <1>2, <1>3, PlansOn

(* The resolver leaves the loop, with the plan it has.                       *)
LEMMA LeavesKeeps ==
  ASSUME LoopLimits, LoopInv, Planning, plan_steps # <<>>, IsPlan(plan_steps'), plan_steps' # <<>>,
         stage' \in {"answering", "waiting", "failed"},
         logical' \in {"none", "ready", "unclear", "unsupported"}, drafted' \in BOOLEAN,
         origin' \in {"none", "dataset_query", "planner"}
  PROVE  LoopInv'
<1>1. LoopTypeOK
  BY DEF LoopInv
<1>2. /\ loops' \in [steps : 0 .. MaxLoopSteps, replans : 0 .. MaxLoopReplans]
      /\ replanning' = FALSE /\ UNCHANGED <<task, observed, answer>>
  BY <1>1, PlanningCounts
<1> QED
  BY <1>2, PlansOn

LEMMA EarliestIsThere ==
  ASSUME NEW S \in SUBSET Nat, S # {}
  PROVE  Min(S) \in S
<1> DEFINE R == OpToRel(<, Nat)
<1>1. \E x \in S : \A y \in S : ~ (<<y, x>> \in R)
  BY NatLessThanWellFounded, WFMin
<1>2. R = {pair \in Nat \X Nat : pair[1] < pair[2]}
  BY DEF OpToRel
<1> HIDE DEF R
<1>3. PICK x \in S : \A y \in S : ~ (<<y, x>> \in R)
  BY <1>1
<1>4. ASSUME NEW y \in S
      PROVE  x <= y
  <2>1. x \in Nat /\ y \in Nat /\ ~ (<<y, x>> \in R)
    BY <1>3
  <2>2. ~ (y < x)
    BY <2>1, <1>2
  <2> QED
    BY <2>1, <2>2
<1>5. \E m \in S : \A y \in S : m <= y
  BY <1>4
<1> QED
  BY <1>5 DEF Min

(* What is not bound by evidence was not bound by any observation.           *)
LEMMA UnboundIsNew ==
  ASSUME NEW on, on \notin Evidenced
  PROVE  \A i \in By({"evidence.collect"}) : observed[i].on # on
BY DEF Evidenced

LEMMA ResolvesSemanticsKeeps ==
  ASSUME LoopLimits, LoopInv, ResolvesSemantics
  PROVE  LoopInv'
<1>1. /\ LoopTypeOK /\ Planning /\ plan_steps # <<>> /\ ReadsSemantics
      /\ UNCHANGED <<logical, drafted, origin>>
  BY DEF LoopInv, ResolvesSemantics, Resolves, resolver_vars
<1>2. /\ logical' \in {"none", "ready", "unclear", "unsupported"} /\ drafted' \in BOOLEAN
      /\ origin' \in {"none", "dataset_query", "planner"} /\ 0 \in 0 .. Len(observed)
  BY <1>1, LoopTypes, Observing
<1>3. CASE WantsCatalog /\ Acts("catalog.inspect", 0)
  <2>1. By({"catalog.inspect"}) = {}
    BY <1>3 DEF WantsCatalog
  <2> QED
    BY <1>1, <1>2, <1>3, <2>1, ActsKeeps
<1>4. CASE By({"semantic.inspect"}) = {} /\ Acts("semantic.inspect", 0)
  BY <1>1, <1>2, <1>4, ActsKeeps
<1>5. CASE Inspected # {} /\ ~ SemanticsBound /\ Acts("evidence.collect", LatestOf(Inspected))
  <2>1. LatestOf(Inspected) \notin Evidenced /\ LatestOf(Inspected) \in 0 .. Len(observed)
    BY <1>1, <1>5, PositionsFit DEF SemanticsBound, Inspected
  <2> QED
    BY <1>1, <1>2, <1>5, <2>1, UnboundIsNew, ActsKeeps
<1>6. CASE Finishes({"pending", "blocked"})
  <2>1. IsPlan(plan_steps') /\ plan_steps' # <<>> /\ stage' = "answering"
    BY <1>1, <1>6, FinishesFits
  <2> QED
    BY <1>1, <1>2, <2>1, LeavesKeeps
<1> QED
  BY <1>1, <1>3, <1>4, <1>5, <1>6 DEF ReadsSemantics, WantsSemantics, Inspected

LEMMA ResolvesQueryKeeps ==
  ASSUME LoopLimits, LoopInv, ResolvesQuery
  PROVE  LoopInv'
<1>1. /\ LoopTypeOK /\ Planning /\ By({"query.compile"}) = {} /\ Acts("query.compile", 0)
      /\ logical' = "ready" /\ UNCHANGED <<drafted, origin>>
  BY DEF LoopInv, ResolvesQuery, PlansQuery, Resolves, Prepared
<1> QED
  BY <1>1, LoopTypes, Observing, ActsKeeps

LEMMA AsksAboutQueryKeeps ==
  ASSUME LoopLimits, LoopInv, AsksAboutQuery
  PROVE  LoopInv'
<1>1. /\ LoopTypeOK /\ Planning /\ plan_steps # <<>> /\ UNCHANGED plan_steps
      /\ logical' = "unclear" /\ drafted' \in {drafted, TRUE} /\ origin' = "dataset_query"
      /\ stage' = "waiting"
  BY DEF LoopInv, AsksAboutQuery, PlansQuery, Resolves
<1>2. IsPlan(plan_steps) /\ drafted \in BOOLEAN
  BY <1>1, Observing, LoopTypes
<1> QED
  BY <1>1, <1>2, LeavesKeeps

LEMMA RefusesQueryKeeps ==
  ASSUME LoopLimits, LoopInv, RefusesQuery
  PROVE  LoopInv'
<1>1. /\ LoopTypeOK /\ Planning /\ plan_steps # <<>> /\ UNCHANGED <<plan_steps, drafted, origin>>
      /\ logical' = "unsupported" /\ stage' = "failed"
  BY DEF LoopInv, RefusesQuery, PlansQuery, Resolves, GivesUp
<1> QED
  BY <1>1, Observing, LoopTypes, LeavesKeeps

LEMMA ResolvesResultKeeps ==
  ASSUME LoopLimits, LoopInv, ResolvesResult
  PROVE  LoopInv'
<1>1. /\ LoopTypeOK /\ Planning /\ plan_steps # <<>> /\ Prepared # {}
      /\ UNCHANGED <<logical, drafted, origin>>
  BY DEF LoopInv, ResolvesResult, Resolves, resolver_vars
<1>2. /\ logical' \in {"none", "ready", "unclear", "unsupported"} /\ drafted' \in BOOLEAN
      /\ origin' \in {"none", "dataset_query", "planner"}
  BY <1>1, LoopTypes
<1>3. CASE QueryResults = {} /\ RunTool # "none" /\ Acts(RunTool, Min(Prepared))
  <2>1. Prepared \subseteq 0 .. Len(observed) /\ Prepared \subseteq Nat
    BY <1>1, PositionsFit DEF Prepared
  <2>2. Min(Prepared) \in 0 .. Len(observed)
    BY <1>1, <2>1, EarliestIsThere
  <2>3. RunTool \in Queries
    BY <1>3 DEF RunTool, Queries
  <2>4. By({RunTool}) = {}
    BY <1>3, <2>3 DEF QueryResults, By
  <2> QED
    BY <1>1, <1>2, <1>3, <2>2, <2>4, ActsKeeps
<1>4. CASE ~ ResultBound /\ Acts("evidence.collect", LatestOf(QueryResults))
  <2>1. LatestOf(QueryResults) \notin Evidenced /\ LatestOf(QueryResults) \in 0 .. Len(observed)
    BY <1>1, <1>4, PositionsFit DEF ResultBound, QueryResults
  <2> QED
    BY <1>1, <1>2, <1>4, <2>1, UnboundIsNew, ActsKeeps
<1>5. ASSUME NEW states, Finishes(states)
      PROVE  LoopInv'
  <2>1. IsPlan(plan_steps') /\ plan_steps' # <<>> /\ stage' = "answering"
    BY <1>1, <1>5, FinishesFits
  <2> QED
    BY <1>1, <1>2, <2>1, LeavesKeeps
<1> QED
  BY <1>3, <1>4, <1>5 DEF ResolvesResult

(* The model's action may repeat what was done; the resolver's may not.      *)
LEMMA ModelActsKeeps ==
  ASSUME LoopLimits, LoopInv, ModelActs
  PROVE  LoopInv'
<1>1. /\ LoopTypeOK /\ Planning /\ plan_steps # <<>> /\ UNCHANGED <<logical, drafted, origin>>
  BY DEF LoopInv, ModelActs, ModelDecides, resolver_vars
<1>2. PICK steps \in ModelPlans, tool \in AllowedTools(task.mode) :
        \E on \in ModelArguments(tool) : Assigns(steps, tool, on, "model")
  BY DEF ModelActs
<1>3. PICK on \in ModelArguments(tool) : Assigns(steps, tool, on, "model")
  BY <1>2
<1>4. on \in 0 .. Len(observed)
  BY <1>1, PositionsFit, Observing DEF ModelArguments
<1>5. IsPlan(steps)
  BY <1>1, ModelPlansFit
<1>6. /\ IsPlan(plan_steps') /\ plan_steps' # <<>>
      /\ stage' = "tool" /\ pending'.tool = tool /\ pending'.on = on /\ pending'.by = "model"
  BY <1>3, <1>5, AssignsFits
<1> QED
  BY <1>1, <1>4, <1>6, PlanningCounts, LoopTypes, PlansOn

LEMMA ModelEndsKeeps ==
  ASSUME LoopLimits, LoopInv, ModelEnds
  PROVE  LoopInv'
<1>1. /\ LoopTypeOK /\ Planning /\ plan_steps # <<>> /\ UNCHANGED <<logical, drafted>>
      /\ plan_steps' \in ModelPlans /\ stage' \in {"answering", "waiting", "failed"}
      /\ origin' \in {origin, "planner"}
  BY DEF LoopInv, ModelEnds, ModelDecides, resolver_vars
<1>2. IsPlan(plan_steps') /\ plan_steps' # <<>>
  BY <1>1, ModelPlansFit
<1> QED
  BY <1>1, <1>2, LoopTypes, LeavesKeeps

(* The steps that leave the plan and the observations as they are.           *)
LEMMA RestsKeeps ==
  ASSUME LoopInv, UNCHANGED <<task, plan_steps, observed, loops>>,
         stage' \in {"planning", "tool", "evaluating", "waiting", "answering", "answered", "failed"},
         stage' # "tool",
         logical' \in {logical, "none"}, drafted' \in {drafted, FALSE},
         replanning' \in BOOLEAN, UNCHANGED origin
  PROVE  LoopInv'
<1>1. LoopTypeOK /\ (plan_steps = <<>> => observed = <<>>)
  BY DEF LoopInv, PlanFirst
<1> QED
  BY <1>1, Observing, LoopTypes, PlansOn

LEMMA ObservesKeeps ==
  ASSUME LoopLimits, LoopInv, Observes
  PROVE  LoopInv'
<1> DEFINE n == Len(observed)
           Old == [tool : AllowedTools(task.mode), on : 0 .. n, by : {"resolver", "model"},
                   outcome : {"done", "empty", "nonfinite"} \cup Errors]
           Wider == [tool : AllowedTools(task.mode), on : 0 .. n + 1, by : {"resolver", "model"},
                     outcome : {"done", "empty", "nonfinite"} \cup Errors]
<1>1. PICK outcome \in Outcomes : observed' = Append(observed, Observation(outcome)) /\ StepEnds(outcome)
  BY DEF Observes
<1>2. /\ LoopTypeOK /\ stage = "tool" /\ stage' = "evaluating"
      /\ UNCHANGED <<task, logical, drafted, origin, replanning, loops, answer>>
  BY DEF LoopInv, Observes, resolver_vars
<1> DEFINE seen == Observation(outcome)
<1>3. /\ seen.tool = pending.tool /\ seen.on = pending.on /\ seen.by = pending.by
      /\ seen.outcome = outcome
      /\ seen = [tool |-> seen.tool, on |-> seen.on, by |-> seen.by, outcome |-> seen.outcome]
  BY DEF Observation
<1>4. outcome \in {"done", "empty", "nonfinite"} \cup Errors
  BY DEF Outcomes
<1>5. n \in Nat /\ observed \in Seq(Old) /\ DOMAIN observed = 1 .. n
  BY <1>2, Observing
<1>6. pending.tool \in AllowedTools(task.mode) /\ pending.on \in 0 .. n
      /\ pending.by \in {"resolver", "model"} /\ PendingIsNew
  BY <1>2 DEF LoopInv, ActionFits
<1>7. seen \in Wider
  BY <1>3, <1>4, <1>5, <1>6
<1>8. Old \subseteq Wider
  BY <1>5
<1> HIDE DEF seen, Old, Wider
<1>9. observed' = Append(observed, seen)
  BY <1>1 DEF seen
<1>10. /\ observed' \in Seq(Wider) /\ Len(observed') = n + 1
       /\ \A i \in 1 .. n : observed'[i] = observed[i]
       /\ observed'[n + 1] = seen
       /\ observed' # <<>> /\ DOMAIN observed' = 1 .. n + 1
  <2>1. observed \in Seq(Wider)
    BY <1>5, <1>8
  <2> QED
    BY <2>1, <1>5, <1>7, <1>9
<1>11. IsPlan(plan_steps') /\ (plan_steps' = <<>> <=> plan_steps = <<>>) /\ plan_steps # <<>>
  BY <1>1, <1>2, StepEndsFits DEF LoopInv, PlanFirst
<1>12. LoopTypeOK'
  <2>1. observed' \in Seq([tool : AllowedTools(task'.mode), on : 0 .. Len(observed'),
                           by : {"resolver", "model"},
                           outcome : {"done", "empty", "nonfinite"} \cup Errors])
    BY <1>2, <1>10 DEF Wider
  <2>2. /\ task' \in [mode : Modes, question : Questions]
        /\ logical' \in {"none", "ready", "unclear", "unsupported"}
        /\ drafted' \in BOOLEAN /\ replanning' \in BOOLEAN
        /\ origin' \in {"none", "dataset_query", "planner"}
        /\ loops' \in [steps : 0 .. MaxLoopSteps, replans : 0 .. MaxLoopReplans]
    BY <1>2 DEF LoopTypeOK
  <2> QED
    BY <1>2, <1>11, <2>1, <2>2 DEF LoopTypeOK, IsPlan, StepStates, Words, AllowedTools, Errors
<1>13. NothingIsRedone'
  <2> SUFFICES ASSUME NEW i \in 1 .. n + 1, NEW j \in 1 .. n + 1, i < j,
                      Succeeded(i)', Succeeded(j)',
                      observed'[i].tool \in AllowedTools(task.mode),
                      observed'[j].by = "resolver", observed'[i].tool = observed'[j].tool
               PROVE  observed'[j].tool = "evidence.collect" /\ observed'[i].on # observed'[j].on
    BY <1>2, <1>10 DEF NothingIsRedone, By, Succeeded
  <2>1. i \in 1 .. n /\ observed'[i] = observed[i] /\ Succeeded(i)
    BY <1>5, <1>10 DEF Succeeded
  <2>2. CASE j \in 1 .. n
    <3>1. observed'[j] = observed[j] /\ Succeeded(j)
      BY <2>2, <1>10 DEF Succeeded
    <3>2. i \in By(AllowedTools(task.mode)) /\ j \in By(AllowedTools(task.mode))
      BY <2>1, <2>2, <3>1, <1>5 DEF By
    <3> QED
      BY <2>1, <3>1, <3>2 DEF LoopInv, NothingIsRedone
  <2>3. CASE j = n + 1
    <3>1. observed'[j] = seen /\ pending.by = "resolver" /\ observed[i].tool = pending.tool
      BY <2>1, <2>3, <1>3, <1>10 DEF seen
    <3>2. i \in By({pending.tool})
      BY <2>1, <3>1, <1>5 DEF By
    <3> QED
      BY <2>1, <3>1, <3>2, <1>3, <1>6 DEF PendingIsNew, seen
  <2> QED
    BY <2>2, <2>3, <1>5
<1>14. ActionFits' /\ PlanFirst'
  BY <1>2, <1>11 DEF ActionFits, PlanFirst
<1> QED
  BY <1>12, <1>13, <1>14 DEF LoopInv

LEMMA ObservesAgainKeeps ==
  ASSUME LoopLimits, LoopInv, ObservesAgain
  PROVE  LoopInv'
<1>1. PICK outcome \in Outcomes : StepEnds(outcome)
  BY DEF ObservesAgain
<1>2. /\ LoopTypeOK /\ stage = "tool" /\ stage' = "evaluating"
      /\ UNCHANGED <<task, observed, logical, drafted, origin, replanning, loops, answer>>
  BY DEF LoopInv, ObservesAgain, resolver_vars
<1>3. IsPlan(plan_steps') /\ plan_steps' # <<>>
  BY <1>1, <1>2, StepEndsFits DEF LoopInv, PlanFirst
<1> QED
  BY <1>2, <1>3, LoopTypes, PlansOn

LEMMA LoopInvInit == LoopLimits /\ LoopInit => LoopInv
<1> SUFFICES ASSUME LoopLimits, LoopInit
             PROVE  LoopInv
  OBVIOUS
<1>1. LoopTypeOK
  <2>1. \A T : <<>> \in Seq(T)
    OBVIOUS
  <2>2. loops \in [steps : 0 .. MaxLoopSteps, replans : 0 .. MaxLoopReplans]
    BY DEF LoopInit, LoopLimits
  <2> QED
    BY <2>1, <2>2 DEF LoopInit, LoopTypeOK
<1>2. NothingIsRedone
  BY DEF LoopInit, NothingIsRedone, By
<1> QED
  BY <1>1, <1>2 DEF LoopInit, LoopInv, ActionFits, PlanFirst

LEMMA LoopInvStep == LoopLimits /\ LoopInv /\ [LoopNext]_loop_vars => LoopInv'
<1> SUFFICES ASSUME LoopLimits, LoopInv, [LoopNext]_loop_vars
             PROVE  LoopInv'
  OBVIOUS
<1>1. CASE UNCHANGED loop_vars
  BY <1>1 DEF loop_vars, LoopInv, LoopTypeOK, NothingIsRedone, ActionFits, PendingIsNew, PlanFirst,
              By, Succeeded
<1>2. CASE ResolvesRun \/ RefusesRun \/ InputAnswered
  BY <1>2, RestsKeeps, LoopTypes DEF ResolvesRun, RefusesRun, InputAnswered, NewResolver, plan_vars,
     resolver_vars, LoopInv
<1>3. CASE Evaluates
  <2>1. replanning' \in BOOLEAN /\ stage' \in {"answering", "failed", "planning"}
    BY <1>3 DEF Evaluates
  <2> QED
    BY <1>3, <2>1, RestsKeeps DEF Evaluates, resolver_vars
<1>4. ASSUME NEW kind, AnswersWith(kind)
      PROVE  LoopInv'
  BY <1>4, RestsKeeps, LoopTypes DEF AnswersWith, plan_vars, resolver_vars, LoopInv
<1>5. CASE LoopFails
  BY <1>5, RestsKeeps, LoopTypes DEF LoopFails, plan_vars, resolver_vars, LoopInv
<1>6. CASE LoopNext
  BY <1>2, <1>3, <1>4, <1>5, <1>6, InitialDecisionKeeps, ResolvesSemanticsKeeps,
     ResolvesQueryKeeps, AsksAboutQueryKeeps, RefusesQueryKeeps, ResolvesResultKeeps,
     ModelActsKeeps, ModelEndsKeeps, ObservesKeeps, ObservesAgainKeeps
     DEF LoopNext, DraftsPlan, Synthesizes, DraftsLate
<1> QED
  BY <1>1, <1>6

(* The invariant of the loop: an action of the resolver that is pending has  *)
(* not succeeded before, or binds what is not bound.                         *)
THEOREM LoopInvariant == LoopSpec => []LoopInv
<1>1. LoopLimits
  BY LoopLimits
<1> QED
  BY <1>1, LoopInvInit, LoopInvStep, PTL DEF LoopSpec

(* LoopTypeOK: plans depend on their own steps, observations are about       *)
(* earlier ones, and planning stays within its limits.                       *)
THEOREM LoopTypesHold == LoopSpec => []LoopTypeOK
<1>1. LoopInv => LoopTypeOK
  BY DEF LoopInv
<1> QED
  BY <1>1, LoopInvariant, PTL

(* NothingIsRedone: whatever the model does in between, the resolver asks    *)
(* for nothing again that has succeeded, and binds an artifact once.         *)
THEOREM ResolverRedoesNothing == LoopSpec => []NothingIsRedone
<1>1. LoopInv => NothingIsRedone
  BY DEF LoopInv
<1> QED
  BY <1>1, LoopInvariant, PTL

-----------------------------------------------------------------------------
(***************************************************************************)
(* The page that shows a run, for any runs, conversations and histories.   *)
(*                                                                         *)
(* Both the stream and a page of history extend what is shown by the event *)
(* that follows it in the log; what is proved of the log is that nothing   *)
(* follows the end of a run, and that a question is followed by its answer *)
(* or by the end.  Hydrated replays the pages of a run: by induction over  *)
(* them it is a prefix of the log, of the status that its last event says. *)
(***************************************************************************)
(* A view, and how it shows a run out of these logs. *)
Views == [run : ViewedRuns \cup {NoRun}, status : Statuses, events : Seq(Kinds),
          input : BOOLEAN]

Shows(v, logs) ==
  /\ v \in Views
  /\ v.run # NoRun =>
       /\ Len(v.events) <= Len(logs[v.run])
       /\ \A q \in 1 .. Len(v.events) : v.events[q] = logs[v.run][q]
  /\ v.run = NoRun => v.events = <<>>
  /\ v.status = "waiting" => v.events # <<>> /\ v.events[Len(v.events)] = "run_waiting"
  /\ v.status = "completed" => v.events # <<>> /\ v.events[Len(v.events)] = "run_completed"

(* A stored log is legal: nothing follows the end of a run, and a question   *)
(* is followed by its answer or by the end.                                  *)
Legal(events) ==
  \A q \in 1 .. Len(events) - 1 :
    /\ events[q] \notin Ending
    /\ events[q] = "run_waiting" => events[q + 1] \in {"run_resumed", "run_failed"}

LogFits(logs, r) ==
  /\ logs[r] \in Seq(Kinds) /\ Legal(logs[r])
  /\ Len(logs[r]) <= MaxEvents[r] + 1
  /\ Len(logs[r]) > MaxEvents[r] => logs[r][Len(logs[r])] \in Ending

LogsFit == log \in [ViewedRuns -> Seq(Kinds)] /\ \A r \in ViewedRuns : LogFits(log, r)

OpenStreams == [run : ViewedRuns \cup {NoRun}, chat : Chats \cup {NoChat},
                captured : Chats \cup {NoChat}, next : Nat \ {0}, resumes : BOOLEAN]

(* A stream that reads a run, or resumes one, has a conversation; and a      *)
(* stream that has one was opened, or continued, on a page that had selected *)
(* it: a page that has selected none shows and saves nothing.                *)
StreamFits(s) ==
  /\ streams[s] \in {Closed, Looking} \cup OpenStreams
  /\ Open(s) => /\ streams[s].chat # NoChat => page.chat # NoChat
                /\ streams[s].run # NoRun \/ streams[s].resumes => streams[s].chat # NoChat

Pages == [chat : Chats \cup {NoChat}, loading : BOOLEAN, run : ViewedRuns \cup {NoRun},
          stands : BOOLEAN]
USE DEF Pages

PageFits ==
  /\ page \in Pages
  /\ view.run # NoRun \/ recoveries # {} => page.chat # NoChat

PendingFits ==
  /\ saved \in [Chats -> ViewedRuns \cup {NoRun}]
  /\ recoveries \subseteq Chats \X ViewedRuns \X (Streams \cup {Page})
  /\ cancels \subseteq (Chats \cup {NoChat}) \X ViewedRuns

ViewInv ==
  /\ LogsFit
  /\ Shows(view, log)
  /\ streams \in [Streams -> {Closed, Looking} \cup OpenStreams]
  /\ \A s \in Streams : StreamFits(s)
  /\ PageFits
  /\ PendingFits

-----------------------------------------------------------------------------
LEMMA LastIsLast ==
  ASSUME NEW events \in Seq(Kinds), events # <<>>
  PROVE  LastKind(events) = events[Len(events)] /\ LastKind(events) \in Kinds
<1>1. Len(events) \in 1 .. Len(events)
  OBVIOUS
<1> QED
  BY <1>1 DEF LastKind, Last

LEMMA NoneIsNoKind == "none" \notin Kinds /\ Ending \subseteq Kinds
BY DEF Kinds, Moving, Silent, Ending

(* Appending an event that may follow keeps the logs legal, and what was a   *)
(* prefix of a log is one still.                                             *)
LEMMA LogAppends ==
  ASSUME ViewAssumption, LogsFit, NEW r \in ViewedRuns, NEW kind \in Kinds,
         log' = [log EXCEPT ![r] = Append(@, kind)],
         log[r] # <<>> => /\ LastKind(log[r]) \notin Ending
                          /\ LastKind(log[r]) = "run_waiting" => kind \in {"run_resumed", "run_failed"},
         Len(log[r]) < MaxEvents[r] \/ kind \in Ending
  PROVE  LogsFit' /\ \A v : Shows(v, log) => Shows(v, log')
<1> DEFINE old == log[r]
           new == Append(old, kind)
<1>1. old \in Seq(Kinds) /\ log \in [ViewedRuns -> Seq(Kinds)] /\ LogFits(log, r)
  BY DEF LogsFit
<1>2. /\ log'[r] = new /\ log' \in [ViewedRuns -> Seq(Kinds)]
      /\ \A x \in ViewedRuns \ {r} : log'[x] = log[x]
  BY <1>1
<1>3. Len(new) = Len(old) + 1 /\ new[Len(new)] = kind /\ Len(old) \in Nat
      /\ \A q \in 1 .. Len(old) : new[q] = old[q]
  BY <1>1
<1>4. Len(old) <= MaxEvents[r] /\ MaxEvents[r] \in Nat
  <2>1. CASE old = <<>>
    BY <2>1, <1>3 DEF ViewAssumption
  <2>2. CASE old # <<>>
    BY <2>2, <1>1, <1>3, LastIsLast DEF LogFits, ViewAssumption
  <2> QED
    BY <2>1, <2>2
<1>5. Legal(new)
  <2> SUFFICES ASSUME NEW q \in 1 .. Len(old)
               PROVE  /\ new[q] \notin Ending
                      /\ new[q] = "run_waiting" => new[q + 1] \in {"run_resumed", "run_failed"}
    BY <1>3 DEF Legal
  <2>1. CASE q = Len(old)
    BY <2>1, <1>1, <1>3, LastIsLast
  <2>2. CASE q # Len(old)
    <3>1. q \in 1 .. Len(old) - 1 /\ q + 1 \in 1 .. Len(old)
      BY <2>2, <1>3
    <3> QED
      BY <3>1, <1>1, <1>3 DEF LogFits, Legal
  <2> QED
    BY <2>1, <2>2
<1>6. LogFits(log', r)
  BY <1>1, <1>2, <1>3, <1>4, <1>5 DEF LogFits
<1>7. \A x \in ViewedRuns \ {r} : LogFits(log', x)
  BY <1>2 DEF LogsFit, LogFits
<1>8. LogsFit'
  <2>1. \A x \in ViewedRuns : LogFits(log', x)
    BY <1>6, <1>7
  <2> QED
    BY <2>1, <1>2 DEF LogsFit, LogFits
<1>9. ASSUME NEW v, Shows(v, log)
      PROVE  Shows(v, log')
  <2>1. v \in Views /\ Len(v.events) \in Nat
    BY <1>9 DEF Shows, Views
  <2>2. v.run # NoRun => v.run \in ViewedRuns
    BY <2>1 DEF Views
  <2>3. CASE v.run = r /\ v.run # NoRun
    BY <2>3, <2>1, <1>2, <1>3, <1>9 DEF Shows
  <2>4. CASE v.run # r \/ v.run = NoRun
    BY <2>4, <2>1, <2>2, <1>2, <1>9 DEF Shows
  <2> QED
    BY <2>3, <2>4
<1> QED
  BY <1>8, <1>9

(* The next event, applied to a view of the run or of no run.                *)
LEMMA AppliedShows ==
  ASSUME ViewAssumption, LogsFit, NEW v, Shows(v, log), NEW r \in ViewedRuns,
         v.run \in {NoRun, r}, Len(v.events) < Len(log[r])
  PROVE  LET next == Applied(v, r, log[r][Len(v.events) + 1]) IN
         /\ Shows(next, log)
         /\ next.run = r /\ Len(next.events) = Len(v.events) + 1
<1> DEFINE n == Len(v.events)
           kind == log[r][n + 1]
           next == Applied(v, r, kind)
<1>1. v \in Views /\ v.events \in Seq(Kinds) /\ n \in Nat /\ v.status \in Statuses /\ v.input \in BOOLEAN
  BY DEF Shows, Views
<1>2. log[r] \in Seq(Kinds) /\ Legal(log[r]) /\ Len(log[r]) \in Nat
  BY DEF LogsFit, LogFits
<1>3. kind \in Kinds /\ n + 1 \in 1 .. Len(log[r])
  BY <1>1, <1>2
<1>4. /\ next.run = r /\ next.events = Append(v.events, kind)
      /\ next.status = StatusAfter(v.status, kind)
      /\ next.input = (kind = "run_waiting" \/ (v.input /\ kind \notin Ending \cup {"run_resumed"}))
      /\ next = [run |-> next.run, status |-> next.status, events |-> next.events, input |-> next.input]
  BY DEF Applied
<1>5. next.events \in Seq(Kinds) /\ Len(next.events) = n + 1 /\ next.events[n + 1] = kind
      /\ next.events # <<>> /\ \A q \in 1 .. n : next.events[q] = v.events[q]
  BY <1>1, <1>3, <1>4
<1>6. next.status \in Statuses /\ next.input \in BOOLEAN
  BY <1>1, <1>3, <1>4 DEF StatusAfter, Statuses, Blocking
<1>7. next \in Views
  BY <1>4, <1>5, <1>6 DEF Views
<1>8. \A q \in 1 .. n : v.events[q] = log[r][q]
  <2>1. CASE v.run = NoRun
    BY <2>1, <1>1 DEF Shows
  <2>2. CASE v.run # NoRun
    BY <2>2, <1>1 DEF Shows
  <2> QED
    BY <2>1, <2>2
<1>9. \A q \in 1 .. n + 1 : next.events[q] = log[r][q]
  BY <1>1, <1>5, <1>8
<1>10. ASSUME v.status \in {"waiting", "completed"}
       PROVE  kind \in {"run_resumed", "run_failed"}
  <2>1. n > 0 /\ v.events[n] \in {"run_waiting", "run_completed"}
        /\ (v.events[n] = "run_waiting" \/ v.events[n] \in Ending)
    BY <1>10, <1>1 DEF Shows, Ending
  <2>2. n \in 1 .. Len(log[r]) - 1 /\ v.events[n] = log[r][n]
    BY <2>1, <1>1, <1>2, <1>3, <1>8
  <2> QED
    BY <2>1, <2>2, <1>2 DEF Legal
<1>11. /\ next.status = "waiting" => kind = "run_waiting"
       /\ next.status = "completed" => kind = "run_completed"
  BY <1>3, <1>4, <1>10 DEF StatusAfter, Moving, Kinds, Ending, Silent
<1>12. Shows(next, log)
  BY <1>4, <1>5, <1>7, <1>9, <1>11, <1>2, <1>1 DEF Shows
<1> QED
  BY <1>4, <1>5, <1>12

LEMMA FreshShows == ASSUME NEW logs PROVE Shows(FreshView, logs) /\ FreshView.run = NoRun
<1>1. FreshView \in Views
  BY DEF FreshView, Views, Statuses, Blocking
<1> QED
  BY <1>1 DEF FreshView, Shows

(* A status that claims nothing about the last event. *)
LEMMA EndedShows ==
  ASSUME NEW v, NEW logs, Shows(v, logs), NEW status \in Statuses \ {"waiting", "completed"},
         NEW input \in BOOLEAN
  PROVE  /\ Shows([v EXCEPT !.status = status], logs)
         /\ Shows([v EXCEPT !.status = status, !.input = input], logs)
         /\ [v EXCEPT !.status = status].run = v.run
         /\ [v EXCEPT !.status = status, !.input = input].run = v.run
<1>1. v \in Views
  BY DEF Shows
<1>2. \A w : /\ w \in {[v EXCEPT !.status = status], [v EXCEPT !.status = status, !.input = input]}
        => /\ w \in Views /\ w.run = v.run /\ w.events = v.events /\ w.status = status
  BY <1>1 DEF Views
<1> QED
  BY <1>2 DEF Shows

(* hydrateAgentRun shows all the stored events: the replay of the first n is *)
(* a view of the first n.                                                    *)
LEMMA HydratedShows ==
  ASSUME ViewAssumption, LogsFit, NEW r \in ViewedRuns
  PROVE  Shows(Hydrated(r), log)
<1> DEFINE N == Len(log[r])
           Step(g, n) == IF n = 0 THEN FreshView ELSE Applied(g[n - 1], r, log[r][n])
           Replays(g, m) == g = [n \in 0 .. m |-> Step(g, n)]
           Right(v, n) == Shows(v, log) /\ v.run \in {NoRun, r} /\ Len(v.events) = n
           Good(m) == /\ \E g : Replays(g, m)
                      /\ \A g : Replays(g, m) => \A n \in 0 .. m : Right(g[n], n)
<1>1. N \in Nat
  BY DEF LogsFit, LogFits
<1>2. Right(FreshView, 0)
  BY FreshShows DEF FreshView
<1>3. Good(0)
  <2>1. Replays([n \in 0 .. 0 |-> FreshView], 0)
    <3> DEFINE g == [n \in 0 .. 0 |-> FreshView]
    <3>1. \A n \in 0 .. 0 : n = 0
      OBVIOUS
    <3>2. \A n \in 0 .. 0 : Step(g, n) = FreshView
      BY <3>1
    <3> HIDE DEF Step
    <3> QED
      BY <3>2
  <2>2. ASSUME NEW g, Replays(g, 0)
        PROVE  g[0] = FreshView
    <3>1. 0 \in 0 .. 0 /\ Step(g, 0) = FreshView
      OBVIOUS
    <3> HIDE DEF Step
    <3>2. g[0] = Step(g, 0)
      BY <2>2, <3>1
    <3> QED
      BY <3>1, <3>2
  <2>3. \E g : Replays(g, 0)
    BY <2>1
  <2> HIDE DEF Right, Replays
  <2>4. \A g : Replays(g, 0) => \A n \in 0 .. 0 : Right(g[n], n)
    <3>1. \A n \in 0 .. 0 : n = 0
      OBVIOUS
    <3> QED
      BY <3>1, <2>2, <1>2
  <2> QED
    BY <2>3, <2>4
<1>4. ASSUME NEW m \in Nat, m < N, Good(m)
      PROVE  Good(m + 1)
  <2>1. ASSUME NEW g, NEW h, \A n \in 0 .. m : g[n] = h[n], NEW n \in 0 .. m + 1
        PROVE  Step(g, n) = Step(h, n)
    <3>1. n # 0 => n - 1 \in 0 .. m
      OBVIOUS
    <3> QED
      BY <2>1, <3>1
  <2> HIDE DEF Step
  <2>2. ASSUME NEW g, Replays(g, m)
        PROVE  Replays([n \in 0 .. m + 1 |-> Step(g, n)], m + 1)
    <3> DEFINE h == [n \in 0 .. m + 1 |-> Step(g, n)]
    <3>1. \A n \in 0 .. m : h[n] = g[n]
      BY <2>2
    <3>2. \A n \in 0 .. m + 1 : Step(g, n) = Step(h, n)
      BY <2>1, <3>1
    <3> QED
      BY <3>2
  <2>3. ASSUME NEW h, Replays(h, m + 1), NEW n \in 0 .. m + 1
        PROVE  Right(h[n], n)
    <3> DEFINE g == [k \in 0 .. m |-> h[k]]
    <3>1. \A k \in 0 .. m : g[k] = h[k]
      OBVIOUS
    <3>2. \A k \in 0 .. m + 1 : h[k] = Step(h, k)
      BY <2>3
    <3>3. Replays(g, m)
      <4>1. \A k \in 0 .. m : k \in 0 .. m + 1
        OBVIOUS
      <4>2. \A k \in 0 .. m : h[k] = Step(g, k)
        BY <4>1, <3>1, <3>2, <2>1
      <4> QED
        BY <4>2
    <3>4. \A k \in 0 .. m : Right(h[k], k)
      BY <3>1, <3>3, <1>4
    <3>5. Right(h[m], m)
      BY <3>4
    <3>6. h[m + 1] = Applied(h[m], r, log[r][m + 1])
      BY <3>2 DEF Step
    <3>7. Right(h[m + 1], m + 1)
      BY <3>5, <3>6, <1>4, <1>1, AppliedShows
    <3> HIDE DEF Right
    <3> QED
      BY <3>4, <3>7
  <2> HIDE DEF Right
  <2> QED
    BY <2>2, <2>3, <1>4
<1> HIDE DEF Good
<1>5. Good(N)
  <2> DEFINE Bad == {n \in 0 .. N : ~ Good(n)}
             R == OpToRel(<, Nat)
  <2>1. CASE Bad = {}
    BY <2>1, <1>1
  <2>2. CASE Bad # {}
    <3>1. \E x \in Bad : \A y \in Bad : ~ (<<y, x>> \in R)
      <4>1. Bad \subseteq Nat
        BY <1>1
      <4> QED
        BY <4>1, <2>2, NatLessThanWellFounded, WFMin
    <3>2. R = {pair \in Nat \X Nat : pair[1] < pair[2]}
      BY DEF OpToRel
    <3> HIDE DEF R
    <3>3. PICK x \in Bad : \A y \in Bad : ~ (<<y, x>> \in R)
      BY <3>1
    <3>4. x \in Nat /\ x # 0 /\ x <= N
      BY <1>1, <1>3
    <3>5. x - 1 \in Nat /\ <<x - 1, x>> \in R /\ x - 1 \in 0 .. N
      BY <3>2, <3>4, <1>1
    <3>6. Good(x - 1)
      BY <3>3, <3>5
    <3>7. Good((x - 1) + 1)
      BY <3>4, <3>5, <3>6, <1>1, <1>4
    <3> QED
      BY <3>4, <3>7
  <2> QED
    BY <2>1, <2>2
<1>6. \E g : Replays(g, N)
  BY <1>5 DEF Good
<1> DEFINE Replay == CHOOSE g : Replays(g, N)
<1>7. Replays(Replay, N)
  BY <1>6
<1>8. Hydrated(r) = Replay[N]
  BY DEF Hydrated
<1> HIDE DEF Replay, Step
<1>9. Right(Replay[N], N)
  <2>1. N \in 0 .. N
    BY <1>1
  <2> HIDE DEF Right
  <2>2. \A n \in 0 .. N : Right(Replay[n], n)
    BY <1>5, <1>7 DEF Good
  <2> QED
    BY <2>1, <2>2
<1> QED
  BY <1>8, <1>9

-----------------------------------------------------------------------------
(* One stream changes, and the page keeps the conversation it has selected.  *)
LEMMA StreamMoves ==
  ASSUME ViewInv, NEW s \in Streams, NEW x \in {Closed, Looking} \cup OpenStreams,
         streams' = [streams EXCEPT ![s] = x],
         page.chat # NoChat => page'.chat # NoChat,
         x \notin {Closed, Looking} =>
           /\ x.chat # NoChat => page'.chat # NoChat
           /\ x.run # NoRun \/ x.resumes => x.chat # NoChat
  PROVE  /\ streams' \in [Streams -> {Closed, Looking} \cup OpenStreams]
         /\ \A t \in Streams : StreamFits(t)'
<1>1. streams \in [Streams -> {Closed, Looking} \cup OpenStreams] /\ \A t \in Streams : StreamFits(t)
  BY DEF ViewInv
<1>2. streams'[s] = x /\ \A t \in Streams \ {s} : streams'[t] = streams[t]
  BY <1>1
<1>3. StreamFits(s)'
  BY <1>2 DEF StreamFits, Open
<1>4. ASSUME NEW t \in Streams \ {s}
      PROVE  StreamFits(t)'
  <2> HIDE DEF Closed, Looking, OpenStreams
  <2> QED
    BY <1>1, <1>2, <1>4 DEF StreamFits, Open
<1> QED
  BY <1>1, <1>3, <1>4

LEMMA StreamsRest ==
  ASSUME ViewInv, UNCHANGED streams, page.chat # NoChat => page'.chat # NoChat
  PROVE  /\ streams' \in [Streams -> {Closed, Looking} \cup OpenStreams]
         /\ \A t \in Streams : StreamFits(t)'
BY DEF ViewInv, StreamFits, Open

(* What an open stream is. *)
LEMMA OpenIsOpen ==
  ASSUME ViewInv, NEW s \in Streams, Open(s)
  PROVE  /\ streams[s] \in OpenStreams
         /\ streams[s].chat # NoChat => page.chat # NoChat
         /\ streams[s].run # NoRun \/ streams[s].resumes => streams[s].chat # NoChat
BY DEF ViewInv, StreamFits, Open

LEMMA ViewInvInit == ViewAssumption /\ ViewInit => ViewInv
<1> SUFFICES ASSUME ViewAssumption, ViewInit
             PROVE  ViewInv
  OBVIOUS
<1>1. LogsFit
  <2>1. <<>> \in Seq(Kinds) /\ Len(<<>>) = 0
    OBVIOUS
  <2> QED
    BY <2>1 DEF ViewInit, LogsFit, LogFits, Legal, ViewAssumption
<1>2. Shows(view, log)
  BY FreshShows DEF ViewInit
<1>3. streams \in [Streams -> {Closed, Looking} \cup OpenStreams] /\ \A s \in Streams : StreamFits(s)
  BY DEF ViewInit, StreamFits, Open
<1>4. PageFits /\ PendingFits
  BY DEF ViewInit, PageFits, PendingFits, FreshView
<1> QED
  BY <1>1, <1>2, <1>3, <1>4 DEF ViewInv

LEMMA FollowsLegally ==
  ASSUME ViewAssumption, LogsFit, NEW r \in ViewedRuns, NEW kind \in Follows(log[r])
  PROVE  /\ kind \in Kinds
         /\ log[r] # <<>> => /\ LastKind(log[r]) \notin Ending
                             /\ LastKind(log[r]) = "run_waiting" => kind \in {"run_resumed", "run_failed"}
<1>1. log[r] \in Seq(Kinds)
  BY DEF LogsFit
<1>2. log[r] # <<>> => LastKind(log[r]) \in Kinds
  BY <1>1, LastIsLast
<1> QED
  BY <1>2, NoneIsNoKind DEF Follows, Kinds, Moving, Silent, Ending

LEMMA RunAppendsKeeps ==
  ASSUME ViewAssumption, ViewInv, NEW r \in ViewedRuns, RunAppends(r)
  PROVE  ViewInv'
<1>1. PICK kind \in Follows(log[r]) : log' = [log EXCEPT ![r] = Append(@, kind)]
  BY DEF RunAppends
<1>2. Len(log[r]) < MaxEvents[r] /\ UNCHANGED <<view, page, saved, streams, recoveries, cancels>>
  BY DEF RunAppends, client_vars, pending_vars
<1>3. LogsFit' /\ \A v : Shows(v, log) => Shows(v, log')
  BY <1>1, <1>2, FollowsLegally, LogAppends DEF ViewInv
<1>4. Shows(view', log')
  BY <1>2, <1>3 DEF ViewInv
<1>5. PageFits' /\ PendingFits'
  BY <1>2 DEF ViewInv, PageFits, PendingFits
<1> QED
  BY <1>2, <1>3, <1>4, <1>5, StreamsRest DEF ViewInv

LEMMA SendKeeps ==
  ASSUME ViewAssumption, ViewInv, NEW s \in Streams, Send(s)
  PROVE  ViewInv'
<1> DEFINE x == [run |-> NoRun, chat |-> page.chat, captured |-> page.chat, next |-> 1,
                 resumes |-> FALSE]
<1>1. UNCHANGED <<log, saved, recoveries, cancels>> /\ view' = FreshView
      /\ page' = [page EXCEPT !.loading = TRUE]
      /\ streams' = [streams EXCEPT ![s] = x]
  BY DEF Send, pending_vars, Dispatches, OpenStream
<1>2. page \in Pages
  BY DEF ViewInv, PageFits
<1>3. x \in OpenStreams /\ page'.chat = page.chat
  BY <1>1, <1>2 DEF OpenStreams
<1>4. /\ streams' \in [Streams -> {Closed, Looking} \cup OpenStreams]
      /\ \A t \in Streams : StreamFits(t)'
  BY <1>1, <1>3, StreamMoves
<1>5. LogsFit' /\ Shows(view', log')
  BY <1>1, FreshShows DEF ViewInv, LogsFit, LogFits, Legal
<1>6. PageFits' /\ PendingFits'
  BY <1>1, <1>2, FreshShows DEF ViewInv, PageFits, PendingFits
<1> QED
  BY <1>4, <1>5, <1>6 DEF ViewInv

LEMMA ConversationCreatedKeeps ==
  ASSUME ViewAssumption, ViewInv, NEW s \in Streams, NEW chat \in Chats,
         ConversationCreated(s, chat)
  PROVE  ViewInv'
<1> DEFINE x == [streams[s] EXCEPT !.chat = chat]
<1>1. UNCHANGED <<log, view, saved, recoveries, cancels>> /\ page' = [page EXCEPT !.chat = chat]
      /\ streams' = [streams EXCEPT ![s] = x]
  BY DEF ConversationCreated, pending_vars
<1>2. streams[s] \in OpenStreams
  BY OpenIsOpen DEF ConversationCreated
<1>3. x \in OpenStreams /\ x.chat = chat /\ page'.chat = chat /\ chat # NoChat
  BY <1>1, <1>2 DEF OpenStreams, ViewAssumption, ViewInv, PageFits
<1>4. /\ streams' \in [Streams -> {Closed, Looking} \cup OpenStreams]
      /\ \A t \in Streams : StreamFits(t)'
  BY <1>1, <1>3, StreamMoves
<1>5. LogsFit' /\ Shows(view', log')
  BY <1>1 DEF ViewInv, LogsFit, LogFits, Legal
<1>6. PageFits' /\ PendingFits'
  BY <1>1, <1>3 DEF ViewInv, PageFits, PendingFits
<1> QED
  BY <1>4, <1>5, <1>6 DEF ViewInv

LEMMA RunStartsKeeps ==
  ASSUME ViewAssumption, ViewInv, NEW s \in Streams, NEW r \in ViewedRuns, RunStarts(s, r)
  PROVE  ViewInv'
<1> DEFINE x == [streams[s] EXCEPT !.run = r]
<1>1. PICK kind \in Follows(<<>>) : log' = [log EXCEPT ![r] = <<kind>>]
  BY DEF RunStarts
<1>2. UNCHANGED <<view, page, saved, recoveries, cancels>> /\ log[r] = <<>>
      /\ streams' = [streams EXCEPT ![s] = x] /\ Open(s) /\ streams[s].chat # NoChat
  BY DEF RunStarts, pending_vars, client_vars
<1>3. streams[s] \in OpenStreams /\ page.chat # NoChat
  BY <1>2, OpenIsOpen
<1>4. x \in OpenStreams /\ x.chat = streams[s].chat
  BY <1>3 DEF OpenStreams
<1>5. /\ streams' \in [Streams -> {Closed, Looking} \cup OpenStreams]
      /\ \A t \in Streams : StreamFits(t)'
  BY <1>2, <1>3, <1>4, StreamMoves
<1>6. log' = [log EXCEPT ![r] = Append(@, kind)] /\ Len(log[r]) = 0
  <2>1. Append(<<>>, kind) = <<kind>>
    OBVIOUS
  <2> QED
    BY <1>1, <1>2, <2>1
<1>7. LogsFit' /\ \A v : Shows(v, log) => Shows(v, log')
  <2>1. LogsFit /\ kind \in Follows(log[r]) /\ Len(log[r]) < MaxEvents[r]
    BY <1>1, <1>2, <1>6 DEF ViewInv, ViewAssumption
  <2>2. kind \in Kinds
    BY <2>1, FollowsLegally
  <2> QED
    BY <1>2, <1>6, <2>1, <2>2, LogAppends
<1>8. Shows(view', log')
  BY <1>2, <1>7 DEF ViewInv
<1>9. PageFits' /\ PendingFits'
  BY <1>2 DEF ViewInv, PageFits, PendingFits
<1> QED
  BY <1>5, <1>7, <1>8, <1>9 DEF ViewInv

LEMMA ResumeKeeps ==
  ASSUME ViewAssumption, ViewInv, NEW s \in Streams, Resume(s)
  PROVE  ViewInv'
<1> DEFINE x == [run |-> view.run, chat |-> page.chat, captured |-> page.chat,
                 next |-> Len(view.events) + 1, resumes |-> TRUE]
           going == [view EXCEPT !.status = "resuming"]
<1>1. UNCHANGED <<log, saved, recoveries, cancels>> /\ view.run # NoRun
      /\ view' = (IF view.status = "waiting" THEN going ELSE view)
      /\ page' = [page EXCEPT !.loading = TRUE]
      /\ streams' = [streams EXCEPT ![s] = x]
  BY DEF Resume, pending_vars, Dispatches, OpenStream
<1>2. page \in Pages /\ page.chat # NoChat
  BY <1>1 DEF ViewInv, PageFits
<1>3. Shows(view, log) /\ view \in Views
  BY DEF ViewInv, Shows
<1>4. x \in OpenStreams /\ page'.chat = page.chat /\ x.chat # NoChat
  BY <1>1, <1>2, <1>3 DEF OpenStreams, Views
<1>5. /\ streams' \in [Streams -> {Closed, Looking} \cup OpenStreams]
      /\ \A t \in Streams : StreamFits(t)'
  BY <1>1, <1>4, StreamMoves
<1>6. Shows(going, log) /\ "resuming" \in Statuses \ {"waiting", "completed"}
  BY <1>3, EndedShows DEF Statuses, Blocking
<1>7. LogsFit' /\ Shows(view', log')
  BY <1>1, <1>3, <1>6 DEF ViewInv, LogsFit, LogFits, Legal
<1>8. PageFits' /\ PendingFits'
  BY <1>1, <1>2, <1>4 DEF ViewInv, PageFits, PendingFits
<1> QED
  BY <1>5, <1>7, <1>8 DEF ViewInv

LEMMA RunResumesKeeps ==
  ASSUME ViewAssumption, ViewInv, NEW s \in Streams, RunResumes(s)
  PROVE  ViewInv'
<1> DEFINE r == streams[s].run
<1>1. /\ r \in ViewedRuns /\ log' = [log EXCEPT ![r] = Append(@, "run_resumed")]
      /\ LastKind(log[r]) = "run_waiting" /\ Len(log[r]) < MaxEvents[r]
      /\ UNCHANGED <<view, page, saved, streams, recoveries, cancels>>
  BY OpenIsOpen DEF RunResumes, ReadsRun, OpenStreams, client_vars, pending_vars
<1>2. "run_resumed" \in Kinds /\ "run_waiting" \notin Ending
  BY DEF Kinds, Ending
<1>3. LogsFit' /\ \A v : Shows(v, log) => Shows(v, log')
  BY <1>1, <1>2, LogAppends DEF ViewInv
<1>4. Shows(view', log')
  BY <1>1, <1>3 DEF ViewInv
<1>5. PageFits' /\ PendingFits'
  BY <1>1 DEF ViewInv, PageFits, PendingFits
<1> QED
  BY <1>1, <1>3, <1>4, <1>5, StreamsRest DEF ViewInv

(* A stream's next event is shown only if it is the view's next one.         *)
LEMMA DeliveredKeeps ==
  ASSUME ViewAssumption, ViewInv, NEW s \in Streams, Delivered(s)
  PROVE  ViewInv'
<1> DEFINE r == streams[s].run
           q == streams[s].next
           x == [streams[s] EXCEPT !.next = @ + 1]
<1>1. /\ Open(s) /\ r # NoRun /\ Len(log[r]) >= q
      /\ view' = IF page.stands /\ IsNext(view, r, q) THEN Applied(view, r, log[r][q]) ELSE view
      /\ page' = [page EXCEPT
           !.stands = @ /\ (IsNext(view, r, q) \/ IsReplay(view, r, q)),
           !.run = IF Event(s) = "run_started" THEN r ELSE @]
      /\ saved' = CASE Event(s) = "run_started" -> [saved EXCEPT ![streams[s].chat] = r]
                    [] Event(s) \in Ending -> [saved EXCEPT ![streams[s].chat] = NoRun]
                    [] OTHER -> saved
      /\ streams' = [streams EXCEPT ![s] = x]
      /\ UNCHANGED <<log, recoveries, cancels>>
  BY DEF Delivered, ReadsRun, Sees, Event, pending_vars
<1>2. streams[s] \in OpenStreams /\ page.chat # NoChat /\ streams[s].chat # NoChat
  BY <1>1, OpenIsOpen
<1>3. r \in ViewedRuns /\ q \in Nat \ {0} /\ x \in OpenStreams /\ x.chat = streams[s].chat
  BY <1>1, <1>2 DEF OpenStreams
<1>4. page \in Pages
  BY DEF ViewInv, PageFits
<1>5. page'.chat = page.chat /\ page' \in Pages
  <2> DEFINE stands == page.stands /\ (IsNext(view, r, q) \/ IsReplay(view, r, q))
             active == IF Event(s) = "run_started" THEN r ELSE page.run
  <2>1. page' = [page EXCEPT !.stands = stands, !.run = active]
    BY <1>1
  <2>2. stands \in BOOLEAN /\ active \in ViewedRuns \cup {NoRun}
    BY <1>3, <1>4
  <2> HIDE DEF stands, active
  <2> QED
    BY <2>1, <2>2, <1>4
<1>6. /\ streams' \in [Streams -> {Closed, Looking} \cup OpenStreams]
      /\ \A t \in Streams : StreamFits(t)'
  BY <1>1, <1>2, <1>3, <1>5, StreamMoves
<1>7. Shows(view, log) /\ LogsFit /\ Len(log[r]) \in Nat /\ Len(view.events) \in Nat
  BY <1>3 DEF ViewInv, Shows, Views, LogsFit, LogFits
<1>8. Shows(view', log)
  <2>1. CASE page.stands /\ IsNext(view, r, q)
    BY <2>1, <1>1, <1>3, <1>7, AppliedShows DEF IsNext
  <2>2. CASE ~ (page.stands /\ IsNext(view, r, q))
    BY <2>2, <1>1, <1>7
  <2> QED
    BY <2>1, <2>2
<1>9. LogsFit' /\ Shows(view', log')
  BY <1>1, <1>7, <1>8 DEF LogsFit, LogFits, Legal
<1>10. PageFits'
  BY <1>2, <1>5 DEF PageFits
<1>11. PendingFits'
  <2>1. saved' \in [Chats -> ViewedRuns \cup {NoRun}]
    BY <1>1, <1>3 DEF ViewInv, PendingFits
  <2> QED
    BY <2>1, <1>1 DEF ViewInv, PendingFits
<1> QED
  BY <1>6, <1>9, <1>10, <1>11 DEF ViewInv

LEMMA StreamEndsKeeps ==
  ASSUME ViewAssumption, ViewInv, NEW s \in Streams, StreamEnds(s)
  PROVE  ViewInv'
<1> DEFINE active == IF LastKind(log[streams[s].run]) # "run_waiting" THEN NoRun
                     ELSE IF streams[s].resumes THEN page.run ELSE streams[s].run
<1>1. UNCHANGED <<log, view, saved, recoveries, cancels>> /\ Open(s)
      /\ page' = [page EXCEPT !.loading = FALSE, !.run = active]
      /\ streams' = [streams EXCEPT ![s] = Closed]
  BY DEF StreamEnds, AtEnd, ReadsRun, OpenStream, pending_vars
<1>2. page \in Pages
  BY DEF ViewInv, PageFits
<1>3. active \in ViewedRuns \cup {NoRun}
  BY <1>1, <1>2, OpenIsOpen DEF OpenStreams
<1> HIDE DEF active
<1>4. page'.chat = page.chat /\ page' \in Pages
  BY <1>1, <1>2, <1>3
<1>5. /\ streams' \in [Streams -> {Closed, Looking} \cup OpenStreams]
      /\ \A t \in Streams : StreamFits(t)'
  BY <1>1, <1>4, StreamMoves
<1>6. LogsFit' /\ Shows(view', log')
  BY <1>1 DEF ViewInv, LogsFit, LogFits, Legal
<1>7. PageFits' /\ PendingFits'
  BY <1>1, <1>4 DEF ViewInv, PageFits, PendingFits
<1> QED
  BY <1>5, <1>6, <1>7 DEF ViewInv

LEMMA StreamFailsKeeps ==
  ASSUME ViewAssumption, ViewInv, NEW s \in Streams, StreamFails(s)
  PROVE  ViewInv'
<1>1. UNCHANGED <<log, recoveries, cancels>> /\ Open(s)
      /\ view' = (IF page.stands THEN Ended(view) ELSE view)
      /\ streams' = [streams EXCEPT ![s] = Closed]
      /\ saved' = (IF streams[s].captured = NoChat THEN saved
                   ELSE [saved EXCEPT ![streams[s].captured] = NoRun])
  BY DEF StreamFails, Dispatches, OpenStream, pending_vars
<1>2. PICK r \in {NoRun} \cup (IF AtEnd(s) THEN {streams[s].run} ELSE {}) :
        page' = [page EXCEPT !.loading = FALSE, !.run = r]
  BY DEF StreamFails
<1>3. page \in Pages /\ r \in ViewedRuns \cup {NoRun}
  BY <1>1, OpenIsOpen DEF ViewInv, PageFits, OpenStreams
<1>4. page'.chat = page.chat /\ page' \in Pages
  BY <1>2, <1>3
<1>5. /\ streams' \in [Streams -> {Closed, Looking} \cup OpenStreams]
      /\ \A t \in Streams : StreamFits(t)'
  BY <1>1, <1>4, StreamMoves
<1>6. Shows(view, log) /\ Shows(Ended(view), log) /\ Ended(view).run = view.run
  BY EndedShows DEF ViewInv, Ended, Statuses
<1>7. LogsFit' /\ Shows(view', log') /\ view'.run = view.run
  BY <1>1, <1>6 DEF ViewInv, LogsFit, LogFits, Legal
<1>8. saved' \in [Chats -> ViewedRuns \cup {NoRun}]
  BY <1>1 DEF ViewInv, PendingFits
<1>9. PageFits' /\ PendingFits'
  BY <1>1, <1>4, <1>7, <1>8 DEF ViewInv, PageFits, PendingFits
<1> QED
  BY <1>5, <1>7, <1>9 DEF ViewInv

LEMMA ResumeFailsKeeps ==
  ASSUME ViewAssumption, ViewInv, NEW s \in Streams, ResumeFails(s)
  PROVE  ViewInv'
<1> DEFINE chat == streams[s].chat
           r == saved[chat]
<1>1. UNCHANGED <<log, saved, cancels>> /\ Open(s) /\ streams[s].resumes
  BY DEF ResumeFails
<1>2. streams[s] \in OpenStreams /\ chat \in Chats /\ page.chat # NoChat
      /\ r \in ViewedRuns \cup {NoRun}
  BY <1>1, OpenIsOpen DEF OpenStreams, ViewInv, PendingFits
<1>3. page \in Pages /\ LogsFit' /\ Shows(view, log)
  BY <1>1 DEF ViewInv, PageFits, LogsFit, LogFits, Legal
<1>4. CASE r = NoRun
  <2>1. view' = (IF page.stands THEN FreshView ELSE view)
        /\ page' = [page EXCEPT !.loading = FALSE, !.run = NoRun]
        /\ streams' = [streams EXCEPT ![s] = Closed] /\ UNCHANGED recoveries
    BY <1>4 DEF ResumeFails, Dispatches, OpenStream
  <2>2. page'.chat = page.chat /\ page' \in Pages
    BY <2>1, <1>3
  <2>3. /\ streams' \in [Streams -> {Closed, Looking} \cup OpenStreams]
        /\ \A t \in Streams : StreamFits(t)'
    BY <2>1, <2>2, StreamMoves
  <2>4. Shows(view', log')
    BY <2>1, <1>1, <1>3, FreshShows
  <2>5. PageFits' /\ PendingFits'
    BY <1>1, <1>2, <2>1, <2>2 DEF ViewInv, PageFits, PendingFits
  <2> QED
    BY <1>3, <2>3, <2>4, <2>5 DEF ViewInv
<1>5. CASE r # NoRun
  <2>1. view' = (IF page.stands THEN Ended(view) ELSE view)
        /\ recoveries' = recoveries \cup {<<chat, r, s>>}
        /\ streams' = [streams EXCEPT ![s] = Looking] /\ UNCHANGED page
    BY <1>5 DEF ResumeFails, Dispatches, OpenStream
  <2>2. /\ streams' \in [Streams -> {Closed, Looking} \cup OpenStreams]
        /\ \A t \in Streams : StreamFits(t)'
    BY <2>1, StreamMoves
  <2>3. Shows(Ended(view), log)
    BY <1>3, EndedShows DEF Ended, Statuses
  <2>4. Shows(view', log')
    BY <2>1, <2>3, <1>1, <1>3
  <2>5. <<chat, r, s>> \in Chats \X ViewedRuns \X (Streams \cup {Page})
    BY <1>2, <1>5
  <2>6. PageFits' /\ PendingFits'
    BY <1>1, <1>2, <2>1, <2>5 DEF ViewInv, PageFits, PendingFits
  <2> QED
    BY <1>3, <2>2, <2>4, <2>6 DEF ViewInv
<1> QED
  BY <1>4, <1>5

LEMMA SelectKeeps ==
  ASSUME ViewAssumption, ViewInv, NEW chat \in Chats, Select(chat)
  PROVE  ViewInv'
<1> DEFINE active == IF saved[chat] = NoRun THEN NoRun ELSE page.run
<1>1. UNCHANGED <<log, saved, streams, cancels>> /\ view' = FreshView
      /\ page' = [page EXCEPT !.chat = chat, !.run = active]
      /\ recoveries' = recoveries \cup
            (IF saved[chat] = NoRun THEN {} ELSE {<<chat, saved[chat], Page>>})
  BY DEF Select, Recovers
<1>2. page \in Pages /\ LogsFit' /\ active \in ViewedRuns \cup {NoRun}
      /\ saved[chat] \in ViewedRuns \cup {NoRun}
  BY <1>1 DEF ViewInv, PageFits, PendingFits, LogsFit, LogFits, Legal
<1> HIDE DEF active
<1>3. page'.chat = chat /\ page' \in Pages /\ chat # NoChat
  BY <1>1, <1>2 DEF ViewAssumption
<1>4. saved[chat] # NoRun =>
        <<chat, saved[chat], Page>> \in Chats \X ViewedRuns \X (Streams \cup {Page})
  BY <1>2
<1>5. PageFits' /\ PendingFits'
  BY <1>1, <1>3, <1>4 DEF ViewInv, PageFits, PendingFits
<1> QED
  BY <1>1, <1>2, <1>3, <1>5, StreamsRest, FreshShows DEF ViewInv

(* After a lookup, the stream that waited for it, if one did, is closed.     *)
LEMMA LookedUpKeeps ==
  ASSUME ViewAssumption, ViewInv, NEW chat, NEW r, NEW by, LookedUp(chat, r, by),
         page'.chat = page.chat
  PROVE  /\ streams' \in [Streams -> {Closed, Looking} \cup OpenStreams]
         /\ \A t \in Streams : StreamFits(t)'
         /\ recoveries' \subseteq Chats \X ViewedRuns \X (Streams \cup {Page})
         /\ page.chat # NoChat
<1>1. <<chat, r, by>> \in recoveries /\ recoveries' = recoveries \ {<<chat, r, by>>}
      /\ streams' = [s \in Streams |-> IF s = by THEN Closed ELSE streams[s]]
  BY DEF LookedUp
<1>2. streams \in [Streams -> {Closed, Looking} \cup OpenStreams]
  BY DEF ViewInv
<1> HIDE DEF Closed, Looking, OpenStreams
<1>3. ASSUME NEW t \in Streams
      PROVE  StreamFits(t)'
  <2>1. streams'[t] = Closed \/ streams'[t] = streams[t]
    BY <1>1
  <2> QED
    BY <2>1 DEF StreamFits, Open, ViewInv
<1> QED
  BY <1>1, <1>2, <1>3 DEF ViewInv, PendingFits, PageFits

LEMMA RecoveredKeeps ==
  ASSUME ViewAssumption, ViewInv, NEW chat \in Chats, NEW r \in ViewedRuns, NEW by,
         Recovered(chat, r, by)
  PROVE  ViewInv'
<1> DEFINE live == Hydrated(r).status \in Blocking
           loading == page.loading /\ by = Page
<1>1. UNCHANGED <<log, cancels>> /\ LookedUp(chat, r, by)
      /\ view' = (IF page.stands THEN Hydrated(r) ELSE view)
      /\ saved' = IF live THEN saved ELSE [saved EXCEPT ![chat] = NoRun]
  BY DEF Recovered, Dispatches
<1>2. PICK active \in {r, NoRun} : page' = [page EXCEPT !.run = active, !.loading = loading]
  BY DEF Recovered
<1>3. page \in Pages /\ LogsFit /\ LogsFit' /\ Shows(view, log)
  BY <1>1 DEF ViewInv, PageFits, LogsFit, LogFits, Legal
<1>4. loading \in BOOLEAN
  OBVIOUS
<1> HIDE DEF loading, live
<1>5. page'.chat = page.chat /\ page' \in Pages
  BY <1>2, <1>3, <1>4
<1>6. /\ streams' \in [Streams -> {Closed, Looking} \cup OpenStreams]
      /\ \A t \in Streams : StreamFits(t)'
      /\ recoveries' \subseteq Chats \X ViewedRuns \X (Streams \cup {Page})
      /\ page.chat # NoChat
  BY <1>1, <1>5, LookedUpKeeps
<1>7. Shows(view', log')
  BY <1>1, <1>3, HydratedShows
<1>8. saved' \in [Chats -> ViewedRuns \cup {NoRun}]
  BY <1>1 DEF ViewInv, PendingFits
<1>9. PageFits' /\ PendingFits'
  BY <1>1, <1>5, <1>6, <1>8 DEF ViewInv, PageFits, PendingFits
<1> QED
  BY <1>3, <1>6, <1>7, <1>9 DEF ViewInv

LEMMA RecoveryFailsKeeps ==
  ASSUME ViewAssumption, ViewInv, NEW chat \in Chats, NEW r \in ViewedRuns, NEW by,
         RecoveryFails(chat, r, by)
  PROVE  ViewInv'
<1>1. UNCHANGED <<log, view, saved, cancels>> /\ LookedUp(chat, r, by)
      /\ page' = IF by = Page THEN page ELSE [page EXCEPT !.run = NoRun, !.loading = FALSE]
  BY DEF RecoveryFails
<1>2. page \in Pages /\ LogsFit' /\ Shows(view', log')
  BY <1>1 DEF ViewInv, PageFits, LogsFit, LogFits, Legal
<1>3. page'.chat = page.chat /\ page' \in Pages
  BY <1>1, <1>2
<1>4. /\ streams' \in [Streams -> {Closed, Looking} \cup OpenStreams]
      /\ \A t \in Streams : StreamFits(t)'
      /\ recoveries' \subseteq Chats \X ViewedRuns \X (Streams \cup {Page})
      /\ page.chat # NoChat
  BY <1>1, <1>3, LookedUpKeeps
<1>5. PageFits' /\ PendingFits'
  BY <1>1, <1>3, <1>4 DEF ViewInv, PageFits, PendingFits
<1> QED
  BY <1>2, <1>4, <1>5 DEF ViewInv

LEMMA ReloadKeeps ==
  ASSUME ViewAssumption, ViewInv, NEW chat \in Chats, Reload(chat)
  PROVE  ViewInv'
<1>1. UNCHANGED <<log, saved>> /\ view' = FreshView /\ cancels' = {}
      /\ page' = [chat |-> chat, loading |-> FALSE, run |-> NoRun, stands |-> TRUE]
      /\ streams' = [s \in Streams |-> Closed]
      /\ recoveries' = IF saved[chat] = NoRun THEN {} ELSE {<<chat, saved[chat], Page>>}
  BY DEF Reload
<1>2. saved[chat] # NoRun =>
        <<chat, saved[chat], Page>> \in Chats \X ViewedRuns \X (Streams \cup {Page})
  BY DEF ViewInv, PendingFits
<1>3. LogsFit' /\ Shows(view', log')
  BY <1>1, FreshShows DEF ViewInv, LogsFit, LogFits, Legal
<1>4. streams' \in [Streams -> {Closed, Looking} \cup OpenStreams]
      /\ \A s \in Streams : StreamFits(s)'
  BY <1>1 DEF StreamFits, Open
<1>5. PageFits' /\ PendingFits'
  BY <1>1, <1>2 DEF ViewInv, PageFits, PendingFits, ViewAssumption
<1> QED
  BY <1>3, <1>4, <1>5 DEF ViewInv

LEMMA CancelKeeps ==
  ASSUME ViewAssumption, ViewInv, Cancel
  PROVE  ViewInv'
<1> DEFINE r == IF page.run # NoRun THEN page.run ELSE view.run
<1>1. UNCHANGED <<log, view, page, saved, streams, recoveries>> /\ cancels' = {<<page.chat, r>>}
      /\ r # NoRun
  BY DEF Cancel, client_vars
<1>2. page \in Pages /\ view.run \in ViewedRuns \cup {NoRun}
  BY DEF ViewInv, PageFits, Shows, Views
<1>3. <<page.chat, r>> \in (Chats \cup {NoChat}) \X ViewedRuns
  BY <1>1, <1>2
<1>4. LogsFit' /\ Shows(view', log')
  BY <1>1 DEF ViewInv, LogsFit, LogFits, Legal
<1>5. PageFits' /\ PendingFits'
  BY <1>1, <1>3 DEF ViewInv, PageFits, PendingFits
<1> QED
  BY <1>1, <1>4, <1>5, StreamsRest DEF ViewInv

LEMMA RunCancelledKeeps ==
  ASSUME ViewAssumption, ViewInv, NEW chat \in Chats \cup {NoChat}, NEW r \in ViewedRuns,
         RunCancelled(chat, r)
  PROVE  ViewInv'
<1>1. UNCHANGED <<streams, recoveries>> /\ cancels' = cancels \ {<<chat, r>>}
  BY DEF RunCancelled
<1>2. page \in Pages /\ Shows(view, log)
  BY DEF ViewInv, PageFits
<1>3. CASE log[r] = <<>> \/ Over(r)
  <2>1. UNCHANGED <<log, view, page, saved>>
    BY <1>3 DEF RunCancelled, client_vars
  <2>2. LogsFit' /\ Shows(view', log')
    BY <2>1 DEF ViewInv, LogsFit, LogFits, Legal
  <2>3. PageFits' /\ PendingFits'
    BY <1>1, <2>1 DEF ViewInv, PageFits, PendingFits
  <2> QED
    BY <1>1, <2>1, <2>2, <2>3, StreamsRest DEF ViewInv
<1>4. CASE ~ (log[r] = <<>> \/ Over(r))
  <2>1. /\ log' = [log EXCEPT ![r] = Append(@, "run_failed")]
        /\ view' = (IF page.stands THEN Ended(view) ELSE view)
        /\ saved' = IF chat = NoChat THEN saved ELSE [saved EXCEPT ![chat] = NoRun]
        /\ page' = [page EXCEPT !.run = NoRun, !.loading = FALSE]
    BY <1>4 DEF RunCancelled, Dispatches
  <2>2. page'.chat = page.chat /\ page' \in Pages
    BY <2>1, <1>2
  <2>3. "run_failed" \in Kinds /\ "run_failed" \in Ending /\ LastKind(log[r]) \notin Ending
    BY <1>4 DEF Kinds, Ending, Over
  <2>4. LogsFit' /\ \A v : Shows(v, log) => Shows(v, log')
    BY <2>1, <2>3, LogAppends DEF ViewInv
  <2>5. Shows(Ended(view), log) /\ Ended(view).run = view.run
    BY <1>2, EndedShows DEF Ended, Statuses
  <2>6. Shows(view', log') /\ view'.run = view.run
    BY <2>1, <2>4, <2>5, <1>2
  <2>7. saved' \in [Chats -> ViewedRuns \cup {NoRun}]
    BY <2>1 DEF ViewInv, PendingFits
  <2>8. PageFits' /\ PendingFits'
    BY <1>1, <2>2, <2>6, <2>7 DEF ViewInv, PageFits, PendingFits
  <2> QED
    BY <1>1, <2>2, <2>4, <2>6, <2>8, StreamsRest DEF ViewInv
<1> QED
  BY <1>3, <1>4

-----------------------------------------------------------------------------
LEMMA ViewInvStep == ViewAssumption /\ ViewInv /\ [ViewNext]_view_vars => ViewInv'
<1> SUFFICES ASSUME ViewAssumption, ViewInv, [ViewNext]_view_vars
             PROVE  ViewInv'
  OBVIOUS
<1>1. CASE UNCHANGED view_vars
  BY <1>1 DEF view_vars, client_vars, pending_vars, ViewInv, LogsFit, LogFits, Legal, Shows,
              StreamFits, Open, PageFits, PendingFits
<1>2. CASE ViewNext
  BY <1>2, RunAppendsKeeps, SendKeeps, ConversationCreatedKeeps, RunStartsKeeps, ResumeKeeps,
     RunResumesKeeps, DeliveredKeeps, StreamEndsKeeps, StreamFailsKeeps, ResumeFailsKeeps,
     SelectKeeps, ReloadKeeps, RecoveredKeeps, RecoveryFailsKeeps, CancelKeeps,
     RunCancelledKeeps DEF ViewNext
<1> QED
  BY <1>1, <1>2

(* The invariant of the page: whatever is open or pending, it shows one run. *)
THEOREM ViewInvariant == ViewSpec => []ViewInv
<1>1. ViewAssumption
  BY ViewAssumption
<1> QED
  BY <1>1, ViewInvInit, ViewInvStep, PTL DEF ViewSpec

(* ViewTypeOK: the log, the view, the page and what is pending keep their    *)
(* values; no cancellation makes a log longer than its bound and one event.  *)
THEOREM ViewTypesHold == ViewSpec => []ViewTypeOK
<1>1. ViewInv => ViewTypeOK
  <2> SUFFICES ASSUME ViewInv
               PROVE  ViewTypeOK
    OBVIOUS
  <2>1. \A r \in ViewedRuns : /\ Len(log[r]) <= MaxEvents[r] + 1
                              /\ \A q \in DOMAIN log[r] : log[r][q] \in Kinds
    BY DEF ViewInv, LogsFit, LogFits
  <2>2. view.run \in ViewedRuns \cup {NoRun} /\ view.status \in Statuses /\ view.input \in BOOLEAN
    BY DEF ViewInv, Shows, Views
  <2>3. \A s \in Streams :
          Open(s) => streams[s].chat \in Chats \cup {NoChat} /\ streams[s].next > 0
    BY OpenIsOpen DEF OpenStreams
  <2> QED
    BY <2>1, <2>2, <2>3 DEF ViewTypeOK, ViewInv, PageFits, PendingFits
<1> QED
  BY <1>1, ViewInvariant, PTL

(* ViewIsPrefix: however streams, recoveries, cancellations and selections   *)
(* overlap, the page shows the first events of one run, and waits or is      *)
(* complete only as that run was when it stored the last of them.            *)
THEOREM ViewShowsOneRun == ViewSpec => []ViewIsPrefix
<1>1. ViewInv => ViewIsPrefix
  <2> SUFFICES ASSUME ViewInv
               PROVE  ViewIsPrefix
    OBVIOUS
  <2>1. Shows(view, log) /\ view \in Views /\ view.events \in Seq(Kinds)
    BY DEF ViewInv, Shows, Views
  <2>2. view.events # <<>> => LastKind(view.events) = view.events[Len(view.events)]
    BY <2>1, LastIsLast
  <2>3. ASSUME view.run # NoRun
        PROVE  IsPrefix(view.events, log[view.run])
    <3> DEFINE s == view.events
               t == log[view.run]
    <3>1. s \in Seq(Kinds) /\ t \in Seq(Kinds) /\ Len(s) <= Len(t)
          /\ \A q \in 1 .. Len(s) : s[q] = t[q]
      BY <2>1, <2>3 DEF ViewInv, LogsFit, Shows, Views
    <3>2. SubSeq(s, 1, Len(s)) = SubSeq(t, 1, Len(s))
      BY <3>1
    <3> QED
      BY <3>1, <3>2 DEF IsPrefix
  <2> QED
    BY <2>1, <2>2, <2>3 DEF ViewIsPrefix, Shows
<1> QED
  BY <1>1, ViewInvariant, PTL

-----------------------------------------------------------------------------
(***************************************************************************)
(* Data sources, for any sources, contents, requests and number of pools.  *)
(*                                                                         *)
(* What a request has read is stale by the time it writes; the tables stay *)
(* closed because every transaction that adds a row looks again at what    *)
(* the row refers to.  The pools have no such transaction: the invariant   *)
(* follows each open pool from the request that opened it to the lists the *)
(* service closes.  A request that waits for relationship discovery has    *)
(* handed its pool over, and is not counted on.                            *)
(***************************************************************************)

(* What a request has read, by what it awaits. *)
Loaded == {"staging", "creating", "publishing", "opening", "pooling", "cataloguing"}
Placed == {"removing", "versioning", "saving", "assigning"}
Pooled == {"staging", "creating", "publishing", "describing", "cataloguing"}

JobFits(j) ==
  /\ "at" \in DOMAIN j
  /\ j.at \in Loaded =>
       /\ {"source", "content"} \subseteq DOMAIN j
       /\ j.source \in Sources /\ j.content \in Contents
  /\ j.at \in Placed => j.source \in Sources
  /\ j.at \notin Pooled => "pool" \notin DOMAIN j

JobsFit ==
  /\ job = [r \in Requests |-> job[r]]
  /\ \A r \in Requests : JobFits(job[r])

(* A binding is a row with a source and a status. *)
BindingFits(b) == {"source", "status"} \subseteq DOMAIN b /\ b.source \in Sources

TablesFit ==
  /\ data_sources \in [Sources -> SourceRows \cup {Absent}]
  /\ snapshots \in [Sources -> Contents \cup {Nothing}]
  /\ packs \subseteq Sources
  /\ \A b \in bindings : BindingFits(b)
  /\ RegistryIsClosed

Owner(r, p) == ~ Awaits(r, "describing") /\ p \in PoolsOf(r)
PoolsHeld == \A p \in open_pools : p \in resources \/ \E r \in Requests : Owner(r, p)

SourceInv == JobsFit /\ TablesFit /\ PoolsHeld

tables == <<data_sources, snapshots, bindings, packs>>
pools == <<open_pools, resources>>

-----------------------------------------------------------------------------
(* Requests. *)

(* One request moves; the others stay. *)
LEMMA JobMoves ==
  ASSUME JobsFit, NEW r \in Requests, NEW j, JobFits(j), job' = [job EXCEPT ![r] = j]
  PROVE  /\ JobsFit' /\ job'[r] = j
         /\ \A q \in Requests \ {r} : job'[q] = job[q]
BY DEF JobsFit

(* A source that is there is a row of its type. *)
LEMMA SourceShape ==
  ASSUME TablesFit
  PROVE  /\ \A s \in Sources : data_sources[s] # Absent => data_sources[s] \in SourceRows
         /\ \A row \in SourceRows : row # Absent
<1>1. \A row \in SourceRows : row # Absent
  BY DEF SourceRows, Absent, SourceKinds
<1> QED BY <1>1 DEF TablesFit

(* A request that goes on with what it has read. *)
LEMMA GoesOn ==
  ASSUME JobsFit, NEW r \in Requests, NEW at,
         job[r].at \in Loaded \cap Pooled, at \in (Loaded \cap Pooled) \cup {"describing"},
         job' = [job EXCEPT ![r].at = at]
  PROVE  /\ JobsFit' /\ job'[r].at = at /\ DOMAIN job'[r] = DOMAIN job[r]
         /\ "pool" \in DOMAIN job[r] => job'[r].pool = job[r].pool
         /\ \A q \in Requests \ {r} : job'[q] = job[q]
<1> DEFINE j == [job[r] EXCEPT !.at = at]
<1>1. JobFits(job[r])
  BY DEF JobsFit
<1>2. /\ DOMAIN j = DOMAIN job[r] /\ j.at = at
      /\ j.source = job[r].source /\ j.content = job[r].content
      /\ "pool" \in DOMAIN job[r] => j.pool = job[r].pool
  BY <1>1 DEF JobFits, Loaded, Pooled
<1>3. JobFits(j)
  BY <1>1, <1>2 DEF JobFits, Loaded, Pooled, Placed
<1>4. job' = [job EXCEPT ![r] = j]
  OBVIOUS
<1> HIDE DEF j
<1> QED BY <1>2, <1>3, <1>4, JobMoves

-----------------------------------------------------------------------------
(* Steps that leave the tables or the pools alone. *)

(* The tables stay as they are. *)
LEMMA TablesStay == TablesFit /\ UNCHANGED tables => TablesFit'
BY DEF TablesFit, tables, BindingFits, RegistryIsClosed, Published

(* The pools stay, and the request that moves has none or keeps it. *)
LEMMA PoolsStay ==
  ASSUME JobsFit, PoolsHeld, NEW r \in Requests, UNCHANGED pools,
         \A q \in Requests \ {r} : job'[q] = job[q],
         \/ PoolsOf(r) = {}
         \/ PoolsOf(r)' = PoolsOf(r) /\ job'[r].at # "describing"
         \/ PoolsOf(r) \subseteq resources
         \/ job[r].at = "describing"
  PROVE  PoolsHeld'
<1> SUFFICES ASSUME NEW p \in open_pools, p \notin resources
             PROVE  \E q \in Requests : Owner(q, p)'
  BY DEF PoolsHeld, pools
<1>1. PICK q \in Requests : Owner(q, p)
  BY DEF PoolsHeld
<1>2. CASE q = r
  BY <1>1, <1>2 DEF Owner, Awaits
<1>3. CASE q # r
  BY <1>1, <1>3 DEF Owner, Awaits, PoolsOf
<1> QED BY <1>2, <1>3

(* A request that has no pool waits for something else. *)
LEMMA WaitsNext ==
  ASSUME SourceInv, NEW r \in Requests, NEW j, JobFits(j), Becomes(r, j),
         job[r].at \notin Pooled, UNCHANGED tables, UNCHANGED pools
  PROVE  SourceInv'
<1>1. /\ JobsFit' /\ job'[r] = j
      /\ \A q \in Requests \ {r} : job'[q] = job[q]
  BY JobMoves DEF Becomes, SourceInv
<1>2. PoolsOf(r) = {}
  BY DEF SourceInv, JobsFit, JobFits, PoolsOf
<1>3. PoolsHeld'
  BY <1>1, <1>2, PoolsStay DEF SourceInv
<1> QED BY <1>1, <1>3, TablesStay DEF SourceInv

(* The records of requests that have no pool. *)
LEMMA NewJobs ==
  /\ JobFits(Idle)
  /\ \A s \in Sources, c \in Contents : \A x, y, z, w :
       /\ JobFits([at |-> "pooling", source |-> s, content |-> c, kind |-> x,
                   restores |-> y, pin |-> z, thread |-> w])
       /\ JobFits([at |-> "opening", source |-> s, kind |-> x, content |-> c,
                   pin |-> z, thread |-> w])
  /\ \A s \in Sources : \A x, y :
       /\ JobFits([at |-> "versioning", source |-> s, binding |-> x])
       /\ JobFits([at |-> "saving", source |-> s, binding |-> x, version |-> y])
       /\ JobFits([at |-> "assigning", source |-> s])
       /\ JobFits([at |-> "removing", source |-> s, kind |-> x])
  /\ \A s, x, y :
       /\ JobFits([at |-> "pinning", pin |-> x, thread |-> y])
       /\ JobFits([at |-> "closing", source |-> s, kind |-> x, doomed |-> y])
       /\ JobFits([at |-> "resolving", source |-> s, binding |-> x, thread |-> y])
BY DEF JobFits, Loaded, Placed, Pooled, Idle

(* get_connector: the source is read, or its connector is there. *)
LEMMA ConnectorAskedKeeps ==
  ASSUME SourceInv, NEW r \in Requests, NEW s \in Sources, NEW pin, NEW conv,
         job[r].at \notin Pooled, ConnectorAsked(r, s, pin, conv)
  PROVE  SourceInv'
<1>1. data_sources[s].content \in Contents
  BY SourceShape DEF ConnectorAsked, Published, SourceInv, SourceRows
<1>2. PICK j : JobFits(j) /\ Becomes(r, j)
  <2>1. JobFits(Idle) /\ JobFits([at |-> "pinning", pin |-> pin, thread |-> conv])
    BY NewJobs
  <2>2. JobFits([at |-> "opening", source |-> s, kind |-> data_sources[s].kind,
                 content |-> data_sources[s].content, pin |-> pin, thread |-> conv])
    BY <1>1, NewJobs
  <2>3. CASE Becomes(r, IF conv = Nothing THEN Idle
                        ELSE [at |-> "pinning", pin |-> pin, thread |-> conv])
    BY <2>1, <2>3
  <2>4. CASE Becomes(r, [at |-> "opening", source |-> s, kind |-> data_sources[s].kind,
                         content |-> data_sources[s].content, pin |-> pin,
                         thread |-> conv])
    BY <2>2, <2>4
  <2> QED BY <2>3, <2>4 DEF ConnectorAsked
<1> QED BY <1>2, WaitsNext DEF ConnectorAsked, registry_vars, process_vars, tables, pools

(* An import begins with its files staged and nothing registered. *)
LEMMA ImportStartsKeeps ==
  ASSUME SourceInv, NEW r \in Requests, NEW s \in Sources, NEW c \in Contents,
         ImportStarts(r, s, c)
  PROVE  SourceInv'
<1>1. job[r].at = "idle" /\ job[r].at \notin Pooled
  BY DEF ImportStarts, Awaits, Pooled
<1>2. UNCHANGED tables /\ UNCHANGED pools
  BY DEF ImportStarts, registry_vars, process_vars, tables, pools
<1> DEFINE j == [at |-> "staging", source |-> s, content |-> c, kind |-> "file",
                 pool |-> NoPool]
<1>3. JobFits(j)
  BY DEF JobFits, Loaded, Placed, Pooled
<1>4. Becomes(r, j)
  BY DEF ImportStarts
<1> HIDE DEF j
<1> QED BY <1>1, <1>2, <1>3, <1>4, WaitsNext

(* Requests that begin with a read, which changes no table and no pool. *)
LEMMA ReadingKeeps ==
  ASSUME SourceInv, NEW r \in Requests, NEW s \in Sources, NEW b, NEW t,
         \/ Materialise(r, s) \/ GetConnector(r, s)
         \/ BindingAsked(r, s, b) \/ ResolveStarts(r, s, b, t)
  PROVE  SourceInv'
<1>1. job[r].at = "idle" /\ job[r].at \notin Pooled
  BY DEF Materialise, GetConnector, BindingAsked, ResolveStarts, Awaits, Pooled
<1>2. UNCHANGED tables /\ UNCHANGED pools
  BY DEF Materialise, GetConnector, ConnectorAsked, BindingAsked,
         ResolveStarts, registry_vars, process_vars, tables, pools
<1>3. CASE Materialise(r, s)
  <2>1. data_sources[s].content \in Contents
    BY <1>3, SourceShape DEF Materialise, SourceInv, SourceRows
  <2> DEFINE j == [at |-> "pooling", source |-> s, content |-> data_sources[s].content,
                   kind |-> "postgres", restores |-> FALSE, pin |-> Absent,
                   thread |-> Nothing]
  <2>2. JobFits(j)
    BY <2>1, NewJobs
  <2>3. Becomes(r, j)
    BY <1>3 DEF Materialise
  <2> HIDE DEF j
  <2> QED BY <1>1, <1>2, <2>2, <2>3, WaitsNext
<1>4. CASE GetConnector(r, s)
  BY <1>1, <1>4, ConnectorAskedKeeps DEF GetConnector
<1>5. CASE BindingAsked(r, s, b)
  <2>1. JobFits([at |-> "versioning", source |-> s, binding |-> b])
    BY NewJobs
  <2> QED BY <1>1, <1>2, <1>5, <2>1, WaitsNext DEF BindingAsked
<1>6. CASE ResolveStarts(r, s, b, t)
  <2>1. JobFits([at |-> "resolving", source |-> s, binding |-> b, thread |-> t])
    BY NewJobs
  <2> QED BY <1>1, <1>2, <1>6, <2>1, WaitsNext DEF ResolveStarts
<1> QED BY <1>3, <1>4, <1>5, <1>6

(* Requests that go on with what they have read, without a pool. *)
LEMMA GoingOnKeeps ==
  ASSUME SourceInv, NEW r \in Requests,
         RestoreFile(r) \/ RestorePostgres(r) \/ BindingVersioned(r) \/ Resolve(r)
           \/ PinConversation(r)
  PROVE  SourceInv'
<1>1. /\ job[r].at \in {"opening", "versioning", "resolving", "pinning"}
      /\ job[r].at \notin Pooled /\ JobFits(job[r])
  BY DEF RestoreFile, RestorePostgres, BindingVersioned, Resolve, PinConversation,
         Awaits, Pooled, SourceInv, JobsFit
<1>2. UNCHANGED tables /\ UNCHANGED pools
  BY DEF RestoreFile, RestorePostgres, BindingVersioned, Resolve, ConnectorAsked,
         PinConversation, registry_vars, process_vars, tables, pools
<1>3. JobFits(AfterConnector(r))
  BY NewJobs DEF AfterConnector
<1>4. CASE RestoreFile(r)
  BY <1>1, <1>2, <1>3, <1>4, WaitsNext DEF RestoreFile
<1>5. CASE RestorePostgres(r)
  <2>1. job[r].source \in Sources /\ job[r].content \in Contents
    BY <1>1, <1>5 DEF RestorePostgres, Awaits, JobFits, Loaded
  <2>2. JobFits([at |-> "pooling", source |-> job[r].source, content |-> job[r].content,
                 kind |-> "postgres", restores |-> TRUE,
                 pin |-> job[r].pin, thread |-> job[r].thread])
    BY <2>1, NewJobs
  <2> QED BY <1>1, <1>2, <1>5, <2>2, WaitsNext DEF RestorePostgres
<1>6. CASE BindingVersioned(r)
  <2>1. job[r].source \in Sources
    BY <1>1, <1>6 DEF BindingVersioned, Awaits, JobFits, Placed
  <2>2. JobFits([at |-> "saving", source |-> job[r].source, binding |-> job[r].binding,
                 version |-> NextVersion(job[r].source)])
    BY <2>1, NewJobs
  <2> QED BY <1>1, <1>2, <1>6, <2>2, WaitsNext DEF BindingVersioned
<1>7. CASE Resolve(r)
  <2>1. PICK b \in bindings :
          ConnectorAsked(r, b.source, [source |-> b.source, binding |-> b.id,
                                       version |-> b.version], job[r].thread)
    BY <1>7 DEF Resolve
  <2>2. b.source \in Sources
    BY DEF SourceInv, TablesFit, BindingFits
  <2> QED BY <1>1, <2>1, <2>2, ConnectorAskedKeeps
<1>8. CASE PinConversation(r)
  BY <1>1, <1>2, <1>8, NewJobs, WaitsNext DEF PinConversation, RequestEnds
<1> QED BY <1>4, <1>5, <1>6, <1>7, <1>8
-----------------------------------------------------------------------------
(* Imports and publication. *)

(* The file is written; its request goes on to create the source. *)
LEMMA FilesImportedKeeps ==
  ASSUME SourceInv, NEW r \in Requests, FilesImported(r)
  PROVE  SourceInv'
<1>1. /\ job[r].at \in Loaded \cap Pooled
      /\ job' = [job EXCEPT ![r].at = "creating"]
      /\ UNCHANGED tables /\ UNCHANGED pools
  BY DEF FilesImported, Awaits, Loaded, Pooled, registry_vars, process_vars, tables, pools
<1>2. /\ JobsFit' /\ job'[r].at = "creating" /\ DOMAIN job'[r] = DOMAIN job[r]
      /\ "pool" \in DOMAIN job[r] => job'[r].pool = job[r].pool
      /\ \A q \in Requests \ {r} : job'[q] = job[q]
  BY <1>1, GoesOn DEF SourceInv, Loaded, Pooled
<1>3. PoolsHeld'
  BY <1>1, <1>2, PoolsStay DEF SourceInv, PoolsOf
<1> QED BY <1>1, <1>2, <1>3, TablesStay DEF SourceInv

(* A row of a source that was not there leaves the tables closed. *)
LEMMA SourceAdded ==
  ASSUME TablesFit, NEW s \in Sources, NEW row \in SourceRows, row.active = 0,
         data_sources[s] = Absent, data_sources' = [data_sources EXCEPT ![s] = row],
         UNCHANGED <<snapshots, bindings, packs>>
  PROVE  TablesFit'
<1>1. /\ row # Absent /\ data_sources'[s] = row
      /\ \A t \in Sources \ {s} : data_sources'[t] = data_sources[t]
      /\ data_sources' \in [Sources -> SourceRows \cup {Absent}]
  BY SourceShape DEF TablesFit
<1>2. \A t \in Sources : Published(t)' <=> Published(t)
  BY <1>1 DEF Published
<1> QED BY <1>1, <1>2 DEF TablesFit, BindingFits, RegistryIsClosed

(* create: the source has no snapshot yet. *)
LEMMA SourceCreatedKeeps ==
  ASSUME SourceInv, NEW r \in Requests, SourceCreated(r)
  PROVE  SourceInv'
<1> DEFINE row == [kind |-> "file", content |-> job[r].content, active |-> 0]
<1>1. /\ job[r].at = "creating" /\ job[r].at \in Loaded \cap Pooled
      /\ job[r].source \in Sources /\ job[r].content \in Contents
      /\ job' = [job EXCEPT ![r].at = "publishing"]
  BY DEF SourceCreated, Awaits, Loaded, Pooled, SourceInv, JobsFit, JobFits
<1>2. /\ JobsFit' /\ job'[r].at = "publishing" /\ DOMAIN job'[r] = DOMAIN job[r]
      /\ "pool" \in DOMAIN job[r] => job'[r].pool = job[r].pool
      /\ \A q \in Requests \ {r} : job'[q] = job[q]
  BY <1>1, GoesOn DEF SourceInv, Loaded, Pooled
<1>3. UNCHANGED pools /\ UNCHANGED <<snapshots, bindings, packs>>
  BY DEF SourceCreated, process_vars, pools
<1>4. PoolsHeld'
  BY <1>2, <1>3, PoolsStay DEF SourceInv, PoolsOf
<1>5. row \in SourceRows /\ row.active = 0
  BY <1>1 DEF SourceRows, SourceKinds
<1>6. /\ data_sources[job[r].source] = Absent
      /\ data_sources' = [data_sources EXCEPT ![job[r].source] = row]
  BY DEF SourceCreated
<1> HIDE DEF row
<1>7. TablesFit'
  BY <1>1, <1>3, <1>5, <1>6, SourceAdded DEF SourceInv
<1> QED BY <1>2, <1>4, <1>7 DEF SourceInv

(* register_postgres: the definition alone. *)
LEMMA RegisterPostgresKeeps ==
  ASSUME SourceInv, NEW r \in Requests, NEW s \in Sources, NEW c \in Contents,
         RegisterPostgres(r, s, c)
  PROVE  SourceInv'
<1> DEFINE row == [kind |-> "postgres", content |-> c, active |-> 0]
<1>1. row \in SourceRows /\ row.active = 0
  BY DEF SourceRows, SourceKinds
<1>2. /\ data_sources[s] = Absent /\ data_sources' = [data_sources EXCEPT ![s] = row]
      /\ UNCHANGED <<snapshots, bindings, packs>> /\ UNCHANGED job /\ UNCHANGED pools
  BY DEF RegisterPostgres, process_vars, pools
<1> HIDE DEF row
<1>3. TablesFit'
  BY <1>1, <1>2, SourceAdded DEF SourceInv
<1>4. JobsFit' /\ PoolsHeld'
  BY <1>2 DEF SourceInv, JobsFit, PoolsHeld, pools, Owner, Awaits, PoolsOf
<1> QED BY <1>3, <1>4 DEF SourceInv

(* publish_snapshot: the source was there without a snapshot.  Its pool is    *)
(* handed over, or closed.                                                    *)
LEMMA PublishKeeps ==
  ASSUME SourceInv, NEW r \in Requests, Publish(r)
  PROVE  SourceInv'
<1> DEFINE s == job[r].source
           row == [data_sources[s] EXCEPT !.active = 1]
<1>1. /\ job[r].at = "publishing" /\ job[r].at \in Loaded \cap Pooled
      /\ s \in Sources /\ job[r].content \in Contents
  BY DEF Publish, Awaits, Loaded, Pooled, SourceInv, JobsFit, JobFits
<1>2. /\ data_sources[s] \in SourceRows /\ snapshots[s] = Nothing
      /\ snapshots' = [snapshots EXCEPT ![s] = job[r].content]
      /\ data_sources' = [data_sources EXCEPT ![s] = row]
      /\ UNCHANGED <<bindings, packs>>
  BY <1>1, SourceShape DEF Publish, Publishable, SourceInv
<1>3. row \in SourceRows /\ row.active = 1 /\ row # Absent
  BY <1>2, SourceShape DEF SourceRows, SourceInv
<1> HIDE DEF row
<1>4. TablesFit'
  <2>1. /\ data_sources' \in [Sources -> SourceRows \cup {Absent}]
        /\ snapshots' \in [Sources -> Contents \cup {Nothing}]
        /\ data_sources'[s] = row /\ snapshots'[s] = job[r].content
        /\ \A t \in Sources \ {s} :
             data_sources'[t] = data_sources[t] /\ snapshots'[t] = snapshots[t]
    BY <1>1, <1>2, <1>3 DEF SourceInv, TablesFit
  <2>2. \A t \in Sources : Published(t)' <=> snapshots'[t] # Nothing
    BY <1>1, <1>3, <2>1, ContentAssumption DEF Published, SourceInv, TablesFit, RegistryIsClosed
  <2>3. \A b \in bindings : snapshots'[b.source] # Nothing
    BY <1>1, <1>2, <2>1, ContentAssumption
       DEF SourceInv, TablesFit, RegistryIsClosed, BindingFits
  <2>4. \A t \in packs : data_sources'[t] # Absent
    BY <1>3, <2>1 DEF SourceInv, TablesFit, RegistryIsClosed
  <2> QED BY <1>2, <2>1, <2>2, <2>3, <2>4
             DEF SourceInv, TablesFit, BindingFits, RegistryIsClosed
<1>5. CASE /\ job' = [job EXCEPT ![r].at = "describing"]
           /\ resources' = resources \cup PoolsOf(r)
           /\ UNCHANGED open_pools
  <2>1. /\ JobsFit' /\ \A q \in Requests \ {r} : job'[q] = job[q]
    BY <1>1, <1>5, GoesOn DEF SourceInv, Loaded, Pooled
  <2>2. PoolsHeld'
    <3> SUFFICES ASSUME NEW p \in open_pools, p \notin resources, p \notin PoolsOf(r)
                 PROVE  \E q \in Requests : Owner(q, p)'
      BY <1>5 DEF PoolsHeld
    <3>1. PICK q \in Requests : Owner(q, p)
      BY DEF SourceInv, PoolsHeld
    <3>2. q # r
      BY <3>1 DEF Owner
    <3> QED BY <2>1, <3>1, <3>2 DEF Owner, Awaits, PoolsOf
  <2> QED BY <1>4, <2>1, <2>2 DEF SourceInv
<1>6. CASE /\ Becomes(r, Idle)
           /\ open_pools' = open_pools \ PoolsOf(r)
           /\ UNCHANGED resources
  <2>1. /\ JobsFit' /\ \A q \in Requests \ {r} : job'[q] = job[q]
    BY <1>6, NewJobs, JobMoves DEF SourceInv, Becomes
  <2>2. PoolsHeld'
    <3> SUFFICES ASSUME NEW p \in open_pools, p \notin resources, p \notin PoolsOf(r)
                 PROVE  \E q \in Requests : Owner(q, p)'
      BY <1>6 DEF PoolsHeld
    <3>1. PICK q \in Requests : Owner(q, p)
      BY DEF SourceInv, PoolsHeld
    <3>2. q # r
      BY <3>1 DEF Owner
    <3> QED BY <2>1, <3>1, <3>2 DEF Owner, Awaits, PoolsOf
  <2> QED BY <1>4, <2>1, <2>2 DEF SourceInv
<1> QED BY <1>5, <1>6 DEF Publish, Tracks, RequestEnds, ClosesOnFailure

(* Relationship discovery has been awaited. *)
LEMMA DescribedKeeps ==
  ASSUME SourceInv, NEW r \in Requests, Described(r)
  PROVE  SourceInv'
<1>1. /\ Becomes(r, Idle) /\ job[r].at = "describing"
      /\ UNCHANGED tables /\ UNCHANGED pools
  BY DEF Described, RequestEnds, Awaits, registry_vars, process_vars, tables, pools
<1>2. /\ JobsFit' /\ \A q \in Requests \ {r} : job'[q] = job[q]
  BY <1>1, NewJobs, JobMoves DEF SourceInv, Becomes
<1>3. PoolsHeld'
  BY <1>1, <1>2, PoolsStay DEF SourceInv
<1> QED BY <1>1, <1>2, <1>3, TablesStay DEF SourceInv
-----------------------------------------------------------------------------
(* Pools. *)

(* The pool that is opened belongs to the request that opened it. *)
LEMMA PoolOpenedKeeps ==
  ASSUME SourceInv, NEW r \in Requests, PoolOpened(r)
  PROVE  SourceInv'
<1> DEFINE p == CHOOSE free \in Pools \ open_pools : TRUE
           j == [at |-> "cataloguing", source |-> job[r].source,
                 content |-> job[r].content, kind |-> "postgres", pool |-> p,
                 restores |-> job[r].restores, pin |-> job[r].pin,
                 thread |-> job[r].thread]
<1>1. /\ job[r].at = "pooling" /\ job[r].source \in Sources /\ job[r].content \in Contents
      /\ "pool" \notin DOMAIN job[r]
  BY DEF PoolOpened, Awaits, SourceInv, JobsFit, JobFits, Loaded, Pooled
<1>2. JobFits(j) /\ j.at = "cataloguing" /\ "pool" \in DOMAIN j /\ j.pool = p
  BY <1>1 DEF JobFits, Loaded, Placed, Pooled
<1>3. p \in Pools /\ p # NoPool
  BY PoolsAssumption DEF PoolOpened, Pools, NoPool
<1>4. /\ Becomes(r, j) /\ open_pools' = open_pools \cup {p}
      /\ UNCHANGED resources /\ UNCHANGED tables
  BY DEF PoolOpened, registry_vars, tables
<1> HIDE DEF p, j
<1>5. /\ JobsFit' /\ job'[r] = j /\ \A q \in Requests \ {r} : job'[q] = job[q]
  BY <1>2, <1>4, JobMoves DEF SourceInv, Becomes
<1>6. PoolsHeld'
  <2> SUFFICES ASSUME NEW x \in open_pools \cup {p}, x \notin resources
               PROVE  \E q \in Requests : Owner(q, x)'
    BY <1>4 DEF PoolsHeld
  <2>1. CASE x = p
    BY <1>2, <1>3, <1>5, <2>1 DEF Owner, Awaits, PoolsOf
  <2>2. CASE x # p
    <3>1. PICK q \in Requests : Owner(q, x)
      BY <2>2 DEF SourceInv, PoolsHeld
    <3>2. q # r
      BY <1>1, <3>1 DEF Owner, PoolsOf
    <3> QED BY <1>5, <3>1, <3>2 DEF Owner, Awaits, PoolsOf
  <2> QED BY <2>1, <2>2
<1> QED BY <1>4, <1>5, <1>6, TablesStay DEF SourceInv

(* A catalogue is read for a publication, or for a connector that the        *)
(* service will close.                                                       *)
LEMMA CataloguedKeeps ==
  ASSUME SourceInv, NEW r \in Requests, Catalogued(r)
  PROVE  SourceInv'
<1>1. /\ job[r].at = "cataloguing" /\ job[r].at \in Loaded \cap Pooled /\ UNCHANGED tables
      /\ job[r].source \in Sources
  BY DEF Catalogued, Awaits, Loaded, Pooled, registry_vars, tables, SourceInv, JobsFit, JobFits
<1>2. CASE job' = [job EXCEPT ![r].at = "publishing"] /\ UNCHANGED process_vars
  <2>1. /\ JobsFit' /\ job'[r].at = "publishing" /\ DOMAIN job'[r] = DOMAIN job[r]
        /\ "pool" \in DOMAIN job[r] => job'[r].pool = job[r].pool
        /\ \A q \in Requests \ {r} : job'[q] = job[q]
    BY <1>1, <1>2, GoesOn DEF SourceInv, Loaded, Pooled
  <2>2. PoolsHeld'
    BY <1>2, <2>1, PoolsStay DEF SourceInv, PoolsOf, process_vars, pools
  <2> QED BY <1>1, <2>1, <2>2, TablesStay DEF SourceInv
<1>3. CASE /\ resources' = resources \cup {job[r].pool}
           /\ Becomes(r, AfterConnector(r)) /\ UNCHANGED open_pools
  <2>1. /\ JobsFit' /\ \A q \in Requests \ {r} : job'[q] = job[q]
    BY <1>3, NewJobs, JobMoves DEF SourceInv, Becomes, AfterConnector
  <2>2. PoolsHeld'
    <3> SUFFICES ASSUME NEW p \in open_pools, p \notin resources, p # job[r].pool
                 PROVE  \E q \in Requests : Owner(q, p)'
      BY <1>3 DEF PoolsHeld
    <3>1. PICK q \in Requests : Owner(q, p)
      BY DEF SourceInv, PoolsHeld
    <3>2. q # r
      BY <3>1 DEF Owner, PoolsOf
    <3> QED BY <2>1, <3>1, <3>2 DEF Owner, Awaits, PoolsOf
  <2> QED BY <1>1, <2>1, <2>2, TablesStay DEF SourceInv
<1> QED BY <1>2, <1>3 DEF Catalogued, Tracks

-----------------------------------------------------------------------------
(* Deletion. *)

(* delete removes every row that refers to the source. *)
LEMMA DeleteKeeps ==
  ASSUME SourceInv, NEW r \in Requests, NEW s \in Sources, Delete(r, s)
  PROVE  SourceInv'
<1>1. /\ job[r].at = "idle" /\ UNCHANGED pools
      /\ data_sources' = [data_sources EXCEPT ![s] = Absent]
      /\ snapshots' = [snapshots EXCEPT ![s] = Nothing]
      /\ bindings' = {b \in bindings : b.source # s}
      /\ packs' = packs \ {s}
      /\ Becomes(r, [at |-> "removing", source |-> s, kind |-> data_sources[s].kind])
  BY DEF Delete, Awaits, process_vars, pools
<1>2. JobFits([at |-> "removing", source |-> s, kind |-> data_sources[s].kind])
  BY NewJobs
<1>3. /\ JobsFit' /\ \A q \in Requests \ {r} : job'[q] = job[q]
  BY <1>1, <1>2, JobMoves DEF SourceInv, Becomes
<1>4. PoolsOf(r) = {}
  BY <1>1 DEF SourceInv, JobsFit, JobFits, PoolsOf, Pooled
<1>5. PoolsHeld'
  BY <1>1, <1>3, <1>4, PoolsStay DEF SourceInv
<1>6. TablesFit'
  <2>1. /\ data_sources' \in [Sources -> SourceRows \cup {Absent}]
        /\ snapshots' \in [Sources -> Contents \cup {Nothing}]
        /\ data_sources'[s] = Absent /\ snapshots'[s] = Nothing
        /\ \A t \in Sources \ {s} :
             data_sources'[t] = data_sources[t] /\ snapshots'[t] = snapshots[t]
    BY <1>1 DEF SourceInv, TablesFit
  <2>2. \A t \in Sources : Published(t)' <=> snapshots'[t] # Nothing
    BY <2>1 DEF Published, SourceInv, TablesFit, RegistryIsClosed
  <2>3. /\ \A b \in bindings' : snapshots'[b.source] # Nothing
        /\ \A b \in bindings' : BindingFits(b)
    BY <1>1, <2>1 DEF SourceInv, TablesFit, RegistryIsClosed, BindingFits
  <2>4. \A a, b \in bindings' :
          a.source = b.source /\ a.status = "active" /\ b.status = "active" => a = b
    BY <1>1 DEF SourceInv, TablesFit, RegistryIsClosed
  <2>5. packs' \subseteq Sources /\ \A t \in packs' : data_sources'[t] # Absent
    BY <1>1, <2>1 DEF SourceInv, TablesFit, RegistryIsClosed
  <2> QED BY <2>1, <2>2, <2>3, <2>4, <2>5 DEF TablesFit, RegistryIsClosed
<1> QED BY <1>3, <1>5, <1>6 DEF SourceInv

(* What follows the commit of a deletion. *)
LEMMA DeleteRowKeeps ==
  ASSUME SourceInv, NEW r \in Requests, DeleteRow(r)
  PROVE  SourceInv'
<1>1. /\ job[r].at \notin Pooled /\ UNCHANGED tables /\ UNCHANGED pools
  BY DEF DeleteRow, Awaits, Pooled, registry_vars, tables, pools
<1>2. PICK j : JobFits(j) /\ Becomes(r, j)
  <2>1. JobFits([at |-> "closing", source |-> job[r].source, kind |-> job[r].kind,
                 doomed |-> source_resources[job[r].source]])
    BY NewJobs
  <2>2. JobFits(Idle)
    BY NewJobs
  <2> QED BY <2>1, <2>2 DEF DeleteRow, RequestEnds
<1> QED BY <1>1, <1>2, WaitsNext

(* One pool is closed, and leaves the list. *)
LEMMA PoolGoes ==
  ASSUME SourceInv, NEW r \in Requests, NEW p, NEW j, JobFits(j), Becomes(r, j),
         job[r].at \notin Pooled, UNCHANGED tables,
         open_pools' = open_pools \ {p}, resources' = resources \ {p}
  PROVE  SourceInv'
<1>1. /\ JobsFit' /\ \A q \in Requests \ {r} : job'[q] = job[q]
  BY JobMoves DEF SourceInv, Becomes
<1>2. PoolsHeld'
  <2> SUFFICES ASSUME NEW x \in open_pools, x \notin resources, x # p
               PROVE  \E q \in Requests : Owner(q, x)'
    BY DEF PoolsHeld
  <2>1. PICK q \in Requests : Owner(q, x)
    BY DEF SourceInv, PoolsHeld
  <2>2. q # r
    BY <2>1 DEF Owner, PoolsOf, SourceInv, JobsFit, JobFits
  <2> QED BY <1>1, <2>1, <2>2 DEF Owner, Awaits, PoolsOf
<1> QED BY <1>1, <1>2, TablesStay DEF SourceInv

(* A deletion closes the pools of its source one by one. *)
LEMMA ClosePoolKeeps ==
  ASSUME SourceInv, NEW r \in Requests, ClosePool(r)
  PROVE  SourceInv'
<1> DEFINE p == Max(job[r].doomed)
           left == job[r].doomed \ {p}
           j == [job[r] EXCEPT !.doomed = left]
<1>1. /\ job[r].at = "closing" /\ job[r].at \notin Pooled /\ UNCHANGED tables
      /\ open_pools' = open_pools \ {p} /\ resources' = resources \ {p}
  BY DEF ClosePool, Awaits, Pooled, registry_vars, tables
<1>2. JobFits(j)
  BY <1>1 DEF SourceInv, JobsFit, JobFits, Loaded, Placed, Pooled
<1>3. JobFits(Idle)
  BY NewJobs
<1>4. Becomes(r, j) \/ Becomes(r, Idle)
  BY DEF ClosePool, RequestEnds, Becomes
<1> HIDE DEF p, j
<1> QED BY <1>1, <1>2, <1>3, <1>4, PoolGoes

-----------------------------------------------------------------------------
(* Bindings. *)

(* save_binding: the snapshot is there, and the binding is a draft. *)
LEMMA SaveBindingKeeps ==
  ASSUME SourceInv, NEW r \in Requests, SaveBinding(r)
  PROVE  SourceInv'
<1> DEFINE new == [id |-> job[r].binding, source |-> job[r].source,
                   version |-> job[r].version, status |-> "draft"]
<1>1. /\ job[r].at = "saving" /\ job[r].source \in Sources
      /\ snapshots[job[r].source] # Nothing
      /\ UNCHANGED <<data_sources, snapshots, packs>> /\ UNCHANGED pools
      /\ Becomes(r, Idle)
  BY DEF SaveBinding, SnapshotStored, Awaits, SourceInv, JobsFit, JobFits, Placed,
         process_vars, pools, RequestEnds
<1>2. bindings' = bindings \cup {new}
  BY DEF SaveBinding
<1>3. BindingFits(new) /\ new.source = job[r].source /\ new.status = "draft"
  BY <1>1 DEF BindingFits
<1> HIDE DEF new
<1>4. /\ JobsFit' /\ \A q \in Requests \ {r} : job'[q] = job[q]
  BY <1>1, NewJobs, JobMoves DEF SourceInv, Becomes
<1>5. PoolsOf(r) = {}
  BY <1>1 DEF SourceInv, JobsFit, JobFits, PoolsOf, Pooled
<1>6. PoolsHeld'
  BY <1>1, <1>4, <1>5, PoolsStay DEF SourceInv
<1>7. TablesFit'
  BY <1>1, <1>2, <1>3 DEF SourceInv, TablesFit, RegistryIsClosed, Published
<1> QED BY <1>4, <1>6, <1>7 DEF SourceInv

(* activate_binding: one binding is in force, and the others are retired. *)
LEMMA ActivateBindingKeeps ==
  ASSUME SourceInv, NEW r \in Requests, NEW binding \in bindings, ActivateBinding(r, binding)
  PROVE  SourceInv'
<1> DEFINE New(b) == IF b = binding THEN [b EXCEPT !.status = "active"]
                     ELSE IF b.source = binding.source /\ b.status = "active"
                          THEN [b EXCEPT !.status = "retired"]
                          ELSE b
<1>1. /\ job[r].at = "idle" /\ binding.source \in Sources
      /\ UNCHANGED <<data_sources, snapshots, packs>> /\ UNCHANGED pools
      /\ Becomes(r, [at |-> "assigning", source |-> binding.source])
  BY DEF ActivateBinding, Awaits, SourceInv, TablesFit, BindingFits, process_vars, pools
<1>2. bindings' = {New(b) : b \in bindings}
  BY DEF ActivateBinding
<1>3. ASSUME NEW b \in bindings
      PROVE  /\ BindingFits(New(b)) /\ New(b).source = b.source
             /\ New(b).status = "active" /\ b.source = binding.source => b = binding
             /\ b.source # binding.source => New(b) = b
  BY DEF SourceInv, TablesFit, BindingFits
<1> HIDE DEF New
<1>4. JobFits([at |-> "assigning", source |-> binding.source])
  BY <1>1, NewJobs
<1>5. /\ JobsFit' /\ \A q \in Requests \ {r} : job'[q] = job[q]
  BY <1>1, <1>4, JobMoves DEF SourceInv, Becomes
<1>6. PoolsOf(r) = {}
  BY <1>1 DEF SourceInv, JobsFit, JobFits, PoolsOf, Pooled
<1>7. PoolsHeld'
  BY <1>1, <1>5, <1>6, PoolsStay DEF SourceInv
<1>8. TablesFit'
  <2>1. \A b \in bindings' : BindingFits(b) /\ snapshots'[b.source] # Nothing
    BY <1>1, <1>2, <1>3 DEF SourceInv, TablesFit, RegistryIsClosed
  <2>2. ASSUME NEW a \in bindings', NEW b \in bindings',
               a.source = b.source, a.status = "active", b.status = "active"
        PROVE  a = b
    <3>1. PICK x \in bindings : a = New(x)
      BY <1>2
    <3>2. PICK y \in bindings : b = New(y)
      BY <1>2
    <3>3. CASE a.source = binding.source
      BY <1>3, <2>2, <3>1, <3>2, <3>3
    <3>4. CASE a.source # binding.source
      BY <1>3, <2>2, <3>1, <3>2, <3>4 DEF SourceInv, TablesFit, RegistryIsClosed
    <3> QED BY <3>3, <3>4
  <2> QED BY <1>1, <2>1, <2>2 DEF SourceInv, TablesFit, RegistryIsClosed, Published
<1> QED BY <1>5, <1>7, <1>8 DEF SourceInv

(* The domain pack is assigned to a source that is there. *)
LEMMA AssignPackKeeps ==
  ASSUME SourceInv, NEW r \in Requests, AssignPack(r)
  PROVE  SourceInv'
<1>1. /\ job[r].at = "assigning" /\ job[r].source \in Sources
      /\ data_sources[job[r].source] # Absent /\ packs' = packs \cup {job[r].source}
      /\ UNCHANGED <<data_sources, snapshots, bindings>> /\ UNCHANGED pools
      /\ Becomes(r, Idle)
  BY DEF AssignPack, Awaits, SourceInv, JobsFit, JobFits, Placed, process_vars, pools,
         RequestEnds
<1>2. /\ JobsFit' /\ \A q \in Requests \ {r} : job'[q] = job[q]
  BY <1>1, NewJobs, JobMoves DEF SourceInv, Becomes
<1>3. PoolsOf(r) = {}
  BY <1>1 DEF SourceInv, JobsFit, JobFits, PoolsOf, Pooled
<1>4. PoolsHeld'
  BY <1>1, <1>2, <1>3, PoolsStay DEF SourceInv
<1>5. TablesFit'
  BY <1>1 DEF SourceInv, TablesFit, RegistryIsClosed, Published, BindingFits
<1> QED BY <1>2, <1>4, <1>5 DEF SourceInv

-----------------------------------------------------------------------------
(* A request that fails closes the pool it has opened. *)
LEMMA JobFailsKeeps ==
  ASSUME SourceInv, NEW r \in Requests, JobFails(r)
  PROVE  SourceInv'
<1>1. UNCHANGED tables /\ Becomes(r, Idle) /\ JobFits(Idle)
  BY NewJobs DEF JobFails, registry_vars, tables, RequestEnds
<1>2. CASE Awaits(r, "closing")
  <2>1. /\ job[r].at \notin Pooled
        /\ open_pools' = open_pools \ {Max(job[r].doomed)}
        /\ resources' = resources \ {Max(job[r].doomed)}
    BY <1>2 DEF JobFails, Awaits, Pooled
  <2> QED BY <1>1, <2>1, PoolGoes
<1>3. CASE ~ Awaits(r, "closing")
  <2>1. open_pools' = open_pools \ PoolsOf(r) /\ UNCHANGED resources
    BY <1>3 DEF JobFails, ClosesOnFailure
  <2>2. /\ JobsFit' /\ \A q \in Requests \ {r} : job'[q] = job[q]
    BY <1>1, JobMoves DEF SourceInv, Becomes
  <2>3. PoolsHeld'
    <3> SUFFICES ASSUME NEW p \in open_pools, p \notin resources, p \notin PoolsOf(r)
                 PROVE  \E q \in Requests : Owner(q, p)'
      BY <2>1 DEF PoolsHeld
    <3>1. PICK q \in Requests : Owner(q, p)
      BY DEF SourceInv, PoolsHeld
    <3>2. q # r
      BY <3>1 DEF Owner
    <3> QED BY <2>2, <3>1, <3>2 DEF Owner, Awaits, PoolsOf
  <2> QED BY <1>1, <2>2, <2>3, TablesStay DEF SourceInv
<1> QED BY <1>2, <1>3

(* A restart leaves the tables. *)
LEMMA RestartKeeps ==
  ASSUME SourceInv, Restart
  PROVE  SourceInv'
<1>1. UNCHANGED tables /\ open_pools' = {} /\ job' = [r \in Requests |-> Idle]
  BY DEF Restart, registry_vars, tables
<1>2. JobsFit' /\ PoolsHeld'
  BY <1>1, NewJobs DEF JobsFit, PoolsHeld
<1> QED BY <1>1, <1>2, TablesStay DEF SourceInv

-----------------------------------------------------------------------------
(* There is nothing at first. *)
LEMMA SourceInvInit == SourceInit => SourceInv
<1> SUFFICES ASSUME SourceInit PROVE SourceInv
  OBVIOUS
<1>1. JobsFit /\ PoolsHeld
  BY NewJobs DEF SourceInit, JobsFit, PoolsHeld
<1>2. TablesFit
  BY DEF SourceInit, TablesFit, RegistryIsClosed, Published
<1> QED BY <1>1, <1>2 DEF SourceInv

(* Every step keeps the invariant. *)
LEMMA SourceInvStep == SourceInv /\ [SourceNext]_source_vars => SourceInv'
<1> SUFFICES ASSUME SourceInv, [SourceNext]_source_vars PROVE SourceInv'
  OBVIOUS
<1>1. ASSUME NEW r \in Requests, NEW s \in Sources, NEW c \in Contents,
             ImportStarts(r, s, c) \/ RegisterPostgres(r, s, c)
      PROVE  SourceInv'
  BY <1>1, ImportStartsKeeps, RegisterPostgresKeeps
<1>2. ASSUME NEW r \in Requests, NEW s \in Sources, Delete(r, s) PROVE SourceInv'
  BY <1>2, DeleteKeeps
<1>3. ASSUME NEW r \in Requests, NEW s \in Sources, Materialise(r, s) \/ GetConnector(r, s)
      PROVE  SourceInv'
  BY <1>3, ReadingKeeps
<1>4. ASSUME NEW r \in Requests, NEW s \in Sources, NEW b \in Bindings, BindingAsked(r, s, b)
      PROVE  SourceInv'
  BY <1>4, ReadingKeeps
<1>5. ASSUME NEW r \in Requests, NEW s \in Sources, NEW b \in Bindings, NEW t \in Threads,
             ResolveStarts(r, s, b, t)
      PROVE  SourceInv'
  BY <1>5, ReadingKeeps
<1>6. ASSUME NEW r \in Requests,
             \/ FilesImported(r) \/ SourceCreated(r) \/ Publish(r) \/ Described(r)
             \/ RestoreFile(r) \/ RestorePostgres(r) \/ PoolOpened(r) \/ Catalogued(r)
             \/ DeleteRow(r) \/ ClosePool(r)
             \/ BindingVersioned(r) \/ SaveBinding(r) \/ AssignPack(r)
             \/ Resolve(r) \/ PinConversation(r) \/ JobFails(r)
      PROVE  SourceInv'
  BY <1>6, FilesImportedKeeps, SourceCreatedKeeps, PublishKeeps, DescribedKeeps,
     GoingOnKeeps, PoolOpenedKeeps, CataloguedKeeps, DeleteRowKeeps, ClosePoolKeeps,
     SaveBindingKeeps, AssignPackKeeps, JobFailsKeeps
<1>7. ASSUME NEW r \in Requests, NEW b \in bindings, ActivateBinding(r, b) PROVE SourceInv'
  BY <1>7, ActivateBindingKeeps
<1>8. CASE Restart
  BY <1>8, RestartKeeps
<1>9. CASE UNCHANGED source_vars
  <2>1. UNCHANGED tables /\ UNCHANGED pools /\ UNCHANGED job
    BY <1>9 DEF source_vars, registry_vars, process_vars, tables, pools
  <2> QED BY <2>1, TablesStay DEF SourceInv, JobsFit, PoolsHeld, pools, Owner, Awaits, PoolsOf
<1> QED BY <1>1, <1>2, <1>3, <1>4, <1>5, <1>6, <1>7, <1>8, <1>9 DEF SourceNext

(* What every request relies on holds in every state. *)
THEOREM SourceInvariant == SourceSpec => []SourceInv
BY SourceInvInit, SourceInvStep, PTL DEF SourceSpec

(* However creations, publications, activations and deletions of any number  *)
(* of requests overlap, fail or are stopped, the tables refer to each other. *)
THEOREM RegistryStaysClosed == SourceSpec => []RegistryIsClosed
<1>1. SourceInv => RegistryIsClosed
  BY DEF SourceInv, TablesFit
<1> QED BY <1>1, SourceInvariant, PTL

(* No open pool is forgotten, whichever of its requests fails or is late. *)
THEOREM PoolsStayOwned == SourceSpec => []PoolsAreOwned
<1>1. SourceInv => PoolsAreOwned
  BY DEF SourceInv, PoolsHeld, PoolsAreOwned, Owner
<1> QED BY <1>1, SourceInvariant, PTL

-----------------------------------------------------------------------------
(* What each table, file and pool holds.                                     *)
(* The records that requests hold at their awaits. *)
PinsAsked == Pins \cup {Absent}
Asking == Threads \cup {Nothing}
Uploading == [at : {"staging", "creating", "publishing", "describing"}, source : Sources,
              content : Contents, kind : SourceKinds, pool : Pools \cup {NoPool}]
Cataloguing == [at : {"cataloguing", "publishing", "describing"}, source : Sources,
                content : Contents, kind : SourceKinds, pool : Pools,
                restores : BOOLEAN, pin : PinsAsked, thread : Asking]
Opening == [at : {"opening"}, source : Sources, kind : SourceKinds, content : Contents,
            pin : PinsAsked, thread : Asking]
Pooling == [at : {"pooling"}, source : Sources, content : Contents, kind : SourceKinds,
            restores : BOOLEAN, pin : PinsAsked, thread : Asking]
Removing == [at : {"removing"}, source : Sources, kind : SourceKinds]
Closing == [at : {"closing"}, source : Sources, kind : SourceKinds, doomed : SUBSET Pools]
Versioning == [at : {"versioning"}, source : Sources, binding : Bindings]
SavingRow == [at : {"saving"}, source : Sources, binding : Bindings, version : 1..MaxBinding]
Assigning == [at : {"assigning"}, source : Sources]
Resolving == [at : {"resolving"}, source : Sources, binding : Bindings, thread : Threads]
Pinning == [at : {"pinning"}, pin : PinsAsked, thread : Threads]

Jobs == {Idle} \cup Uploading \cup Cataloguing \cup Opening \cup Pooling \cup Removing
          \cup Closing \cup Versioning \cup SavingRow \cup Assigning \cup Resolving \cup Pinning

SourcesTyped == SourceTypeOK /\ job \in [Requests -> Jobs]

(* A request's record, by what it awaits. *)
LEMMA JobRecords ==
  ASSUME NEW j \in Jobs
  PROVE  /\ j.at \in {"staging", "creating"} => j \in Uploading
         /\ j.at \in {"publishing", "describing"} => j \in Uploading \cup Cataloguing
         /\ j.at = "cataloguing" => j \in Cataloguing
         /\ j.at = "opening" => j \in Opening
         /\ j.at = "pooling" => j \in Pooling
         /\ j.at = "removing" => j \in Removing
         /\ j.at = "closing" => j \in Closing
         /\ j.at = "versioning" => j \in Versioning
         /\ j.at = "saving" => j \in SavingRow
         /\ j.at = "assigning" => j \in Assigning
         /\ j.at = "resolving" => j \in Resolving
         /\ j.at = "pinning" => j \in Pinning
BY DEF Jobs, Idle, Uploading, Cataloguing, Opening, Pooling, Removing, Closing, Versioning,
       SavingRow, Assigning, Resolving, Pinning

(* A set of numbers up to n has a largest one. *)
LEMMA LargestIsThere ==
  ASSUME NEW n \in Nat, NEW S \in SUBSET (0 .. n), S # {}
  PROVE  Max(S) \in S
<1> DEFINE T == {n - x : x \in S}
           R == OpToRel(<, Nat)
<1>1. T \subseteq Nat /\ T # {}
  <2>1. PICK x \in S : TRUE
    OBVIOUS
  <2>2. n - x \in T
    OBVIOUS
  <2>3. \A y \in S : n - y \in Nat
    OBVIOUS
  <2> QED BY <2>2, <2>3
<1>2. R = {pair \in Nat \X Nat : pair[1] < pair[2]}
  BY DEF OpToRel
<1>3. \E y \in T : \A x \in T : ~ (<<x, y>> \in R)
  BY <1>1, NatLessThanWellFounded, WFMin
<1> HIDE DEF R
<1>4. PICK y \in T : \A x \in T : ~ (<<x, y>> \in R)
  BY <1>3
<1>5. \A x \in T : y <= x
  <2> SUFFICES ASSUME NEW x \in T
               PROVE  y <= x
    OBVIOUS
  <2>1. x \in Nat /\ y \in Nat /\ ~ (<<x, y>> \in R)
    BY <1>1, <1>4
  <2>2. ~ (x < y)
    BY <2>1, <1>2
  <2> QED BY <2>1, <2>2
<1>6. PICK m \in S : y = n - m
  BY <1>4
<1>7. \A x \in S : m >= x
  <2> SUFFICES ASSUME NEW x \in S
               PROVE  m >= x
    OBVIOUS
  <2>1. n - m <= n - x
    BY <1>5, <1>6
  <2> QED BY <2>1
<1> QED BY <1>6, <1>7 DEF Max

(* The next version of a binding is one that there may be. *)
LEMMA VersionsAreCounted ==
  ASSUME SourceTypeOK, NEW s, NextVersion(s) <= MaxBinding
  PROVE  NextVersion(s) \in 1 .. MaxBinding
<1> DEFINE S == {0} \cup {b.version : b \in {x \in bindings : x.source = s}}
<1>1. MaxBinding \in Nat /\ S \in SUBSET (0 .. MaxBinding) /\ S # {}
  BY BindingAssumption DEF SourceTypeOK, BindingRows
<1> HIDE DEF S
<1>2. Max(S) \in 0 .. MaxBinding
  BY <1>1, LargestIsThere
<1>3. NextVersion(s) = Max(S) + 1
  BY DEF NextVersion, S
<1> QED BY <1>1, <1>2, <1>3

(* One request moves. *)
LEMMA JobStaysTyped ==
  ASSUME SourcesTyped, NEW r \in Requests, NEW j \in Jobs, job' = [job EXCEPT ![r] = j]
  PROVE  job' \in [Requests -> Jobs] /\ DOMAIN job' = Requests
BY DEF SourcesTyped

LEMMA IdleIsJob == Idle \in Jobs
BY DEF Jobs

(* A request asks for a connector, and for a pin afterwards. *)
LEMMA AsksTyped ==
  ASSUME SourcesTyped, NEW r \in Requests, NEW s \in Sources, NEW pin \in PinsAsked,
         NEW conv \in Asking, ConnectorAsked(r, s, pin, conv)
  PROVE  SourcesTyped'
<1>1. data_sources[s] \in SourceRows
  BY DEF ConnectorAsked, Published, SourcesTyped, SourceTypeOK
<1>2. PICK j \in Jobs : job' = [job EXCEPT ![r] = j]
  <2>1. [at |-> "opening", source |-> s, kind |-> data_sources[s].kind,
         content |-> data_sources[s].content, pin |-> pin, thread |-> conv] \in Opening
    BY <1>1 DEF Opening, SourceRows
  <2>2. conv # Nothing => [at |-> "pinning", pin |-> pin, thread |-> conv] \in Pinning
    BY DEF Pinning, Asking
  <2> QED BY <2>1, <2>2 DEF ConnectorAsked, Becomes, Jobs
<1>3. job' \in [Requests -> Jobs] /\ DOMAIN job' = Requests
  BY <1>2, JobStaysTyped
<1>4. UNCHANGED <<registry_vars, files, process_vars>>
  BY DEF ConnectorAsked
<1> QED BY <1>3, <1>4 DEF SourcesTyped, SourceTypeOK, registry_vars, process_vars

(* A connector that is restored. *)
LEMMA RegisterTyped ==
  ASSUME SourcesTyped, NEW r \in Requests, NEW connector \in OpenConnectors,
         RegisterOrUse(r, connector)
  PROVE  connectors' \in [Sources -> OpenConnectors \cup {Absent}]
BY DEF RegisterOrUse, SourcesTyped, SourceTypeOK

LEMMA AfterIsJob ==
  ASSUME NEW r, job[r] \in Opening \cup Cataloguing
  PROVE  AfterConnector(r) \in Jobs
<1>1. job[r].pin \in PinsAsked /\ job[r].thread \in Asking
  BY DEF Opening, Cataloguing
<1>2. job[r].thread # Nothing => [at |-> "pinning", pin |-> job[r].pin, thread |-> job[r].thread] \in Pinning
  BY <1>1 DEF Pinning, Asking
<1> QED BY <1>2 DEF AfterConnector, Jobs

(* Uploads and definitions. *)
LEMMA UploadsTyped ==
  ASSUME SourcesTyped, NEW r \in Requests,
         \/ \E s \in Sources, c \in Contents : ImportStarts(r, s, c) \/ RegisterPostgres(r, s, c)
         \/ FilesImported(r) \/ SourceCreated(r) \/ Described(r)
  PROVE  SourcesTyped'
<1>1. ASSUME NEW s \in Sources, NEW c \in Contents, ImportStarts(r, s, c)
      PROVE  SourcesTyped'
  <2> DEFINE j == [at |-> "staging", source |-> s, content |-> c, kind |-> "file", pool |-> NoPool]
  <2>1. j \in Jobs
    <3>1. j \in Uploading
      BY DEF Uploading, SourceKinds
    <3> QED BY <3>1 DEF Jobs
  <2>2. job' = [job EXCEPT ![r] = j] /\ UNCHANGED <<registry_vars, files, process_vars>>
    BY <1>1 DEF ImportStarts, Becomes
  <2> HIDE DEF j
  <2> QED BY <2>1, <2>2, JobStaysTyped DEF SourcesTyped, SourceTypeOK, registry_vars, process_vars
<1>2. ASSUME NEW s \in Sources, NEW c \in Contents, RegisterPostgres(r, s, c)
      PROVE  SourcesTyped'
  <2>1. [kind |-> "postgres", content |-> c, active |-> 0] \in SourceRows
    BY DEF SourceRows, SourceKinds
  <2>2. data_sources' \in [Sources -> SourceRows \cup {Absent}]
    BY <1>2, <2>1 DEF RegisterPostgres, SourcesTyped, SourceTypeOK
  <2> QED BY <1>2, <2>2 DEF RegisterPostgres, SourcesTyped, SourceTypeOK, process_vars
<1>3. CASE FilesImported(r) \/ SourceCreated(r)
  <2>1. job[r] \in Jobs /\ job[r].at \in {"staging", "creating"}
    BY <1>3 DEF SourcesTyped, FilesImported, SourceCreated, Awaits
  <2>2. job[r] \in Uploading
    BY <2>1, JobRecords
  <2>3. /\ job[r].source \in Sources /\ job[r].content \in Contents
        /\ \A at \in {"creating", "publishing"} : [job[r] EXCEPT !.at = at] \in Jobs
    <3>1. \A at \in {"creating", "publishing"} : [job[r] EXCEPT !.at = at] \in Uploading
      BY <2>2 DEF Uploading
    <3> QED BY <2>2, <3>1 DEF Uploading, Jobs
  <2>4. job' \in [Requests -> Jobs] /\ DOMAIN job' = Requests
    <3>1. \E at \in {"creating", "publishing"} : job' = [job EXCEPT ![r] = [job[r] EXCEPT !.at = at]]
      BY <1>3 DEF FilesImported, SourceCreated
    <3> QED BY <2>3, <3>1, JobStaysTyped
  <2>5. CASE FilesImported(r)
    <3>1. files' \in [Sources -> SUBSET Contents]
      BY <2>3, <2>5 DEF FilesImported, SourcesTyped, SourceTypeOK
    <3> QED BY <2>4, <2>5, <3>1 DEF FilesImported, SourcesTyped, SourceTypeOK, registry_vars, process_vars
  <2>6. CASE SourceCreated(r)
    <3>1. [kind |-> "file", content |-> job[r].content, active |-> 0] \in SourceRows
      BY <2>3 DEF SourceRows, SourceKinds
    <3>2. data_sources' \in [Sources -> SourceRows \cup {Absent}]
      BY <2>3, <2>6, <3>1 DEF SourceCreated, SourcesTyped, SourceTypeOK
    <3> QED BY <2>4, <2>6, <3>2 DEF SourceCreated, SourcesTyped, SourceTypeOK, process_vars
  <2> QED BY <1>3, <2>5, <2>6
<1>4. CASE Described(r)
  BY <1>4, IdleIsJob, JobStaysTyped
     DEF Described, RequestEnds, Becomes, SourcesTyped, SourceTypeOK, registry_vars, process_vars
<1> QED BY <1>1, <1>2, <1>3, <1>4

(* Publication. *)
LEMMA PublishTyped ==
  ASSUME SourcesTyped, NEW r \in Requests, Publish(r)
  PROVE  SourcesTyped'
<1> DEFINE s == job[r].source
           connector == [kind |-> job[r].kind, content |-> job[r].content, pool |-> job[r].pool]
<1>1. job[r] \in Jobs /\ job[r].at = "publishing"
  BY DEF SourcesTyped, Publish, Awaits
<1>2. job[r] \in Uploading \cup Cataloguing
  BY <1>1, JobRecords
<1>3. /\ s \in Sources /\ job[r].content \in Contents
      /\ connector \in OpenConnectors /\ PoolsOf(r) \subseteq Pools
  BY <1>2 DEF Uploading, Cataloguing, OpenConnectors, PoolsOf
<1>4. [job[r] EXCEPT !.at = "describing"] \in Jobs
  <2>1. CASE job[r] \in Uploading
    <3>1. [job[r] EXCEPT !.at = "describing"] \in Uploading
      BY <2>1 DEF Uploading
    <3> QED BY <3>1 DEF Jobs
  <2>2. CASE job[r] \in Cataloguing
    <3>1. [job[r] EXCEPT !.at = "describing"] \in Cataloguing
      BY <2>2 DEF Cataloguing
    <3> QED BY <3>1 DEF Jobs
  <2> QED BY <1>2, <2>1, <2>2
<1> DEFINE described == [job[r] EXCEPT !.at = "describing"]
<1>5. /\ snapshots' = [snapshots EXCEPT ![s] = job[r].content]
      /\ data_sources[s] # Absent
      /\ data_sources' = [data_sources EXCEPT ![s] = [data_sources[s] EXCEPT !.active = 1]]
      /\ \/ /\ connectors' = [connectors EXCEPT ![s] = connector]
            /\ Tracks(s, PoolsOf(r)) /\ open_pools' = open_pools
            /\ job' = [job EXCEPT ![r] = described]
         \/ /\ open_pools' = open_pools \ ClosesOnFailure(r) /\ job' = [job EXCEPT ![r] = Idle]
            /\ UNCHANGED <<connectors, source_resources, resources>>
      /\ UNCHANGED <<bindings, packs, pins, files>>
  BY DEF Publish, Publishable, RequestEnds, Becomes
<1> HIDE DEF s, connector, described
<1>6. snapshots' \in [Sources -> Contents \cup {Nothing}]
  BY <1>3, <1>5 DEF SourcesTyped, SourceTypeOK
<1>7. data_sources' \in [Sources -> SourceRows \cup {Absent}]
  <2>1. data_sources[s] \in SourceRows
    BY <1>3, <1>5 DEF SourcesTyped, SourceTypeOK
  <2>2. [data_sources[s] EXCEPT !.active = 1] \in SourceRows
    BY <2>1 DEF SourceRows
  <2> QED BY <1>3, <1>5, <2>2 DEF SourcesTyped, SourceTypeOK
<1>8. job' \in [Requests -> Jobs] /\ DOMAIN job' = Requests
  BY <1>4, <1>5, IdleIsJob, JobStaysTyped DEF described
<1>9. /\ connectors' \in [Sources -> OpenConnectors \cup {Absent}] /\ open_pools' \subseteq Pools
      /\ source_resources' \in [Sources -> SUBSET Pools] /\ resources' \subseteq Pools
  BY <1>3, <1>5 DEF Tracks, SourcesTyped, SourceTypeOK
<1> QED BY <1>5, <1>6, <1>7, <1>8, <1>9 DEF SourcesTyped, SourceTypeOK

(* Connectors that are restored. *)
LEMMA RestoringTyped ==
  ASSUME SourcesTyped, NEW r \in Requests,
         \/ \E s \in Sources : Materialise(r, s) \/ GetConnector(r, s)
         \/ RestoreFile(r) \/ RestorePostgres(r) \/ PoolOpened(r) \/ Catalogued(r)
  PROVE  SourcesTyped'
<1>0. job[r] \in Jobs
  BY DEF SourcesTyped
<1>1. ASSUME NEW s \in Sources, Materialise(r, s)
      PROVE  SourcesTyped'
  <2> DEFINE j == [at |-> "pooling", source |-> s, content |-> data_sources[s].content,
                   kind |-> "postgres", restores |-> FALSE, pin |-> Absent, thread |-> Nothing]
  <2>1. data_sources[s] \in SourceRows
    BY <1>1 DEF Materialise, SourcesTyped, SourceTypeOK
  <2>2. j \in Jobs
    <3>1. j \in Pooling
      BY <2>1 DEF Pooling, SourceRows, SourceKinds, PinsAsked, Asking
    <3> QED BY <3>1 DEF Jobs
  <2>3. job' = [job EXCEPT ![r] = j] /\ UNCHANGED <<registry_vars, files, process_vars>>
    BY <1>1 DEF Materialise, Becomes
  <2> HIDE DEF j
  <2> QED BY <2>2, <2>3, JobStaysTyped DEF SourcesTyped, SourceTypeOK, registry_vars, process_vars
<1>2. ASSUME NEW s \in Sources, GetConnector(r, s)
      PROVE  SourcesTyped'
  BY <1>2, AsksTyped DEF GetConnector, PinsAsked, Asking
<1>3. CASE RestoreFile(r)
  <2>1. job[r] \in Opening /\ AfterConnector(r) \in Jobs /\ job[r].source \in Sources
    <3>1. job[r] \in Opening
      BY <1>0, <1>3, JobRecords DEF RestoreFile, Awaits
    <3> QED BY <3>1, AfterIsJob DEF Opening
  <2>2. PICK c \in files[job[r].source] : RegisterOrUse(r, [kind |-> "file", content |-> c, pool |-> NoPool])
    BY <1>3 DEF RestoreFile
  <2>3. [kind |-> "file", content |-> c, pool |-> NoPool] \in OpenConnectors
    BY <2>1 DEF OpenConnectors, SourceKinds, SourcesTyped, SourceTypeOK
  <2>4. connectors' \in [Sources -> OpenConnectors \cup {Absent}]
    BY <2>2, <2>3, RegisterTyped
  <2>5. job' = [job EXCEPT ![r] = AfterConnector(r)]
        /\ UNCHANGED <<registry_vars, files, open_pools, source_resources, resources>>
    BY <1>3 DEF RestoreFile, Becomes
  <2> QED BY <2>1, <2>4, <2>5, JobStaysTyped DEF SourcesTyped, SourceTypeOK, registry_vars
<1>4. CASE RestorePostgres(r)
  <2> DEFINE j == [at |-> "pooling", source |-> job[r].source, content |-> job[r].content,
                   kind |-> "postgres", restores |-> TRUE,
                   pin |-> job[r].pin, thread |-> job[r].thread]
  <2>1. j \in Jobs
    <3>1. job[r] \in Opening
      BY <1>0, <1>4, JobRecords DEF RestorePostgres, Awaits
    <3>2. j \in Pooling
      BY <3>1 DEF Opening, Pooling, SourceKinds
    <3> QED BY <3>2 DEF Jobs
  <2>2. job' = [job EXCEPT ![r] = j] /\ UNCHANGED <<registry_vars, files, process_vars>>
    BY <1>4 DEF RestorePostgres, Becomes
  <2> HIDE DEF j
  <2> QED BY <2>1, <2>2, JobStaysTyped DEF SourcesTyped, SourceTypeOK, registry_vars, process_vars
<1>5. CASE PoolOpened(r)
  <2> DEFINE p == CHOOSE free \in Pools \ open_pools : TRUE
             j == [at |-> "cataloguing", source |-> job[r].source,
                   content |-> job[r].content, kind |-> "postgres", pool |-> p,
                   restores |-> job[r].restores, pin |-> job[r].pin,
                   thread |-> job[r].thread]
  <2>1. p \in Pools
    BY <1>5 DEF PoolOpened
  <2>2. open_pools' = open_pools \cup {p} /\ job' = [job EXCEPT ![r] = j]
        /\ UNCHANGED <<registry_vars, files, connectors, source_resources, resources>>
    BY <1>5 DEF PoolOpened, Becomes
  <2> HIDE DEF p
  <2>3. j \in Jobs
    <3>1. job[r] \in Pooling
      BY <1>0, <1>5, JobRecords DEF PoolOpened, Awaits
    <3>2. j \in Cataloguing
      BY <2>1, <3>1 DEF Pooling, Cataloguing, SourceKinds
    <3> QED BY <3>2 DEF Jobs
  <2> HIDE DEF j
  <2> QED BY <2>1, <2>2, <2>3, JobStaysTyped DEF SourcesTyped, SourceTypeOK, registry_vars
<1>6. CASE Catalogued(r)
  <2>1. job[r] \in Cataloguing
    BY <1>0, <1>6, JobRecords DEF Catalogued, Awaits
  <2>2. /\ job[r].source \in Sources /\ job[r].pool \in Pools
        /\ [kind |-> "postgres", content |-> job[r].content, pool |-> job[r].pool] \in OpenConnectors
    BY <2>1 DEF Cataloguing, OpenConnectors, SourceKinds
  <2>3. CASE job' = [job EXCEPT ![r].at = "publishing"] /\ UNCHANGED process_vars
    <3> DEFINE j == [job[r] EXCEPT !.at = "publishing"]
    <3>1. j \in Jobs
      <4>1. j \in Cataloguing
        BY <2>1 DEF Cataloguing
      <4> QED BY <4>1 DEF Jobs
    <3>2. job' = [job EXCEPT ![r] = j]
      BY <2>3
    <3> HIDE DEF j
    <3> QED BY <1>6, <2>3, <3>1, <3>2, JobStaysTyped
            DEF Catalogued, SourcesTyped, SourceTypeOK, registry_vars, process_vars
  <2>4. CASE /\ Tracks(job[r].source, {job[r].pool})
             /\ RegisterOrUse(r, [kind |-> "postgres", content |-> job[r].content,
                                  pool |-> job[r].pool])
             /\ Becomes(r, AfterConnector(r))
             /\ UNCHANGED open_pools
    <3>1. AfterConnector(r) \in Jobs
      BY <2>1, AfterIsJob
    <3>2. job' \in [Requests -> Jobs] /\ DOMAIN job' = Requests
      BY <2>4, <3>1, JobStaysTyped DEF Becomes
    <3>3. connectors' \in [Sources -> OpenConnectors \cup {Absent}]
      BY <2>2, <2>4, RegisterTyped
    <3>4. source_resources' \in [Sources -> SUBSET Pools] /\ resources' \subseteq Pools
      BY <2>2, <2>4 DEF Tracks, SourcesTyped, SourceTypeOK
    <3> QED BY <1>6, <2>4, <3>2, <3>3, <3>4
            DEF Catalogued, SourcesTyped, SourceTypeOK, registry_vars
  <2> QED BY <1>6, <2>3, <2>4 DEF Catalogued
<1> QED BY <1>1, <1>2, <1>3, <1>4, <1>5, <1>6

(* A source is deleted, then its connector, its pools and its files. *)
LEMMA RemovalTyped ==
  ASSUME SourcesTyped, NEW r \in Requests,
         (\E s \in Sources : Delete(r, s)) \/ DeleteRow(r) \/ ClosePool(r)
  PROVE  SourcesTyped'
<1>0. job[r] \in Jobs
  BY DEF SourcesTyped
<1>1. ASSUME NEW s \in Sources, Delete(r, s)
      PROVE  SourcesTyped'
  <2> DEFINE j == [at |-> "removing", source |-> s, kind |-> data_sources[s].kind]
  <2>1. data_sources[s] \in SourceRows
    BY <1>1 DEF Delete, SourcesTyped, SourceTypeOK
  <2>2. j \in Jobs
    <3>1. j \in Removing
      BY <2>1 DEF Removing, SourceRows
    <3> QED BY <3>1 DEF Jobs
  <2>3. job' = [job EXCEPT ![r] = j] /\ UNCHANGED <<files, process_vars>>
    BY <1>1 DEF Delete, Becomes
  <2> HIDE DEF j
  <2>4. job' \in [Requests -> Jobs] /\ DOMAIN job' = Requests
    BY <2>2, <2>3, JobStaysTyped
  <2>5. /\ data_sources' = [data_sources EXCEPT ![s] = Absent]
        /\ snapshots' = [snapshots EXCEPT ![s] = Nothing]
        /\ bindings' \subseteq bindings /\ packs' \subseteq packs
        /\ pins' = [t \in Threads |-> IF t \in PinsOf(s) THEN Absent ELSE pins[t]]
    BY <1>1 DEF Delete
  <2>6. pins' \in [Threads -> Pins \cup {Absent}]
    BY <2>5 DEF SourcesTyped, SourceTypeOK
  <2>7. /\ data_sources' \in [Sources -> SourceRows \cup {Absent}]
        /\ snapshots' \in [Sources -> Contents \cup {Nothing}]
        /\ bindings' \subseteq BindingRows /\ packs' \subseteq Sources
    BY <2>5 DEF SourcesTyped, SourceTypeOK
  <2> QED BY <2>3, <2>4, <2>6, <2>7 DEF SourcesTyped, SourceTypeOK, process_vars
<1>2. CASE DeleteRow(r)
  <2> DEFINE s == job[r].source
             j == [at |-> "closing", source |-> s, kind |-> job[r].kind,
                   doomed |-> source_resources[s]]
  <2>1. job[r] \in Removing
    BY <1>0, <1>2, JobRecords DEF DeleteRow, Awaits
  <2>2. s \in Sources /\ job[r].kind \in SourceKinds
    BY <2>1 DEF Removing
  <2>3. j \in Jobs
    <3>1. j \in Closing
      BY <2>2 DEF Closing, SourcesTyped, SourceTypeOK
    <3> QED BY <3>1 DEF Jobs
  <2>4. /\ connectors' = [connectors EXCEPT ![s] = Absent]
        /\ source_resources' = [source_resources EXCEPT ![s] = {}]
        /\ UNCHANGED <<registry_vars, open_pools, resources>>
        /\ \/ RemovesFiles(s, job[r].kind) /\ job' = [job EXCEPT ![r] = Idle]
           \/ job' = [job EXCEPT ![r] = j] /\ UNCHANGED files
    BY <1>2 DEF DeleteRow, RequestEnds, Becomes
  <2> HIDE DEF s, j
  <2>5. job' \in [Requests -> Jobs] /\ DOMAIN job' = Requests
    BY <2>3, <2>4, IdleIsJob, JobStaysTyped
  <2>6. files' \in [Sources -> SUBSET Contents]
    BY <2>2, <2>4 DEF RemovesFiles, SourcesTyped, SourceTypeOK
  <2>7. /\ connectors' \in [Sources -> OpenConnectors \cup {Absent}]
        /\ source_resources' \in [Sources -> SUBSET Pools]
    BY <2>4 DEF SourcesTyped, SourceTypeOK
  <2> QED BY <2>4, <2>5, <2>6, <2>7 DEF SourcesTyped, SourceTypeOK, registry_vars
<1>3. CASE ClosePool(r)
  <2> DEFINE p == Max(job[r].doomed)
             left == job[r].doomed \ {p}
             j == [job[r] EXCEPT !.doomed = left]
  <2>1. job[r] \in Closing
    BY <1>0, <1>3, JobRecords DEF ClosePool, Awaits
  <2>2. /\ open_pools' = open_pools \ {p} /\ resources' = resources \ {p}
        /\ UNCHANGED <<registry_vars, connectors, source_resources>>
        /\ \/ job' = [job EXCEPT ![r] = j] /\ UNCHANGED files
           \/ RemovesFiles(job[r].source, job[r].kind) /\ job' = [job EXCEPT ![r] = Idle]
    BY <1>3 DEF ClosePool, RequestEnds, Becomes
  <2> HIDE DEF p
  <2>3. j \in Jobs
    <3>1. j \in Closing
      BY <2>1 DEF Closing
    <3> QED BY <3>1 DEF Jobs
  <2> HIDE DEF left, j
  <2>4. job' \in [Requests -> Jobs] /\ DOMAIN job' = Requests
    BY <2>2, <2>3, IdleIsJob, JobStaysTyped
  <2>5. files' \in [Sources -> SUBSET Contents]
    BY <2>2 DEF RemovesFiles, SourcesTyped, SourceTypeOK
  <2>6. open_pools' \subseteq Pools /\ resources' \subseteq Pools
    BY <2>2 DEF SourcesTyped, SourceTypeOK
  <2> QED BY <2>2, <2>4, <2>5, <2>6 DEF SourcesTyped, SourceTypeOK, registry_vars
<1> QED BY <1>1, <1>2, <1>3

(* Bindings are versioned, saved and activated. *)
LEMMA BindingTyped ==
  ASSUME SourcesTyped, NEW r \in Requests,
         \/ \E s \in Sources, b \in Bindings : BindingAsked(r, s, b)
         \/ BindingVersioned(r) \/ SaveBinding(r) \/ AssignPack(r)
         \/ \E b \in bindings : ActivateBinding(r, b)
  PROVE  SourcesTyped'
<1>0. job[r] \in Jobs
  BY DEF SourcesTyped
<1>1. ASSUME NEW s \in Sources, NEW b \in Bindings, BindingAsked(r, s, b)
      PROVE  SourcesTyped'
  <2>1. [at |-> "versioning", source |-> s, binding |-> b] \in Jobs
    BY DEF Versioning, Jobs
  <2> QED BY <1>1, <2>1, JobStaysTyped
          DEF BindingAsked, Becomes, SourcesTyped, SourceTypeOK, registry_vars, process_vars
<1>2. CASE BindingVersioned(r)
  <2> DEFINE n == NextVersion(job[r].source)
             j == [at |-> "saving", source |-> job[r].source, binding |-> job[r].binding,
                   version |-> n]
  <2>1. job[r] \in Versioning
    BY <1>0, <1>2, JobRecords DEF BindingVersioned, Awaits
  <2>2. n \in 1 .. MaxBinding
    BY <1>2, VersionsAreCounted DEF BindingVersioned, SourcesTyped
  <2>3. job' = [job EXCEPT ![r] = j] /\ UNCHANGED <<registry_vars, files, process_vars>>
    BY <1>2 DEF BindingVersioned, Becomes
  <2> HIDE DEF n
  <2>4. j \in Jobs
    <3>1. j \in SavingRow
      BY <2>1, <2>2 DEF Versioning, SavingRow
    <3> QED BY <3>1 DEF Jobs
  <2> HIDE DEF j
  <2> QED BY <2>3, <2>4, JobStaysTyped DEF SourcesTyped, SourceTypeOK, registry_vars, process_vars
<1>3. CASE SaveBinding(r)
  <2> DEFINE new == [id |-> job[r].binding, source |-> job[r].source,
                     version |-> job[r].version, status |-> "draft"]
  <2>1. job[r] \in SavingRow
    BY <1>0, <1>3, JobRecords DEF SaveBinding, Awaits
  <2>2. new \in BindingRows
    BY <2>1 DEF SavingRow, BindingRows
  <2>3. /\ bindings' = bindings \cup {new} /\ job' = [job EXCEPT ![r] = Idle]
        /\ UNCHANGED <<data_sources, snapshots, packs, pins, files, process_vars>>
    BY <1>3 DEF SaveBinding, RequestEnds, Becomes
  <2> HIDE DEF new
  <2> QED BY <2>2, <2>3, IdleIsJob, JobStaysTyped DEF SourcesTyped, SourceTypeOK, process_vars
<1>4. CASE AssignPack(r)
  <2>1. job[r] \in Assigning
    BY <1>0, <1>4, JobRecords DEF AssignPack, Awaits
  <2>2. job[r].source \in Sources
    BY <2>1 DEF Assigning
  <2> QED BY <1>4, <2>2, IdleIsJob, JobStaysTyped
          DEF AssignPack, RequestEnds, Becomes, SourcesTyped, SourceTypeOK, process_vars
<1>5. ASSUME NEW binding \in bindings, ActivateBinding(r, binding)
      PROVE  SourcesTyped'
  <2>1. /\ bindings \subseteq BindingRows /\ binding.source \in Sources
    BY DEF SourcesTyped, SourceTypeOK, BindingRows
  <2>2. \A b \in bindings : \A status \in {"active", "retired"} :
          [b EXCEPT !.status = status] \in BindingRows
    BY <2>1 DEF BindingRows
  <2>3. bindings' \subseteq BindingRows
    BY <1>5, <2>1, <2>2 DEF ActivateBinding
  <2>4. [at |-> "assigning", source |-> binding.source] \in Jobs
    BY <2>1 DEF Assigning, Jobs
  <2>5. /\ job' = [job EXCEPT ![r] = [at |-> "assigning", source |-> binding.source]]
        /\ UNCHANGED <<data_sources, snapshots, packs, pins, files, process_vars>>
    BY <1>5 DEF ActivateBinding, Becomes
  <2> QED BY <2>3, <2>4, <2>5, JobStaysTyped DEF SourcesTyped, SourceTypeOK, process_vars
<1> QED BY <1>1, <1>2, <1>3, <1>4, <1>5

(* A conversation is pinned to the binding that was resolved for it. *)
LEMMA PinningTyped ==
  ASSUME SourcesTyped, NEW r \in Requests,
         \/ \E s \in Sources, b \in Bindings, t \in Threads : ResolveStarts(r, s, b, t)
         \/ Resolve(r) \/ PinConversation(r)
  PROVE  SourcesTyped'
<1>0. job[r] \in Jobs
  BY DEF SourcesTyped
<1>1. ASSUME NEW s \in Sources, NEW b \in Bindings, NEW t \in Threads, ResolveStarts(r, s, b, t)
      PROVE  SourcesTyped'
  <2>1. [at |-> "resolving", source |-> s, binding |-> b, thread |-> t] \in Jobs
    <3>1. [at |-> "resolving", source |-> s, binding |-> b, thread |-> t] \in Resolving
      BY DEF Resolving
    <3> QED BY <3>1 DEF Jobs
  <2> QED BY <1>1, <2>1, JobStaysTyped
          DEF ResolveStarts, Becomes, SourcesTyped, SourceTypeOK, registry_vars, process_vars
<1>2. CASE Resolve(r)
  <2>1. job[r] \in Resolving
    BY <1>0, <1>2, JobRecords DEF Resolve, Awaits
  <2>2. PICK b \in bindings :
          ConnectorAsked(r, b.source, [source |-> b.source, binding |-> b.id,
                                       version |-> b.version], job[r].thread)
    BY <1>2 DEF Resolve
  <2>3. b \in BindingRows
    BY DEF SourcesTyped, SourceTypeOK
  <2>4. /\ b.source \in Sources /\ job[r].thread \in Asking
        /\ [source |-> b.source, binding |-> b.id, version |-> b.version] \in PinsAsked
    BY <2>1, <2>3 DEF BindingRows, Resolving, Asking, PinsAsked, Pins
  <2> QED BY <2>2, <2>4, AsksTyped
<1>3. CASE PinConversation(r)
  <2>1. job[r] \in Pinning
    BY <1>0, <1>3, JobRecords DEF PinConversation, Awaits
  <2>2. job[r].thread \in Threads /\ job[r].pin \in Pins \cup {Absent}
    BY <2>1 DEF Pinning, PinsAsked
  <2>3. pins' \in [Threads -> Pins \cup {Absent}]
    BY <1>3, <2>2 DEF PinConversation, SourcesTyped, SourceTypeOK
  <2> QED BY <1>3, <2>3, IdleIsJob, JobStaysTyped
          DEF PinConversation, RequestEnds, Becomes, SourcesTyped, SourceTypeOK, process_vars
<1> QED BY <1>1, <1>2, <1>3

(* A request ends early, or all of them do. *)
LEMMA StoppingTyped ==
  ASSUME SourcesTyped, (\E r \in Requests : JobFails(r)) \/ Restart
  PROVE  SourcesTyped'
<1>1. ASSUME NEW r \in Requests, JobFails(r)
      PROVE  SourcesTyped'
  <2>1. open_pools' \subseteq open_pools /\ resources' \subseteq resources
    BY <1>1 DEF JobFails
  <2> QED BY <1>1, <2>1, IdleIsJob, JobStaysTyped
          DEF JobFails, RequestEnds, Becomes, SourcesTyped, SourceTypeOK, registry_vars
<1>2. CASE Restart
  BY <1>2, IdleIsJob DEF Restart, SourcesTyped, SourceTypeOK, registry_vars
<1> QED BY <1>1, <1>2

LEMMA SourcesTypedInit == SourceInit => SourcesTyped
BY IdleIsJob DEF SourceInit, SourcesTyped, SourceTypeOK

LEMMA SourcesTypedStep == SourcesTyped /\ [SourceNext]_source_vars => SourcesTyped'
<1> SUFFICES ASSUME SourcesTyped, [SourceNext]_source_vars PROVE SourcesTyped'
  OBVIOUS
<1>1. ASSUME NEW r \in Requests, NEW s \in Sources, NEW c \in Contents,
             ImportStarts(r, s, c) \/ RegisterPostgres(r, s, c)
      PROVE  SourcesTyped'
  BY <1>1, UploadsTyped
<1>2. ASSUME NEW r \in Requests, NEW s \in Sources,
             Materialise(r, s) \/ GetConnector(r, s) \/ Delete(r, s)
      PROVE  SourcesTyped'
  BY <1>2, RestoringTyped, RemovalTyped
<1>3. ASSUME NEW r \in Requests, NEW s \in Sources, NEW b \in Bindings,
             BindingAsked(r, s, b) \/ \E t \in Threads : ResolveStarts(r, s, b, t)
      PROVE  SourcesTyped'
  BY <1>3, BindingTyped, PinningTyped
<1>4. ASSUME NEW r \in Requests,
             \/ FilesImported(r) \/ SourceCreated(r) \/ Publish(r) \/ Described(r)
             \/ RestoreFile(r) \/ RestorePostgres(r) \/ PoolOpened(r) \/ Catalogued(r)
      PROVE  SourcesTyped'
  BY <1>4, UploadsTyped, PublishTyped, RestoringTyped
<1>5. ASSUME NEW r \in Requests,
             \/ DeleteRow(r) \/ ClosePool(r)
             \/ BindingVersioned(r) \/ SaveBinding(r) \/ AssignPack(r)
             \/ \E b \in bindings : ActivateBinding(r, b)
             \/ Resolve(r) \/ PinConversation(r) \/ JobFails(r)
      PROVE  SourcesTyped'
  BY <1>5, RemovalTyped, BindingTyped, PinningTyped, StoppingTyped
<1>6. CASE Restart
  BY <1>6, StoppingTyped
<1>7. CASE UNCHANGED source_vars
  BY <1>7 DEF source_vars, registry_vars, process_vars, SourcesTyped, SourceTypeOK
<1> QED BY <1>1, <1>2, <1>3, <1>4, <1>5, <1>6, <1>7 DEF SourceNext

(* Tables, files, connectors and pools hold values of their kinds however    *)
(* the requests overlap, fail and are stopped: what a request has read keeps *)
(* its kind until it is written.                                             *)
THEOREM SourceTypesHold == SourceSpec => []SourceTypeOK
<1>1. SourcesTyped => SourceTypeOK
  BY DEF SourcesTyped
<1> QED BY <1>1, SourcesTypedInit, SourcesTypedStep, PTL DEF SourceSpec
=============================================================================
