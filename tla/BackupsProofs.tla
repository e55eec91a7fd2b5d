---------------------------- MODULE BackupsProofs ----------------------------
(***************************************************************************)
(* Safety of Backups for any number of backups, of concurrent restorations *)
(* and deletions, and of failures.                                         *)
(***************************************************************************)
EXTENDS Backups, TLAPS

\* What runBackup of b and its call are at: one call, made once, on b itself.
RunOK(b) ==
  /\ req[b] = Idle \/ (req[b].op = "create" /\ req[b].backup = b /\ req[b].pc \in {"begin", "call"})
  /\ work[b] = Nothing \/ (work[b].backup = b /\ work[b].step \in {"open", "close", "put", "drop"})
  /\ work[b].step \in {"put", "drop"} => remote[b]
  /\ status[b] = "none" \/ req[b].pc = "begin" => work[b] = Nothing /\ answer[b] = "none"
  /\ status[b] = "none" => req[b] = Idle
  /\ answer[b] # "none" => req[b].pc = "call"

\* What a restoration or a deletion and its call are at.  Only the call of a
\* deletion removes what the driver keeps, and its backup is spoiled.
RequestOK(h) ==
  /\ req[h] = Idle \/ (/\ req[h].op \in {"restore", "delete"} /\ req[h].backup \in Archives
                       /\ req[h].pc \in {"begin", "call"})
  /\ work[h] = Nothing \/ (/\ work[h].backup \in Archives
                           /\ work[h].step \in {"extract", "get", "drop", "remove", "removeObject"})
  /\ work[h].step \in {"get", "drop"} => remote[work[h].backup]
  /\ work[h].step \in {"remove", "removeObject"} => work[h].backup \in spoiled
  /\ req[h].op = "delete" => req[h].backup \in spoiled

\* runBackup of b is over and left a whole archive.
Done(b) ==
  status[b] # "none" /\ req[b] = Idle /\ work[b] = Nothing /\ answer[b] = "none" /\ Stored(b) = "whole"

\* What runBackup of b has left of the archive at its steps.
Progress(b) ==
  /\ work[b].step = "put" => disk[b] = "whole"
  /\ work[b].step = "drop" /\ work[b].outcome = "ok" => bucket[b] = "whole"
  /\ answer[b] = "ok" => Stored(b) = "whole" /\ work[b] = Nothing

\* Each request and call on an unspoiled backup came after the end of its
\* runBackup, so no two of them write one file.
Unspoiled(b) ==
  /\ status[b] \in {"COMPLETED", "RESTORING"} => Done(b)
  /\ \A h \in Requests : req[h] # Idle /\ req[h].backup = b => Done(b)
  /\ \A h \in Requests : work[h] # Nothing /\ work[h].backup = b => Done(b)
  /\ Progress(b)

BackupInv ==
  /\ TypeOK
  /\ \A b \in Archives : RunOK(b)
  /\ \A h \in Requests : RequestOK(h)
  /\ \A b \in Archives : b \notin spoiled => Unspoiled(b)
  /\ BusyExplained

-----------------------------------------------------------------------------
(* The records *)

Operations == {"create", "restore", "delete"}

\* Where a request stands.
LEMMA StateFacts ==
  /\ Idle \in RequestStates /\ Idle.op = "none" /\ Idle.pc = "idle"
  /\ \A operation \in Operations, b \in Archives, pc \in {"begin", "call"} :
       LET r == State(operation, b, pc) IN
         /\ r \in RequestStates /\ r # Idle
         /\ r.op = operation /\ r.backup = b /\ r.pc = pc
BY DEF Idle, State, RequestStates, Operations

\* Where a call stands.
LEMMA CallFacts ==
  /\ Nothing \in Calls /\ Nothing.step = "idle"
  /\ \A step \in Steps \ {"idle"}, b \in Archives : At(step, b) \in Calls /\ At(step, b) # Nothing
BY DEF Nothing, At, Calls, Steps

\* A new call starts at the first step of its operation.
LEMMA FirstStepFacts ==
  ASSUME NEW operation \in Operations, NEW b \in Archives
  PROVE  /\ FirstStep(operation, b) \in Steps \ {"idle"}
         /\ operation = "create" => FirstStep(operation, b) = "open"
         /\ operation = "restore" => FirstStep(operation, b) = IF remote[b] THEN "get" ELSE "extract"
         /\ operation = "delete" => FirstStep(operation, b) \in {"remove", "removeObject"}
BY DEF FirstStep, Operations, Steps

\* Failures stay within their bound.
LEMMA FaultFacts == TypeOK /\ (Fault \/ UNCHANGED faults) => faults' \in 0 .. MaxFaults
BY FaultsAssumption DEF TypeOK, Fault

\* Every process is a runBackup or a request.
LEMMA ProcessFacts == Processes = Archives \cup Requests /\ Archives \cap Requests = {}
BY ProcessAssumption DEF Processes

-----------------------------------------------------------------------------
(* The steps *)

\* No backup exists, and nothing runs.
LEMMA InitBackups == Init => BackupInv
<1>. SUFFICES ASSUME Init PROVE BackupInv
  OBVIOUS
<1>1. TypeOK
  <2>1. Idle \in RequestStates /\ Nothing \in Calls /\ 0 \in 0 .. MaxFaults
    BY FaultsAssumption, StateFacts, CallFacts
  <2>. QED
    BY <2>1 DEF Init, TypeOK, Statuses
<1>2. \A b \in Archives : RunOK(b) /\ Unspoiled(b)
  BY StateFacts, CallFacts, ProcessFacts DEF Init, RunOK, Unspoiled, Progress
<1>3. \A h \in Requests : RequestOK(h)
  BY StateFacts, CallFacts, ProcessFacts DEF Init, RequestOK
<1>4. BusyExplained
  BY DEF Init, BusyExplained
<1>. QED
  BY <1>1, <1>2, <1>3, <1>4 DEF BackupInv

\* A step of the call of p touches the archive of its backup only: the
\* invariant holds after it when it does of p, and the archive stays what it
\* was when p is a request on an unspoiled backup.
LEMMA CallKeeps ==
  ASSUME BackupInv, NEW p \in Processes, TypeOK', work[p] # Nothing,
         UNCHANGED <<status, remote, req, cut, spoiled>>,
         \A q \in Processes : q # p => work'[q] = work[q] /\ answer'[q] = answer[q],
         \A c \in Archives : c # work[p].backup => disk'[c] = disk[c] /\ bucket'[c] = bucket[c],
         p \in Archives => RunOK(p)' /\ (p \notin spoiled => Progress(p)'),
         p \in Requests => /\ RequestOK(p)'
                           /\ work'[p] = Nothing \/ work'[p].backup = work[p].backup
                           /\ \A c \in Archives :
                                c = work[p].backup /\ c \notin spoiled => Stored(c)' = Stored(c)
  PROVE  BackupInv'
<1>. USE ProcessFacts DEF BackupInv
<1>1. \A b \in Archives : RunOK(b)'
  BY DEF RunOK
<1>2. \A h \in Requests : RequestOK(h)'
  BY DEF RequestOK
<1>3. ASSUME NEW c \in Archives, c \notin spoiled'
      PROVE  Unspoiled(c)'
  <2>0. Unspoiled(c) /\ c \notin spoiled
    BY <1>3
  <2>1. CASE p = c
    <3>1. ~Done(c)
      BY <2>1 DEF Done
    <3>2. /\ status'[c] \notin {"COMPLETED", "RESTORING"}
          /\ \A h \in Requests : ~(req'[h] # Idle /\ req'[h].backup = c)
      BY <2>0, <3>1 DEF Unspoiled
    <3>3. \A h \in Requests : ~(work'[h] # Nothing /\ work'[h].backup = c)
      BY <2>0, <2>1, <3>1 DEF Unspoiled
    <3>. QED
      BY <2>0, <2>1, <3>2, <3>3 DEF Unspoiled
  <2>2. CASE p # c /\ work[p].backup # c
    <3>1. work'[c] = work[c] /\ answer'[c] = answer[c] /\ disk'[c] = disk[c] /\ bucket'[c] = bucket[c]
      BY <2>2
    <3>2. Stored(c)' = Stored(c)
      BY <3>1 DEF Stored
    <3>3. Done(c) => Done(c)'
      BY <3>1, <3>2 DEF Done
    <3>4. Progress(c)'
      BY <2>0, <3>1, <3>2 DEF Unspoiled, Progress
    <3>5. \A h \in Requests : work'[h] # Nothing /\ work'[h].backup = c => work[h] # Nothing /\ work[h].backup = c
      BY <2>2
    <3>. QED
      BY <2>0, <3>3, <3>4, <3>5 DEF Unspoiled
  <2>3. CASE p # c /\ work[p].backup = c
    <3>1. p \in Requests
      BY <2>3 DEF RunOK
    <3>2. Done(c)
      BY <2>0, <2>3, <3>1 DEF Unspoiled
    <3>3. Stored(c)' = Stored(c)
      BY <2>0, <2>3, <3>1
    <3>4. Done(c)' /\ work'[c] = Nothing /\ answer'[c] = "none"
      BY <2>3, <3>2, <3>3 DEF Done
    <3>5. Progress(c)'
      BY <3>4, CallFacts DEF Progress
    <3>. QED
      BY <3>4, <3>5 DEF Unspoiled
  <2>. QED
    BY <2>1, <2>2, <2>3
<1>4. BusyExplained'
  BY DEF BusyExplained
<1>. QED
  BY <1>1, <1>2, <1>3, <1>4

-----------------------------------------------------------------------------
(* The steps of a call *)

Ends == {"ok", "refused"}

\* Whose call is at a step.
LEMMA DoingFacts ==
  ASSUME BackupInv, NEW p \in Processes, work[p].step # "idle"
  PROVE  /\ work[p] # Nothing /\ work[p].backup \in Archives
         /\ work[p].step \in {"open", "close", "put"} => p \in Archives
         /\ work[p].step \in {"extract", "get", "remove", "removeObject"} => p \in Requests
         /\ p \in Archives => work[p].backup = p
BY ProcessFacts, CallFacts DEF BackupInv, RunOK, RequestOK

\* A call that returns is over; its answer is new only while it is awaited.
LEMMA ReturnFacts ==
  ASSUME TypeOK, NEW p \in Processes, NEW a \in Ends, Return(p, a)
  PROVE  /\ work' \in [Processes -> Calls] /\ work'[p] = Nothing
         /\ answer' \in [Processes -> {"none", "ok", "refused", "failed"}]
         /\ answer'[p] = answer[p] \/ (answer'[p] = a /\ req[p].pc = "call")
         /\ \A q \in Processes : q # p => work'[q] = work[q] /\ answer'[q] = answer[q]
BY CallFacts DEF Return, Canceled, TypeOK, Ends

\* A call that goes on changes its own step only.
LEMMA GoOnFacts ==
  ASSUME TypeOK, NEW p \in Processes, NEW w \in Calls, GoOn(p, w)
  PROVE  /\ work' \in [Processes -> Calls] /\ work'[p] = w
         /\ answer' = answer
         /\ \A q \in Processes : q # p => work'[q] = work[q]
BY DEF GoOn, TypeOK

\* One file is written.
LEMMA FileFacts ==
  ASSUME TypeOK, NEW p \in Processes, work[p].backup \in Archives,
         NEW content \in {"none", "partial", "whole"}, File(p, content)
  PROVE  /\ disk' \in [Archives -> {"none", "partial", "whole"}]
         /\ disk'[work[p].backup] = content
         /\ \A c \in Archives : c # work[p].backup => disk'[c] = disk[c]
BY DEF File, TypeOK

\* One object is written.
LEMMA ObjectFacts ==
  ASSUME TypeOK, NEW p \in Processes, work[p].backup \in Archives,
         NEW content \in {"none", "partial", "whole"}, Object(p, content)
  PROVE  /\ bucket' \in [Archives -> {"none", "partial", "whole"}]
         /\ bucket'[work[p].backup] = content
         /\ \A c \in Archives : c # work[p].backup => bucket'[c] = bucket[c]
BY DEF Object, TypeOK

\* The stores keep their types, and but for the archive of the call, their contents.
StoresOnlyAt(b) ==
  /\ disk' \in [Archives -> {"none", "partial", "whole"}]
  /\ bucket' \in [Archives -> {"none", "partial", "whole"}]
  /\ \A c \in Archives : c # b => disk'[c] = disk[c] /\ bucket'[c] = bucket[c]

\* What every step of a call leaves alone.
CallOnly == UNCHANGED <<status, remote, req, cut, spoiled>> /\ faults' \in 0 .. MaxFaults

\* A call may return ok only with a whole archive behind it, and a request
\* leaves an unspoiled one as it was.
LEMMA ReturnKeeps ==
  ASSUME BackupInv, NEW p \in Processes, work[p].step # "idle", CallOnly,
         NEW a \in Ends, Return(p, a), StoresOnlyAt(work[p].backup),
         p \in Archives /\ p \notin spoiled /\ a = "ok" => Stored(p)' = "whole",
         \A c \in Archives :
           p \in Requests /\ c = work[p].backup /\ c \notin spoiled => Stored(c)' = Stored(c)
  PROVE  BackupInv'
<1>1. TypeOK /\ work[p] # Nothing /\ work[p].backup \in Archives
  BY DoingFacts DEF BackupInv
<1>2. /\ work' \in [Processes -> Calls] /\ work'[p] = Nothing
      /\ answer' \in [Processes -> {"none", "ok", "refused", "failed"}]
      /\ answer'[p] = answer[p] \/ (answer'[p] = a /\ req[p].pc = "call")
      /\ \A q \in Processes : q # p => work'[q] = work[q] /\ answer'[q] = answer[q]
  BY <1>1, ReturnFacts
<1>3. TypeOK'
  BY <1>1, <1>2 DEF TypeOK, StoresOnlyAt, CallOnly
<1>4. ASSUME p \in Archives PROVE RunOK(p)' /\ (p \notin spoiled => Progress(p)')
  <2>1. RunOK(p) /\ (p \notin spoiled => Progress(p))
    BY <1>4 DEF BackupInv, Unspoiled
  <2>2. RunOK(p)'
    BY <1>1, <1>2, <2>1, CallFacts DEF RunOK, CallOnly
  <2>3. ASSUME p \notin spoiled, answer'[p] = "ok" PROVE a = "ok"
    BY <1>1, <1>2, <2>1, <2>3 DEF Progress
  <2>4. p \notin spoiled => Progress(p)'
    BY <1>2, <1>4, <2>3, CallFacts DEF Progress
  <2>. QED
    BY <2>2, <2>4
<1>5. ASSUME p \in Requests PROVE RequestOK(p)'
  <2>1. RequestOK(p)
    BY <1>5 DEF BackupInv
  <2>. QED
    BY <1>2, <2>1, CallFacts DEF RequestOK, CallOnly
<1>. QED
  BY <1>1, <1>2, <1>3, <1>4, <1>5, CallKeeps DEF StoresOnlyAt, CallOnly

\* A call goes on to a step of its operation, on the same archive.
LEMMA GoOnKeeps ==
  ASSUME BackupInv, NEW p \in Processes, work[p].step # "idle", CallOnly,
         NEW w \in Calls, GoOn(p, w), w.backup = work[p].backup, StoresOnlyAt(work[p].backup),
         p \in Archives => /\ w.step \in {"close", "put", "drop"}
                           /\ w.step \in {"put", "drop"} => remote[p]
                           /\ w.step = "put" => disk'[p] = "whole" \/ p \in spoiled
                           /\ w.step = "drop" /\ w.outcome = "ok" => bucket'[p] = "whole" \/ p \in spoiled,
         p \in Requests => w.step \in {"extract", "drop"},
         p \in Requests /\ w.step = "drop" => remote[w.backup],
         \A c \in Archives :
           p \in Requests /\ c = work[p].backup /\ c \notin spoiled => Stored(c)' = Stored(c)
  PROVE  BackupInv'
<1>1. /\ TypeOK /\ work[p] # Nothing /\ work[p].backup \in Archives
      /\ p \in Archives => work[p].backup = p
  BY DoingFacts DEF BackupInv
<1>2. /\ work' \in [Processes -> Calls] /\ work'[p] = w
      /\ answer' = answer
      /\ \A q \in Processes : q # p => work'[q] = work[q]
  BY <1>1, GoOnFacts
<1>3. TypeOK'
  BY <1>1, <1>2 DEF TypeOK, StoresOnlyAt, CallOnly
<1>4. ASSUME p \in Archives PROVE RunOK(p)' /\ (p \notin spoiled => Progress(p)')
  <2>1. RunOK(p) /\ (p \notin spoiled => Progress(p))
    BY <1>4 DEF BackupInv, Unspoiled
  <2>2. RunOK(p)'
    BY <1>1, <1>2, <1>4, <2>1 DEF RunOK, CallOnly
  <2>3. p \notin spoiled => answer'[p] # "ok"
    BY <1>1, <1>2, <2>1 DEF Progress
  <2>4. p \notin spoiled => Progress(p)'
    BY <1>2, <1>4, <2>3 DEF Progress
  <2>. QED
    BY <2>2, <2>4
<1>5. ASSUME p \in Requests PROVE RequestOK(p)'
  <2>1. RequestOK(p)
    BY <1>5 DEF BackupInv
  <2>. QED
    BY <1>1, <1>2, <1>5, <2>1 DEF RequestOK, CallOnly
<1>. QED
  BY <1>1, <1>2, <1>3, <1>4, <1>5, CallKeeps DEF StoresOnlyAt, CallOnly

\* Each step of a call keeps the invariant.
LEMMA WorkKeeps == ASSUME BackupInv, NEW p \in Processes, Work(p) PROVE BackupInv'
<1>. DEFINE b == work[p].backup
<1>0. TypeOK /\ (p \in Archives => RunOK(p)) /\ (p \in Requests => RequestOK(p))
  BY DEF BackupInv
<1>st. "ok" \in Ends /\ "refused" \in Ends
  BY DEF Ends
<1>same. UNCHANGED <<disk, bucket, remote>> => StoresOnlyAt(b) /\ \A c \in Archives : Stored(c)' = Stored(c)
  BY <1>0 DEF StoresOnlyAt, Stored, TypeOK
<1>file. ASSUME NEW content \in {"none", "partial", "whole"}, b \in Archives,
                File(p, content), UNCHANGED bucket
         PROVE  StoresOnlyAt(b) /\ disk'[b] = content
  BY <1>0, <1>file, FileFacts DEF StoresOnlyAt, TypeOK
<1>object. ASSUME NEW content \in {"none", "partial", "whole"}, b \in Archives,
                  Object(p, content), UNCHANGED disk
           PROVE  StoresOnlyAt(b) /\ bucket'[b] = content
  BY <1>0, <1>object, ObjectFacts DEF StoresOnlyAt, TypeOK
<1>1. CASE OpenArchive(p)
  <2>1. CallOnly /\ work[p].step = "open" /\ UNCHANGED bucket
    BY <1>0, <1>1, FaultFacts DEF OpenArchive, FileFails, CallOnly, Doing
  <2>2. p \in Archives /\ p \notin Requests /\ b = p
    BY <2>1, DoingFacts, ProcessFacts
  <2>3. CASE File(p, "partial") /\ GoOn(p, At("close", b))
    <3>1. At("close", b) \in Calls /\ At("close", b).step = "close" /\ At("close", b).backup = b
      BY <2>2 DEF At, Calls, Steps
    <3>. QED
      BY <2>1, <2>2, <2>3, <3>1, <1>file, GoOnKeeps
  <2>4. CASE Return(p, "refused") /\ UNCHANGED disk
    BY <2>1, <2>2, <2>4, <1>same, <1>st, ReturnKeeps DEF CallOnly
  <2>. QED
    BY <1>1, <2>3, <2>4 DEF OpenArchive
<1>2. CASE CloseArchive(p)
  <2>1. CallOnly /\ work[p].step = "close" /\ UNCHANGED bucket
    BY <1>0, <1>2, FaultFacts DEF CloseArchive, FileFails, CallOnly, Doing
  <2>2. p \in Archives /\ p \notin Requests /\ b = p
    BY <2>1, DoingFacts, ProcessFacts
  <2>3. CASE File(p, "whole") /\ remote[b] /\ GoOn(p, At("put", b))
    <3>1. At("put", b) \in Calls /\ At("put", b).step = "put" /\ At("put", b).backup = b
      BY <2>2 DEF At, Calls, Steps
    <3>. QED
      BY <2>1, <2>2, <2>3, <3>1, <1>file, GoOnKeeps
  <2>4. CASE File(p, "whole") /\ ~remote[b] /\ Return(p, "ok")
    <3>1. Stored(p)' = "whole" /\ StoresOnlyAt(b)
      BY <2>1, <2>2, <2>4, <1>file DEF Stored, CallOnly
    <3>. QED
      BY <2>1, <2>2, <2>4, <3>1, <1>st, ReturnKeeps
  <2>5. CASE Return(p, "refused") /\ UNCHANGED disk
    BY <2>1, <2>2, <2>5, <1>same, <1>st, ReturnKeeps DEF CallOnly
  <2>6. CASE Return(p, "refused") /\ File(p, "none")
    BY <2>1, <2>2, <2>6, <1>file, <1>st, ReturnKeeps
  <2>. QED
    BY <1>2, <2>3, <2>4, <2>5, <2>6 DEF CloseArchive
<1>3. CASE PutObject(p)
  <2>1. CallOnly /\ work[p].step = "put" /\ UNCHANGED disk
    BY <1>0, <1>3, FaultFacts DEF PutObject, BucketFails, CallOnly, Doing
  <2>2. p \in Archives /\ p \notin Requests /\ b = p /\ remote[p]
    BY <2>1, <1>0, DoingFacts, ProcessFacts DEF RunOK
  <2>3. disk[p] = "whole" \/ p \in spoiled
    BY <2>1, <2>2 DEF BackupInv, Unspoiled, Progress
  <2>4. CASE Object(p, disk[b]) /\ GoOn(p, At("drop", b))
    <3>1. At("drop", b) \in Calls /\ At("drop", b).step = "drop" /\ At("drop", b).backup = b
      BY <2>2 DEF At, Calls, Steps
    <3>2. StoresOnlyAt(b) /\ bucket'[b] = disk[b]
      BY <1>0, <2>1, <2>2, <2>4, <1>object DEF TypeOK
    <3>. QED
      BY <2>1, <2>2, <2>3, <2>4, <3>1, <3>2, GoOnKeeps
  <2>5. CASE GoOn(p, [At("drop", b) EXCEPT !.outcome = "refused"]) /\ UNCHANGED bucket
    <3>. DEFINE w == [At("drop", b) EXCEPT !.outcome = "refused"]
    <3>1. w \in Calls /\ w.step = "drop" /\ w.backup = b /\ w.outcome = "refused"
      BY <2>2 DEF At, Calls, Steps
    <3>2. StoresOnlyAt(b)
      BY <2>1, <2>5, <1>same DEF CallOnly
    <3>. HIDE DEF w
    <3>. QED
      BY <2>1, <2>2, <2>5, <3>1, <3>2, GoOnKeeps DEF w
  <2>. QED
    BY <1>3, <2>4, <2>5 DEF PutObject
<1>4. CASE DropCopy(p)
  <2>1. /\ CallOnly /\ work[p].step = "drop" /\ UNCHANGED bucket
        /\ File(p, "none") /\ Return(p, work[p].outcome)
    BY <1>0, <1>4 DEF DropCopy, CallOnly, Doing, TypeOK
  <2>2. b \in Archives /\ (p \in Archives => b = p) /\ work[p].outcome \in Ends
    BY <1>0, <2>1, DoingFacts DEF TypeOK, Calls, Ends
  <2>3. remote[b]
    BY <1>0, <2>1, <2>2, ProcessFacts DEF RunOK, RequestOK
  <2>4. StoresOnlyAt(b) /\ \A c \in Archives : c = b => Stored(c)' = bucket[c] /\ Stored(c) = bucket[c]
    BY <2>1, <2>2, <2>3, <1>file DEF Stored, CallOnly
  <2>5. p \in Archives /\ p \notin spoiled /\ work[p].outcome = "ok" => bucket[p] = "whole"
    BY <2>1 DEF BackupInv, Unspoiled, Progress
  <2>. QED
    BY <2>1, <2>2, <2>4, <2>5, ReturnKeeps
<1>5. CASE GetObject(p)
  <2>1. CallOnly /\ work[p].step = "get" /\ UNCHANGED bucket
    BY <1>0, <1>5, FaultFacts DEF GetObject, BucketFails, CallOnly, Doing
  <2>2. p \in Requests /\ p \notin Archives /\ b \in Archives
    BY <2>1, DoingFacts, ProcessFacts
  <2>3. remote[b]
    BY <1>0, <2>1, <2>2 DEF RequestOK
  <2>4. CASE File(p, bucket[b]) /\ GoOn(p, At("extract", b))
    <3>1. At("extract", b) \in Calls /\ At("extract", b).step = "extract" /\ At("extract", b).backup = b
      BY <2>2 DEF At, Calls, Steps
    <3>2. StoresOnlyAt(b) /\ \A c \in Archives : c = b => Stored(c)' = Stored(c)
      BY <1>0, <2>1, <2>2, <2>3, <2>4, <1>file DEF TypeOK, Stored, CallOnly
    <3>. QED
      BY <2>1, <2>2, <2>4, <3>1, <3>2, GoOnKeeps
  <2>5. CASE Return(p, "refused") /\ UNCHANGED disk
    BY <2>1, <2>2, <2>5, <1>same, <1>st, ReturnKeeps DEF CallOnly
  <2>. QED
    BY <1>5, <2>4, <2>5 DEF GetObject
<1>6. CASE Extract(p)
  <2>1. CallOnly /\ work[p].step = "extract" /\ UNCHANGED store
    BY <1>0, <1>6, FaultFacts DEF Extract, FileFails, CallOnly, Doing
  <2>2. p \in Requests /\ p \notin Archives /\ b \in Archives
    BY <2>1, DoingFacts, ProcessFacts
  <2>3. StoresOnlyAt(b) /\ \A c \in Archives : Stored(c)' = Stored(c)
    BY <2>1, <1>same DEF CallOnly, store
  <2>4. PICK outcome \in Ends :
          IF remote[b] THEN GoOn(p, [At("drop", b) EXCEPT !.outcome = outcome]) ELSE Return(p, outcome)
    BY <1>6 DEF Extract, Ends
  <2>5. CASE remote[b]
    <3>. DEFINE w == [At("drop", b) EXCEPT !.outcome = outcome]
    <3>1. w \in Calls /\ w.step = "drop" /\ w.backup = b
      BY <2>2 DEF At, Calls, Steps, Ends
    <3>2. GoOn(p, w)
      BY <2>4, <2>5
    <3>. HIDE DEF w
    <3>. QED
      BY <2>1, <2>2, <2>3, <2>5, <3>1, <3>2, GoOnKeeps
  <2>6. CASE ~remote[b]
    BY <2>1, <2>2, <2>3, <2>4, <2>6, ReturnKeeps
  <2>. QED
    BY <2>5, <2>6
<1>7. CASE RemoveFile(p)
  <2>1. CallOnly /\ work[p].step = "remove" /\ UNCHANGED bucket
    BY <1>0, <1>7, FaultFacts DEF RemoveFile, FileFails, CallOnly, Doing
  <2>2. p \in Requests /\ p \notin Archives /\ b \in Archives /\ b \in spoiled
    BY <1>0, <2>1, DoingFacts, ProcessFacts DEF RequestOK
  <2>3. CASE File(p, "none") /\ Return(p, "ok")
    BY <2>1, <2>2, <2>3, <1>file, <1>st, ReturnKeeps
  <2>4. CASE Return(p, "refused") /\ UNCHANGED disk
    BY <2>1, <2>2, <2>4, <1>same, <1>st, ReturnKeeps DEF CallOnly
  <2>. QED
    BY <1>7, <2>3, <2>4 DEF RemoveFile
<1>8. CASE RemoveObject(p)
  <2>1. CallOnly /\ work[p].step = "removeObject" /\ UNCHANGED disk
    BY <1>0, <1>8, FaultFacts DEF RemoveObject, BucketFails, CallOnly, Doing
  <2>2. p \in Requests /\ p \notin Archives /\ b \in Archives /\ b \in spoiled
    BY <1>0, <2>1, DoingFacts, ProcessFacts DEF RequestOK
  <2>3. CASE Object(p, "none") /\ Return(p, "ok")
    BY <2>1, <2>2, <2>3, <1>object, <1>st, ReturnKeeps
  <2>4. CASE Return(p, "refused") /\ UNCHANGED bucket
    BY <2>1, <2>2, <2>4, <1>same, <1>st, ReturnKeeps DEF CallOnly
  <2>. QED
    BY <1>8, <2>3, <2>4 DEF RemoveObject
<1>. QED
  BY <1>1, <1>2, <1>3, <1>4, <1>5, <1>6, <1>7, <1>8 DEF Work

-----------------------------------------------------------------------------
(* The steps of the Backend *)

\* A request that calls has a call at its first step.
LEMMA CallMadeFacts ==
  ASSUME TypeOK, NEW p \in Processes, NEW operation \in Operations, NEW b \in Archives,
         Call(p, operation, b)
  PROVE  /\ req' \in [Processes -> RequestStates] /\ work' \in [Processes -> Calls]
         /\ req'[p].op = operation /\ req'[p].backup = b /\ req'[p].pc = "call" /\ req'[p] # Idle
         /\ work'[p].step = FirstStep(operation, b) /\ work'[p].backup = b /\ work'[p] # Nothing
         /\ \A q \in Processes : q # p => req'[q] = req[q] /\ work'[q] = work[q]
<1>1. State(operation, b, "call") \in RequestStates /\ State(operation, b, "call") # Idle
  BY DEF State, RequestStates, Idle, Operations
<1>2. /\ At(FirstStep(operation, b), b) \in Calls
      /\ At(FirstStep(operation, b), b) # Nothing
  BY FirstStepFacts, CallFacts
<1>3. At(FirstStep(operation, b), b).step = FirstStep(operation, b) /\ At(FirstStep(operation, b), b).backup = b
  BY DEF At
<1>4. State(operation, b, "call").op = operation /\ State(operation, b, "call").backup = b
      /\ State(operation, b, "call").pc = "call"
  BY DEF State
<1>. QED
  BY <1>1, <1>2, <1>3, <1>4 DEF Call, TypeOK

\* A request that is over is idle.
LEMMA FinishFacts ==
  ASSUME TypeOK, NEW p \in Processes, Finish(p)
  PROVE  /\ req' \in [Processes -> RequestStates]
         /\ answer' \in [Processes -> {"none", "ok", "refused", "failed"}]
         /\ req'[p] = Idle /\ answer'[p] = "none"
         /\ \A q \in Processes : q # p => req'[q] = req[q] /\ answer'[q] = answer[q]
BY StateFacts DEF Finish, TypeOK

\* A row that changes its status keeps the types.
LEMMA StatusFacts ==
  ASSUME TypeOK, NEW b \in Archives, NEW s \in Statuses, status' = [status EXCEPT ![b] = s]
  PROVE  /\ status' \in [Archives -> Statuses] /\ status'[b] = s
         /\ \A c \in Archives : c # b => status'[c] = status[c]
BY DEF TypeOK

\* When a request is over and its work goes on, its backup's row may become
\* COMPLETED or RESTORING only with a whole archive and no runBackup, and
\* PENDING and IN_PROGRESS only stay for what was cut short.
LEMMA FinishKeeps ==
  ASSUME BackupInv, NEW p \in Processes, req[p] # Idle, Finish(p), TypeOK',
         UNCHANGED <<remote, work, store, spoiled>>, cut => cut',
         NEW b \in Archives, b = req[p].backup,
         \A c \in Archives : c # b => status'[c] = status[c],
         status'[b] = "none" => status[b] = "none",
         status'[b] \in {"COMPLETED", "RESTORING"} /\ b \notin spoiled =>
           Stored(b) = "whole" /\ work[b] = Nothing /\ (p = b \/ Done(b)),
         status'[b] \in {"PENDING", "IN_PROGRESS"} =>
           cut' \/ (p # b /\ status'[b] = status[b])
  PROVE  BackupInv'
<1>. USE ProcessFacts DEF BackupInv, store
<1>0. /\ TypeOK /\ (p \in Archives => RunOK(p)) /\ (p \in Requests => RequestOK(p))
      /\ p \in Archives => p = b
  BY DEF RunOK
<1>1. /\ req'[p] = Idle /\ answer'[p] = "none"
      /\ \A q \in Processes : q # p => req'[q] = req[q] /\ answer'[q] = answer[q]
  BY FinishFacts
<1>2. ASSUME NEW c \in Archives PROVE RunOK(c)'
  <2>1. RunOK(c)
    OBVIOUS
  <2>2. status'[c] = "none" => status[c] = "none"
    OBVIOUS
  <2>. QED
    BY <1>1, <2>1, <2>2, StateFacts DEF RunOK
<1>3. ASSUME NEW h \in Requests PROVE RequestOK(h)'
  BY <1>1, StateFacts DEF RequestOK
<1>4. ASSUME NEW c \in Archives, c \notin spoiled' PROVE Unspoiled(c)'
  <2>1. Unspoiled(c) /\ RunOK(c) /\ c \notin spoiled
    BY <1>4
  <2>2. Stored(c)' = Stored(c)
    BY DEF Stored
  <2>3. Done(c) => Done(c)'
    BY <1>1, <2>2 DEF Done
  <2>4. Progress(c)'
    BY <1>1, <2>1, <2>2 DEF Unspoiled, Progress
  <2>5. \A h \in Requests : req'[h] # Idle /\ req'[h].backup = c => Done(c)
    BY <1>1, <2>1 DEF Unspoiled
  <2>6. \A h \in Requests : work'[h] # Nothing /\ work'[h].backup = c => Done(c)
    BY <2>1 DEF Unspoiled
  <2>7. ASSUME status'[c] \in {"COMPLETED", "RESTORING"} PROVE Done(c)'
    <3>1. CASE c # b
      BY <2>1, <2>3, <2>7, <3>1 DEF Unspoiled
    <3>2. CASE c = b /\ p # b
      BY <2>1, <2>3, <2>7, <3>2
    <3>3. CASE c = b /\ p = b
      BY <1>1, <2>1, <2>2, <2>7, <3>3 DEF Done
    <3>. QED
      BY <3>1, <3>2, <3>3
  <2>. QED
    BY <2>3, <2>4, <2>5, <2>6, <2>7 DEF Unspoiled
<1>5. BusyExplained'
  BY <1>0, <1>1 DEF BusyExplained
<1>. QED
  BY <1>2, <1>3, <1>4, <1>5

\* Each step of the Backend, of a call or of a failure keeps the invariant.
LEMMA NextBackups == BackupInv /\ [Next]_vars => BackupInv'
<1>. SUFFICES ASSUME BackupInv, [Next]_vars PROVE BackupInv'
  OBVIOUS
<1>0. /\ TypeOK /\ BusyExplained
      /\ \A c \in Archives : RunOK(c)
      /\ \A g \in Requests : RequestOK(g)
      /\ \A c \in Archives : c \notin spoiled => Unspoiled(c)
  BY DEF BackupInv
<1>p. Processes = Archives \cup Requests /\ Archives \cap Requests = {}
  BY ProcessFacts
<1>st. {"PENDING", "IN_PROGRESS", "COMPLETED", "FAILED", "RESTORING", "gone", "none"} \subseteq Statuses
  BY DEF Statuses
<1>1. ASSUME NEW b \in Archives, Create(b)
      PROVE  BackupInv'
  <2>0. /\ State("create", b, "begin") \in RequestStates /\ State("create", b, "begin") # Idle
        /\ State("create", b, "begin").op = "create" /\ State("create", b, "begin").backup = b
        /\ State("create", b, "begin").pc = "begin"
    BY DEF State, RequestStates, Idle
  <2>1. TypeOK'
    BY <1>0, <1>1, <1>p, <1>st, <2>0, StatusFacts DEF TypeOK, Create, store
  <2>2. \A c \in Archives : RunOK(c)'
    BY <1>0, <1>1, <1>p, <2>0, StateFacts DEF TypeOK, Create, RunOK, store
  <2>3. \A g \in Requests : RequestOK(g)'
    BY <1>0, <1>1, <1>p DEF TypeOK, Create, RequestOK, store
  <2>4. \A c \in Archives : c \notin spoiled' => Unspoiled(c)'
    BY <1>0, <1>1, <1>p, <2>0, CallFacts DEF TypeOK, Create, RunOK, Unspoiled, Progress, Done, Stored, store
  <2>5. BusyExplained'
    BY <1>0, <1>1, <1>p, <2>0 DEF TypeOK, Create, BusyExplained, store
  <2>. QED
    BY <2>1, <2>2, <2>3, <2>4, <2>5 DEF BackupInv
<1>2. ASSUME NEW b \in Archives, BeginBackup(b)
      PROVE  BackupInv'
  <2>1. CASE Exists(b) /\ status' = [status EXCEPT ![b] = "IN_PROGRESS"] /\ Call(b, "create", b) /\ UNCHANGED answer
    <3>1. /\ req' \in [Processes -> RequestStates] /\ work' \in [Processes -> Calls]
          /\ req'[b].op = "create" /\ req'[b].backup = b /\ req'[b].pc = "call" /\ req'[b] # Idle
          /\ work'[b].step = "open" /\ work'[b].backup = b /\ work'[b] # Nothing
          /\ \A q \in Processes : q # b => req'[q] = req[q] /\ work'[q] = work[q]
      <4>1. "create" \in Operations /\ FirstStep("create", b) = "open"
        BY DEF Operations, FirstStep
      <4>2. Call(b, "create", b) /\ b \in Processes
        BY <1>p, <2>1
      <4>. QED
        BY <1>0, <4>1, <4>2, CallMadeFacts
    <3>2. /\ status' \in [Archives -> Statuses] /\ status'[b] = "IN_PROGRESS"
          /\ \A c \in Archives : c # b => status'[c] = status[c]
      BY <1>0, <1>st, <2>1, StatusFacts
    <3>3. UNCHANGED <<remote, answer, disk, bucket, faults, cut, spoiled>> /\ req[b].pc = "begin" /\ status[b] # "none"
      BY <1>2, <2>1 DEF BeginBackup, store, Exists
    <3>4. TypeOK'
      BY <1>0, <3>1, <3>2, <3>3 DEF TypeOK
    <3>5. \A c \in Archives : RunOK(c)'
      BY <1>0, <1>p, <3>1, <3>2, <3>3 DEF RunOK
    <3>6. \A g \in Requests : RequestOK(g)'
      BY <1>0, <1>p, <3>1, <3>3 DEF RequestOK
    <3>7. ASSUME NEW c \in Archives, c \notin spoiled' PROVE Unspoiled(c)'
      <4>1. Unspoiled(c) /\ Stored(c)' = Stored(c)
        BY <1>0, <3>3, <3>7 DEF Stored
      <4>2. c = b => ~Done(c) /\ answer'[c] = "none"
        BY <1>0, <3>3, StateFacts DEF Done, RunOK
      <4>. QED
        BY <1>p, <3>1, <3>2, <3>3, <4>1, <4>2 DEF Unspoiled, Progress, Done
    <3>8. BusyExplained'
      BY <1>0, <1>p, <3>1, <3>2, <3>3 DEF BusyExplained
    <3>. QED
      BY <3>4, <3>5, <3>6, <3>7, <3>8 DEF BackupInv
  <2>2. CASE ~Exists(b) /\ Finish(b) /\ UNCHANGED <<status, work>>
    <3>1. UNCHANGED <<remote, work, store, faults, cut, spoiled>> /\ req[b].pc = "begin"
      BY <1>2, <2>2 DEF BeginBackup
    <3>2. req[b] # Idle /\ req[b].backup = b
      BY <1>0, <3>1, StateFacts DEF RunOK
    <3>3. TypeOK'
      BY <1>0, <1>p, <2>2, <3>1, FinishFacts DEF TypeOK, store
    <3>. QED
      BY <1>p, <2>2, <3>1, <3>2, <3>3, FinishKeeps DEF Exists
  <2>. QED
    BY <1>2, <2>1, <2>2 DEF BeginBackup
<1>3. ASSUME NEW b \in Archives, BackedUp(b)
      PROVE  BackupInv'
  <2>1. /\ UNCHANGED <<remote, work, store, cut, spoiled>> /\ Finish(b)
        /\ req[b].pc = "call" /\ req[b] # Idle /\ req[b].backup = b
    BY <1>0, <1>3, StateFacts DEF BackedUp, Answered, RunOK
  <2>2. faults' \in 0 .. MaxFaults
    BY <1>0, <1>3, FaultFacts DEF BackedUp
  <2>3. /\ status' \in [Archives -> Statuses]
        /\ (status'[b] = status[b] /\ ~Exists(b)) \/ (status'[b] \in {"COMPLETED", "FAILED"} /\ Exists(b))
        /\ status'[b] = "COMPLETED" => answer[b] = "ok" \/ ~Exists(b)
        /\ \A c \in Archives : c # b => status'[c] = status[c]
    <3>1. CASE Exists(b) /\ status' = [status EXCEPT ![b] = "FAILED"]
      BY <1>0, <1>st, <3>1, StatusFacts
    <3>2. CASE Exists(b) /\ answer[b] = "ok" /\ status' = [status EXCEPT ![b] = "COMPLETED"]
      BY <1>0, <1>st, <3>2, StatusFacts
    <3>3. CASE ~Exists(b) /\ status' = status
      BY <1>0, <3>3 DEF TypeOK
    <3>. QED
      BY <1>3, <3>1, <3>2, <3>3 DEF BackedUp
  <2>4. TypeOK'
    BY <1>0, <1>p, <2>1, <2>2, <2>3, FinishFacts DEF TypeOK, store
  <2>5. status'[b] \in {"COMPLETED", "RESTORING"} /\ b \notin spoiled => Stored(b) = "whole" /\ work[b] = Nothing
    BY <1>0, <2>3 DEF Exists, Unspoiled, Progress, Done
  <2>. QED
    BY <1>p, <2>1, <2>3, <2>4, <2>5, FinishKeeps DEF Exists
<1>4. ASSUME NEW h \in Requests, NEW b \in Archives, Restore(h, b)
      PROVE  BackupInv'
  <2>0. /\ State("restore", b, "begin") \in RequestStates /\ State("restore", b, "begin") # Idle
        /\ State("restore", b, "begin").op = "restore" /\ State("restore", b, "begin").backup = b
        /\ State("restore", b, "begin").pc = "begin"
    BY DEF State, RequestStates, Idle
  <2>1. /\ UNCHANGED <<status, remote, work, answer, disk, bucket, faults, cut>> /\ work[h] = Nothing
        /\ req' = [req EXCEPT ![h] = State("restore", b, "begin")]
        /\ spoiled \subseteq spoiled' /\ spoiled' \subseteq Archives
        /\ b \notin spoiled' => status[b] \in {"COMPLETED", "RESTORING"}
    BY <1>0, <1>4 DEF Restore, Free, store, TypeOK
  <2>2. TypeOK'
    BY <1>0, <1>p, <2>0, <2>1 DEF TypeOK
  <2>3. \A c \in Archives : RunOK(c)'
    BY <1>0, <1>p, <2>1 DEF TypeOK, RunOK
  <2>4. \A g \in Requests : RequestOK(g)'
    BY <1>0, <1>p, <2>0, <2>1 DEF TypeOK, RequestOK
  <2>5. ASSUME NEW c \in Archives, c \notin spoiled' PROVE Unspoiled(c)'
    <3>1. Unspoiled(c) /\ Stored(c)' = Stored(c) /\ (c = b => Done(c)) /\ (Done(c) => Done(c)')
      BY <1>0, <1>p, <2>1, <2>5 DEF Stored, Unspoiled, Done, TypeOK
    <3>2. \A g \in Requests : g # h => req'[g] = req[g]
      BY <1>0, <1>p, <2>1 DEF TypeOK
    <3>3. req'[h].backup = b
      BY <1>0, <1>p, <2>0, <2>1 DEF TypeOK
    <3>. QED
      BY <2>1, <3>1, <3>2, <3>3 DEF Unspoiled, Progress
  <2>6. BusyExplained'
    BY <1>0, <1>p, <2>1 DEF TypeOK, BusyExplained
  <2>. QED
    BY <2>2, <2>3, <2>4, <2>5, <2>6 DEF BackupInv
<1>5. ASSUME NEW h \in Requests, BeginRestore(h)
      PROVE  BackupInv'
  <2>. DEFINE b == req[h].backup
  <2>0. /\ req[h] # Idle /\ b \in Archives /\ h \in Processes /\ req[h].op = "restore"
        /\ UNCHANGED <<remote, disk, bucket, faults, cut, spoiled>>
    BY <1>0, <1>5, <1>p, StateFacts DEF BeginRestore, RequestOK, store
  <2>1. CASE Exists(b) /\ status' = [status EXCEPT ![b] = "RESTORING"] /\ Call(h, "restore", b) /\ UNCHANGED answer
    <3>1. /\ req' \in [Processes -> RequestStates] /\ work' \in [Processes -> Calls]
          /\ req'[h].op = "restore" /\ req'[h].backup = b /\ req'[h].pc = "call" /\ req'[h] # Idle
          /\ work'[h].step = (IF remote[b] THEN "get" ELSE "extract") /\ work'[h].backup = b /\ work'[h] # Nothing
          /\ \A q \in Processes : q # h => req'[q] = req[q] /\ work'[q] = work[q]
      BY <1>0, <2>0, <2>1, CallMadeFacts, FirstStepFacts DEF Operations
    <3>2. /\ status' \in [Archives -> Statuses] /\ status'[b] = "RESTORING" /\ status[b] # "none"
          /\ \A c \in Archives : c # b => status'[c] = status[c]
      BY <1>0, <1>st, <2>0, <2>1, StatusFacts DEF Exists
    <3>3. TypeOK'
      BY <1>0, <2>0, <2>1, <3>1, <3>2 DEF TypeOK
    <3>4. \A c \in Archives : RunOK(c)'
      BY <1>0, <1>p, <2>0, <2>1, <3>1, <3>2 DEF RunOK
    <3>5. \A g \in Requests : RequestOK(g)'
      BY <1>0, <1>p, <2>0, <2>1, <3>1 DEF RequestOK
    <3>6. ASSUME NEW c \in Archives, c \notin spoiled' PROVE Unspoiled(c)'
      <4>1. Unspoiled(c) /\ Stored(c)' = Stored(c)
        BY <1>0, <2>0, <3>6 DEF Stored
      <4>2. c = b => Done(c)
        BY <2>0, <4>1 DEF Unspoiled
      <4>3. Done(c) => Done(c)'
        BY <1>p, <2>0, <2>1, <3>1, <3>2, <4>1 DEF Done
      <4>4. Progress(c)'
        BY <1>p, <2>0, <2>1, <3>1, <4>1 DEF Progress, Unspoiled
      <4>. QED
        BY <1>p, <2>0, <3>1, <3>2, <4>1, <4>2, <4>3, <4>4 DEF Unspoiled
    <3>7. BusyExplained'
      BY <1>0, <1>p, <2>0, <3>1, <3>2 DEF BusyExplained
    <3>. QED
      BY <3>3, <3>4, <3>5, <3>6, <3>7 DEF BackupInv
  <2>2. CASE ~Exists(b) /\ Finish(h) /\ UNCHANGED <<status, work>>
    <3>1. TypeOK'
      BY <1>0, <1>p, <2>0, <2>2, FinishFacts DEF TypeOK
    <3>. QED
      BY <1>p, <2>0, <2>2, <3>1, FinishKeeps DEF Exists, store
  <2>. QED
    BY <1>5, <2>1, <2>2 DEF BeginRestore
<1>6. ASSUME NEW h \in Requests, Restored(h)
      PROVE  BackupInv'
  <2>. DEFINE b == req[h].backup
  <2>0. /\ req[h] # Idle /\ b \in Archives /\ h \in Processes /\ h # b
        /\ UNCHANGED <<remote, work, store, faults, cut, spoiled>> /\ Finish(h)
    BY <1>0, <1>6, <1>p, StateFacts DEF Restored, Answered, RequestOK
  <2>1. /\ status' \in [Archives -> Statuses]
        /\ status'[b] = status[b] \/ (status'[b] = "COMPLETED" /\ Exists(b))
        /\ \A c \in Archives : c # b => status'[c] = status[c]
    <3>1. PICK x \in Statuses :
            /\ status' = [status EXCEPT ![b] = x]
            /\ x = status[b] \/ (x = "COMPLETED" /\ Exists(b))
      <4>1. status[b] \in Statuses
        BY <1>0, <2>0 DEF TypeOK
      <4>2. status' = [status EXCEPT ![b] = IF Exists(b) /\ answer[h] # "failed" THEN "COMPLETED" ELSE status[b]]
        BY <1>6 DEF Restored
      <4>. HIDE DEF b
      <4>3. CASE Exists(b) /\ answer[h] # "failed"
        BY <1>st, <4>2, <4>3
      <4>4. CASE ~(Exists(b) /\ answer[h] # "failed")
        BY <4>1, <4>2, <4>4
      <4>. QED
        BY <4>3, <4>4
    <3>2. status \in [Archives -> Statuses]
      BY <1>0 DEF TypeOK
    <3>. HIDE DEF b
    <3>. QED
      BY <2>0, <3>1, <3>2
  <2>2. TypeOK'
    BY <1>0, <1>p, <2>0, <2>1, FinishFacts DEF TypeOK, store
  <2>3. b \notin spoiled => Done(b)
    BY <1>0, <2>0 DEF Unspoiled
  <2>. HIDE DEF b
  <2>4. b = req[h].backup
    BY DEF b
  <2>5. status'[b] \in {"PENDING", "IN_PROGRESS"} => cut' \/ (h # b /\ status'[b] = status[b])
    BY <2>0, <2>1
  <2>6. status'[b] = "none" => status[b] = "none"
    BY <2>1
  <2>7. status'[b] \in {"COMPLETED", "RESTORING"} /\ b \notin spoiled =>
          Stored(b) = "whole" /\ work[b] = Nothing /\ (h = b \/ Done(b))
    BY <2>3 DEF Done
  <2>. QED
    BY <1>0, <2>0, <2>1, <2>2, <2>4, <2>5, <2>6, <2>7, FinishKeeps
<1>7. ASSUME NEW h \in Requests, NEW b \in Archives, Delete(h, b)
      PROVE  BackupInv'
  <2>1. /\ req' \in [Processes -> RequestStates] /\ work' \in [Processes -> Calls]
        /\ req'[h].op = "delete" /\ req'[h].backup = b /\ req'[h].pc = "call" /\ req'[h] # Idle
        /\ work'[h].step \in {"remove", "removeObject"} /\ work'[h].backup = b /\ work'[h] # Nothing
        /\ \A q \in Processes : q # h => req'[q] = req[q] /\ work'[q] = work[q]
    <3>1. "delete" \in Operations /\ FirstStep("delete", b) \in {"remove", "removeObject"}
      BY DEF Operations, FirstStep
    <3>2. Call(h, "delete", b) /\ h \in Processes
      BY <1>7, <1>p DEF Delete
    <3>. QED
      BY <1>0, <3>1, <3>2, CallMadeFacts
  <2>2. UNCHANGED <<status, remote, answer, disk, bucket, faults, cut>> /\ spoiled' = spoiled \cup {b}
    BY <1>7 DEF Delete, store
  <2>3. TypeOK'
    BY <1>0, <2>1, <2>2 DEF TypeOK
  <2>4. \A c \in Archives : RunOK(c)'
    BY <1>0, <1>p, <2>1, <2>2 DEF RunOK
  <2>5. \A g \in Requests : RequestOK(g)'
    <3>1. RequestOK(h)'
      BY <2>1, <2>2 DEF RequestOK
    <3>2. ASSUME NEW g \in Requests, g # h PROVE RequestOK(g)'
      BY <1>0, <1>p, <2>1, <2>2, <3>2 DEF RequestOK
    <3>. QED
      BY <3>1, <3>2
  <2>6. ASSUME NEW c \in Archives, c \notin spoiled' PROVE Unspoiled(c)'
    <3>1. Unspoiled(c) /\ Stored(c)' = Stored(c) /\ c # b
      BY <1>0, <2>2, <2>6 DEF Stored
    <3>. QED
      BY <1>p, <2>1, <2>2, <3>1 DEF Unspoiled, Progress, Done
  <2>7. BusyExplained'
    BY <1>0, <1>p, <2>1, <2>2 DEF BusyExplained
  <2>. QED
    BY <2>3, <2>4, <2>5, <2>6, <2>7 DEF BackupInv
<1>8. ASSUME NEW h \in Requests, Deleted(h)
      PROVE  BackupInv'
  <2>. DEFINE b == req[h].backup
  <2>0. /\ req[h] # Idle /\ b \in Archives /\ b \in spoiled /\ h \in Processes /\ h # b
        /\ UNCHANGED <<remote, work, store, faults, cut, spoiled>> /\ Finish(h)
    BY <1>0, <1>8, <1>p, StateFacts DEF Deleted, Answered, RequestOK
  <2>1. /\ status' \in [Archives -> Statuses]
        /\ status'[b] = status[b] \/ status'[b] = "gone"
        /\ \A c \in Archives : c # b => status'[c] = status[c]
    <3>1. PICK x \in Statuses : status' = [status EXCEPT ![b] = x] /\ x \in {status[b], "gone"}
      <4>1. status[b] \in Statuses
        BY <1>0, <2>0 DEF TypeOK
      <4>2. status' = [status EXCEPT ![b] = IF answer[h] = "failed" THEN status[b] ELSE "gone"]
        BY <1>8 DEF Deleted
      <4>. HIDE DEF b
      <4>3. CASE answer[h] = "failed"
        BY <4>1, <4>2, <4>3
      <4>4. CASE answer[h] # "failed"
        BY <1>st, <4>2, <4>4
      <4>. QED
        BY <4>3, <4>4
    <3>2. status \in [Archives -> Statuses]
      BY <1>0 DEF TypeOK
    <3>. HIDE DEF b
    <3>. QED
      BY <2>0, <3>1, <3>2
  <2>2. TypeOK'
    BY <1>0, <1>p, <2>0, <2>1, FinishFacts DEF TypeOK, store
  <2>. HIDE DEF b
  <2>4. b = req[h].backup
    BY DEF b
  <2>. QED
    BY <1>p, <2>0, <2>1, <2>2, <2>4, FinishKeeps
<1>9. ASSUME NEW p \in Processes, Lost(p)
      PROVE  BackupInv'
  <2>1. /\ UNCHANGED <<status, remote, req, disk, bucket, cut, spoiled>> /\ faults' \in 0 .. MaxFaults
        /\ answer' = [answer EXCEPT ![p] = "failed"]
        /\ work' = work \/ work' = [work EXCEPT ![p] = Nothing]
        /\ req[p].pc = "call"
    BY <1>0, <1>9, FaultFacts DEF Lost, store
  <2>2. TypeOK'
    BY <1>0, <2>1, CallFacts DEF TypeOK
  <2>3. \A q \in Processes : work'[q] = work[q] \/ work'[q] = Nothing
    BY <1>0, <2>1 DEF TypeOK
  <2>4. /\ answer'[p] = "failed"
        /\ \A q \in Processes : q # p => answer'[q] = answer[q]
    BY <1>0, <2>1 DEF TypeOK
  <2>5. \A c \in Archives : RunOK(c)'
    BY <1>0, <1>p, <2>1, <2>3, <2>4, CallFacts, StateFacts DEF RunOK
  <2>6. \A g \in Requests : RequestOK(g)'
    BY <1>0, <1>p, <2>1, <2>3, CallFacts DEF RequestOK
  <2>7. ASSUME NEW c \in Archives, c \notin spoiled' PROVE Unspoiled(c)'
    <3>1. Unspoiled(c) /\ Stored(c)' = Stored(c)
      BY <1>0, <2>1, <2>7 DEF Stored
    <3>2. Done(c) => Done(c)'
      BY <1>p, <2>1, <2>3, <2>4, <3>1, StateFacts DEF Done
    <3>3. Progress(c)'
      BY <1>p, <2>1, <2>3, <2>4, <3>1, CallFacts DEF Progress, Unspoiled
    <3>. QED
      BY <1>p, <2>1, <2>3, <3>1, <3>2, <3>3 DEF Unspoiled
  <2>8. BusyExplained'
    BY <1>0, <2>1 DEF BusyExplained
  <2>. QED
    BY <2>2, <2>5, <2>6, <2>7, <2>8 DEF BackupInv
<1>10. ASSUME NEW p \in Processes, DatabaseFails(p)
       PROVE  BackupInv'
  <2>. DEFINE b == req[p].backup
  <2>1. /\ UNCHANGED <<status, remote, work, store, spoiled>> /\ faults' \in 0 .. MaxFaults
        /\ Finish(p) /\ cut' = TRUE /\ req[p].pc \in {"begin", "call"}
    BY <1>0, <1>10, FaultFacts DEF DatabaseFails
  <2>2. req[p] # Idle /\ b \in Archives /\ (p \in Requests => p # b)
    BY <1>0, <1>p, <2>1, StateFacts DEF RunOK, RequestOK
  <2>3. TypeOK'
    BY <1>0, <2>1, FinishFacts DEF TypeOK, store
  <2>4. b \notin spoiled /\ status[b] \in {"COMPLETED", "RESTORING"} => Done(b)
    BY <1>0, <2>2 DEF Unspoiled
  <2>. HIDE DEF b
  <2>5. b = req[p].backup
    BY DEF b
  <2>. QED
    BY <1>p, <2>1, <2>2, <2>3, <2>4, <2>5, FinishKeeps DEF Done
<1>11. ASSUME ServerDeleted
       PROVE  BackupInv'
  <2>1. /\ UNCHANGED <<remote, req, work, answer, disk, bucket, faults, cut, spoiled>>
        /\ status' = [c \in Archives |-> "gone"]
    BY <1>11 DEF ServerDeleted, store
  <2>2. TypeOK'
    BY <1>0, <1>st, <2>1 DEF TypeOK
  <2>3. \A c \in Archives : RunOK(c)'
    BY <1>0, <2>1 DEF RunOK
  <2>4. \A g \in Requests : RequestOK(g)'
    BY <1>0, <2>1 DEF RequestOK
  <2>5. ASSUME NEW c \in Archives, c \notin spoiled' PROVE Unspoiled(c)'
    BY <1>0, <2>1, <2>5 DEF Unspoiled, Progress, Done, Stored
  <2>6. BusyExplained'
    BY <2>1 DEF BusyExplained
  <2>. QED
    BY <2>2, <2>3, <2>4, <2>5, <2>6 DEF BackupInv
<1>12. ASSUME BackendRestart
       PROVE  BackupInv'
  <2>1. /\ UNCHANGED <<status, remote, work, disk, bucket, spoiled>> /\ faults' \in 0 .. MaxFaults /\ cut' = TRUE
        /\ req' = [q \in Processes |-> Idle] /\ answer' = [q \in Processes |-> "none"]
    BY <1>0, <1>12, FaultFacts DEF BackendRestart, store
  <2>2. TypeOK'
    BY <1>0, <2>1, StateFacts DEF TypeOK
  <2>3. \A c \in Archives : RunOK(c)'
    BY <1>0, <1>p, <2>1, StateFacts DEF RunOK
  <2>4. \A g \in Requests : RequestOK(g)'
    BY <1>0, <1>p, <2>1, StateFacts DEF RequestOK
  <2>5. ASSUME NEW c \in Archives, c \notin spoiled' PROVE Unspoiled(c)'
    BY <1>0, <1>p, <2>1, <2>5 DEF Unspoiled, Progress, Done, Stored
  <2>6. BusyExplained'
    BY <2>1 DEF BusyExplained
  <2>. QED
    BY <2>2, <2>3, <2>4, <2>5, <2>6 DEF BackupInv
<1>13. ASSUME DaemonRestart
       PROVE  BackupInv'
  <2>1. /\ UNCHANGED <<status, remote, req, disk, bucket, cut, spoiled>> /\ faults' \in 0 .. MaxFaults
        /\ work' = [q \in Processes |-> Nothing]
        /\ answer' = [q \in Processes |-> IF req[q].pc = "call" /\ answer[q] = "none" THEN "failed" ELSE answer[q]]
    BY <1>0, <1>13, FaultFacts DEF DaemonRestart, Canceled, store
  <2>2. TypeOK'
    BY <1>0, <2>1, CallFacts DEF TypeOK
  <2>3. \A c \in Archives : RunOK(c)'
    BY <1>0, <1>p, <2>1, CallFacts, StateFacts DEF RunOK
  <2>4. \A g \in Requests : RequestOK(g)'
    BY <1>0, <1>p, <2>1, CallFacts DEF RequestOK
  <2>5. ASSUME NEW c \in Archives, c \notin spoiled' PROVE Unspoiled(c)'
    <3>1. Unspoiled(c) /\ Stored(c)' = Stored(c)
      BY <1>0, <2>1, <2>5 DEF Stored
    <3>2. Done(c) => Done(c)'
      BY <1>p, <2>1, <3>1, StateFacts DEF Done
    <3>. QED
      BY <1>p, <2>1, <3>1, <3>2, CallFacts DEF Unspoiled, Progress
  <2>6. BusyExplained'
    BY <1>0, <2>1 DEF BusyExplained
  <2>. QED
    BY <2>2, <2>3, <2>4, <2>5, <2>6 DEF BackupInv
<1>14. CASE UNCHANGED vars
  <2>1. UNCHANGED <<status, remote, req, work, answer, disk, bucket, faults, cut, spoiled>>
    BY <1>14 DEF vars, store
  <2>. QED
    BY <1>0, <2>1 DEF BackupInv, TypeOK, BusyExplained, RunOK, RequestOK, Unspoiled, Progress, Done, Stored
<1>. QED
  BY <1>1, <1>2, <1>3, <1>4, <1>5, <1>6, <1>7, <1>8, <1>9, <1>10, <1>11, <1>12, <1>13, <1>14, WorkKeeps
     DEF Next, Backup, Request, BackupsPanel

-----------------------------------------------------------------------------
\* The invariant holds in every reachable state.
LEMMA BackupInvariant == Spec => []BackupInv
BY InitBackups, NextBackups, PTL DEF Spec

\* A backup shown as COMPLETED has its whole archive, unless it was asked to be
\* deleted, or to be restored before it was COMPLETED (runBackup, restore).
THEOREM CompletedIsBacked == Spec => []CompletedBacked
<1>1. BackupInv => CompletedBacked
  BY DEF BackupInv, CompletedBacked, Unspoiled, Done
<1>. QED
  BY <1>1, BackupInvariant, PTL

\* Types hold, and a backup shown as under way has a runBackup unless one was
\* cut short, for any number of backups, requests and failures.
THEOREM BusyIsExplained == Spec => []BusyOK
<1>1. BackupInv => BusyOK
  BY DEF BackupInv, BusyOK
<1>. QED
  BY <1>1, BackupInvariant, PTL

-----------------------------------------------------------------------------
(* Backups implements BackupVault                                           *)

Showing == {"COMPLETED", "RESTORING", "gone"}

\* Of an unspoiled backup: its archive is not whole before its walk is over, its
\* runBackup is over once it shows as FAILED, and who restores it does so of a
\* backup that is kept, or gone with its server.
Orderly(b) ==
  /\ status[b] = "none" \/ req[b].pc = "begin" \/ work[b].step \in {"open", "close"} => Stored(b) # "whole"
  /\ status[b] = "FAILED" => req[b] = Idle
  /\ \A h \in Requests : req[h] # Idle /\ req[h].backup = b => status[b] \in Showing

VaultInv ==
  /\ BackupInv
  /\ \A b \in Archives : b \notin spoiled => Orderly(b)

\* A row changes, and no archive.
Shows(b, x) == status' = [status EXCEPT ![b] = x] /\ UNCHANGED <<remote, disk, bucket, spoiled>>

\* What a row may become.
Allowed(b, x) ==
  \/ x = status[b]
  \/ status[b] = "none" /\ x = "PENDING"
  \/ /\ status[b] \in {"PENDING", "IN_PROGRESS"}
     /\ x \in {"IN_PROGRESS", "FAILED"} \/ (x = "COMPLETED" /\ Stored(b) = "whole")
  \/ status[b] \in {"COMPLETED", "RESTORING"} /\ x \in {"COMPLETED", "RESTORING"}
  \/ b \in spoiled /\ status[b] # "gone" /\ x # "none"

LEMMA ShowsFacts ==
  ASSUME TypeOK, NEW b \in Archives, NEW x \in Statuses, Shows(b, x)
  PROVE  /\ status'[b] = x /\ \A c \in Archives : c # b => status'[c] = status[c]
         /\ \A c \in Archives : Stored(c)' = Stored(c)
BY DEF Shows, TypeOK, Stored

\* Nothing shows differently.
LEMMA ShowsSame ==
  ASSUME TypeOK, NEW b \in Archives, UNCHANGED <<status, remote, disk, bucket, spoiled>>
  PROVE  status[b] \in Statuses /\ Shows(b, status[b]) /\ Allowed(b, status[b])
BY DEF Shows, Allowed, TypeOK

\* A run that is not over has a row that is under way, if it has one.
LEMMA RunShows ==
  ASSUME VaultInv, NEW b \in Archives, req[b] # Idle, Exists(b), b \notin spoiled
  PROVE  status[b] \in {"PENDING", "IN_PROGRESS"}
<1>1. Unspoiled(b) /\ Orderly(b) /\ status[b] \in Statuses
  BY DEF VaultInv, BackupInv, TypeOK
<1>2. ~Done(b)
  BY DEF Done
<1>. QED
  BY <1>1, <1>2 DEF Unspoiled, Orderly, Exists, Statuses

\* A restoration that is not over has a row that is kept, if it has one.
LEMMA RestoreShows ==
  ASSUME VaultInv, NEW h \in Requests, req[h] # Idle, Exists(req[h].backup)
  PROVE  /\ req[h].backup \in Archives
         /\ req[h].backup \in spoiled \/ status[req[h].backup] \in {"COMPLETED", "RESTORING"}
<1>1. PICK b \in Archives : b = req[h].backup
  BY DEF VaultInv, BackupInv, RequestOK
<1>2. b \notin spoiled => status[b] \in Showing
  BY <1>1 DEF VaultInv, Orderly
<1>. QED
  BY <1>1, <1>2 DEF Exists, Showing

\* The steps of the Backend that write a row.
RowStep ==
  \/ \E b \in Archives : Create(b) \/ BeginBackup(b) \/ BackedUp(b)
  \/ \E h \in Requests : BeginRestore(h) \/ Restored(h) \/ Deleted(h)

LEMMA RowStepShows ==
  ASSUME VaultInv, RowStep
  PROVE  \E b \in Archives, x \in Statuses : Shows(b, x) /\ Allowed(b, x)
<1>0. TypeOK /\ BackupInv
  BY DEF VaultInv, BackupInv
<1>st. {"PENDING", "IN_PROGRESS", "COMPLETED", "FAILED", "RESTORING", "gone", "none"} \subseteq Statuses
  BY DEF Statuses
<1>1. ASSUME NEW b \in Archives, Create(b)
      PROVE  Shows(b, "PENDING") /\ Allowed(b, "PENDING")
  BY <1>1 DEF Create, Shows, Allowed, store
<1>2. ASSUME NEW b \in Archives, BeginBackup(b)
      PROVE  \E x \in Statuses : Shows(b, x) /\ Allowed(b, x)
  <2>1. UNCHANGED <<remote, disk, bucket, spoiled>> /\ req[b] # Idle
    BY <1>2, StateFacts DEF BeginBackup, store
  <2>2. CASE Exists(b) /\ status' = [status EXCEPT ![b] = "IN_PROGRESS"]
    <3>1. Shows(b, "IN_PROGRESS")
      BY <2>1, <2>2 DEF Shows
    <3>2. Allowed(b, "IN_PROGRESS")
      BY <2>1, <2>2, RunShows DEF Allowed, Exists
    <3>. QED
      BY <1>st, <3>1, <3>2
  <2>3. CASE status' = status
    BY <1>0, <2>1, <2>3, ShowsSame
  <2>. QED
    BY <1>2, <2>2, <2>3 DEF BeginBackup
<1>3. ASSUME NEW b \in Archives, BackedUp(b)
      PROVE  \E x \in Statuses : Shows(b, x) /\ Allowed(b, x)
  <2>1. UNCHANGED <<remote, disk, bucket, spoiled>> /\ req[b] # Idle
    BY <1>3, StateFacts DEF BackedUp, Answered, store
  <2>2. CASE Exists(b) /\ status' = [status EXCEPT ![b] = "FAILED"]
    <3>1. Shows(b, "FAILED")
      BY <2>1, <2>2 DEF Shows
    <3>2. Allowed(b, "FAILED")
      BY <2>1, <2>2, RunShows DEF Allowed, Exists
    <3>. QED
      BY <1>st, <3>1, <3>2
  <2>3. CASE Exists(b) /\ answer[b] = "ok" /\ status' = [status EXCEPT ![b] = "COMPLETED"]
    <3>1. Shows(b, "COMPLETED")
      BY <2>1, <2>3 DEF Shows
    <3>2. b \notin spoiled => Stored(b) = "whole"
      BY <1>0, <2>3 DEF BackupInv, Unspoiled, Progress
    <3>3. Allowed(b, "COMPLETED")
      BY <2>1, <2>3, <3>2, RunShows DEF Allowed, Exists
    <3>. QED
      BY <1>st, <3>1, <3>3
  <2>4. CASE status' = status
    BY <1>0, <2>1, <2>4, ShowsSame
  <2>. QED
    BY <1>3, <2>2, <2>3, <2>4 DEF BackedUp
<1>4. ASSUME NEW h \in Requests, BeginRestore(h) \/ Restored(h)
      PROVE  \E b \in Archives, x \in Statuses : Shows(b, x) /\ Allowed(b, x)
  <2>1. UNCHANGED <<remote, disk, bucket, spoiled>> /\ req[h] # Idle
    BY <1>4, StateFacts DEF BeginRestore, Restored, Answered, store
  <2>2. PICK b \in Archives : b = req[h].backup
    BY <1>0, <2>1 DEF BackupInv, RequestOK
  <2>3. \/ Exists(b) /\ status' = [status EXCEPT ![b] = "RESTORING"]
        \/ Exists(b) /\ status' = [status EXCEPT ![b] = "COMPLETED"]
        \/ status' = [status EXCEPT ![b] = status[b]]
    <3>1. CASE BeginRestore(h)
      BY <1>0, <2>2, <3>1 DEF BeginRestore, TypeOK
    <3>2. CASE Restored(h) /\ Exists(b) /\ answer[h] # "failed"
      BY <2>2, <3>2 DEF Restored
    <3>3. CASE Restored(h) /\ ~(Exists(b) /\ answer[h] # "failed")
      BY <2>2, <3>3 DEF Restored
    <3>. QED
      BY <1>4, <3>1, <3>2, <3>3
  <2>4. CASE status' = [status EXCEPT ![b] = status[b]]
    <3>1. status' = status
      BY <1>0, <2>4 DEF TypeOK
    <3>. QED
      BY <1>0, <2>1, <3>1, ShowsSame
  <2>5. ASSUME NEW x \in {"RESTORING", "COMPLETED"}, Exists(b), status' = [status EXCEPT ![b] = x]
        PROVE  x \in Statuses /\ Shows(b, x) /\ Allowed(b, x)
    <3>1. Shows(b, x) /\ x \in Statuses
      BY <1>st, <2>1, <2>5 DEF Shows
    <3>2. b \in spoiled \/ status[b] \in {"COMPLETED", "RESTORING"}
      BY <2>1, <2>2, <2>5, RestoreShows
    <3>. QED
      BY <2>5, <3>1, <3>2 DEF Allowed, Exists
  <2>. QED
    BY <2>3, <2>4, <2>5
<1>5. ASSUME NEW h \in Requests, Deleted(h)
      PROVE  \E b \in Archives, x \in Statuses : Shows(b, x) /\ Allowed(b, x)
  <2>1. UNCHANGED <<remote, disk, bucket, spoiled>> /\ req[h] # Idle /\ req[h].op = "delete"
    BY <1>5, StateFacts DEF Deleted, Answered, store
  <2>2. PICK b \in spoiled : b = req[h].backup /\ b \in Archives
    BY <1>0, <2>1 DEF BackupInv, RequestOK
  <2>3. CASE answer[h] # "failed"
    <3>1. Shows(b, "gone")
      BY <1>5, <2>1, <2>2, <2>3 DEF Deleted, Shows
    <3>2. Allowed(b, "gone")
      BY <2>2 DEF Allowed
    <3>. QED
      BY <1>st, <2>2, <3>1, <3>2
  <2>4. CASE answer[h] = "failed"
    <3>1. status' = [status EXCEPT ![b] = status[b]]
      BY <1>5, <2>2, <2>4 DEF Deleted
    <3>2. status' = status
      BY <1>0, <3>1 DEF TypeOK
    <3>. QED
      BY <1>0, <2>1, <2>2, <3>2, ShowsSame
  <2>. QED
    BY <2>3, <2>4
<1>. QED
  BY <1>st, <1>1, <1>2, <1>3, <1>4, <1>5 DEF RowStep

\* A step of the call of p writes the archive of its backup only.  Of an
\* unspoiled one it never damages a whole archive, and while the walk goes on
\* none is whole.
LEMMA WorkStores ==
  ASSUME VaultInv, NEW p \in Processes, Work(p)
  PROVE  /\ UNCHANGED <<status, remote, req, spoiled>> /\ work[p] # Nothing /\ work[p].backup \in Archives
         /\ p \in Archives => work[p].backup = p
         /\ \A q \in Processes : q # p => work'[q] = work[q]
         /\ \A c \in Archives : c # work[p].backup => Stored(c)' = Stored(c)
         /\ \A c \in Archives :
              c = work[p].backup /\ c \notin spoiled =>
                /\ Stored(c) = "whole" => Stored(c)' = "whole"
                /\ p = c /\ work'[p].step \in {"open", "close"} => Stored(c)' # "whole"
<1>0. BackupInv /\ TypeOK
  BY DEF VaultInv, BackupInv
<1>1. UNCHANGED <<status, remote, req, spoiled>> /\ work[p].step \in Steps \ {"idle"}
  BY DEF Work, OpenArchive, CloseArchive, PutObject, DropCopy, GetObject, Extract, RemoveFile, RemoveObject,
         store, Doing, Steps
<1>2. /\ work[p] # Nothing /\ work[p].backup \in Archives /\ (p \in Archives => work[p].backup = p)
      /\ work[p].step \in {"open", "close", "put"} => p \in Archives
      /\ work[p].step \in {"extract", "get", "remove", "removeObject"} => p \in Requests
  BY <1>0, <1>1, DoingFacts
<1>3. PICK b \in Archives : b = work[p].backup
  BY <1>2
<1>4. work' = [work EXCEPT ![p] = work'[p]]
  <2>1. ASSUME NEW a \in {"ok", "refused"} \cup {work[p].outcome}, Return(p, a)
        PROVE  work' = [work EXCEPT ![p] = work'[p]]
    BY <1>0, <2>1 DEF Return, TypeOK
  <2>2. ASSUME NEW w, GoOn(p, w)
        PROVE  work' = [work EXCEPT ![p] = work'[p]]
    BY <1>0, <2>2 DEF GoOn, TypeOK
  <2>. QED
    BY <2>1, <2>2 DEF Work, OpenArchive, CloseArchive, PutObject, DropCopy, GetObject, Extract, RemoveFile, RemoveObject
<1>5. \A q \in Processes : q # p => work'[q] = work[q]
  BY <1>0, <1>4 DEF TypeOK
<1>6. /\ disk' = disk \/ \E x \in {"none", "partial", "whole"} : File(p, x)
      /\ bucket' = bucket \/ \E x \in {"none", "partial", "whole"} : Object(p, x)
  <2>1. disk[b] \in {"none", "partial", "whole"} /\ bucket[b] \in {"none", "partial", "whole"}
    BY <1>0, <1>3 DEF TypeOK
  <2>. QED
    BY <1>3, <2>1 DEF Work, OpenArchive, CloseArchive, PutObject, DropCopy, GetObject, Extract, RemoveFile, RemoveObject, store
<1>7. \A c \in Archives : c # b => Stored(c)' = Stored(c)
  BY <1>0, <1>1, <1>3, <1>6 DEF File, Object, Stored, TypeOK
<1>8. ASSUME b \notin spoiled
      PROVE  /\ Stored(b) = "whole" => Stored(b)' = "whole"
             /\ p = b /\ work'[p].step \in {"open", "close"} => Stored(b)' # "whole"
  <2>0. /\ Orderly(b) /\ Progress(b) /\ (p \in Archives => RunOK(b)) /\ (p \in Requests => RequestOK(p))
        /\ p \in Archives => b = p
    BY <1>0, <1>2, <1>3, <1>8 DEF VaultInv, BackupInv, Unspoiled
  <2>1. CASE OpenArchive(p)
    <3>1. Stored(b) # "whole"
      BY <1>2, <1>3, <2>0, <2>1 DEF Orderly, OpenArchive, Doing
    <3>2. disk' = disk \/ disk'[b] = "partial"
      BY <1>0, <1>3, <2>1 DEF OpenArchive, File, TypeOK
    <3>. QED
      BY <1>1, <2>1, <3>1, <3>2 DEF OpenArchive, Stored
  <2>2. CASE CloseArchive(p)
    <3>1. Stored(b) # "whole"
      BY <1>2, <1>3, <2>0, <2>2 DEF Orderly, CloseArchive, Doing
    <3>2. work'[p].step \in {"idle", "put"}
      BY <1>0, <2>2, CallFacts DEF CloseArchive, Return, GoOn, At, TypeOK
    <3>. QED
      BY <3>1, <3>2
  <2>3. CASE PutObject(p)
    <3>1. remote[b] /\ disk[b] = "whole"
      BY <1>2, <2>0, <2>3 DEF PutObject, Doing, RunOK, Progress
    <3>2. bucket'[b] = bucket[b] \/ bucket'[b] = "whole"
      BY <1>0, <1>3, <2>3, <3>1 DEF PutObject, Object, TypeOK
    <3>3. work'[p].step = "drop"
      BY <1>0, <2>3 DEF PutObject, GoOn, At, TypeOK
    <3>. QED
      BY <1>1, <3>1, <3>2, <3>3 DEF Stored
  <2>4. CASE DropCopy(p) \/ GetObject(p)
    <3>1. remote[b] /\ bucket' = bucket
      BY <1>2, <1>3, <2>0, <2>4, ProcessFacts DEF DropCopy, GetObject, Doing, RunOK, RequestOK
    <3>2. p = b => work'[p].step = "idle"
      <4>1. p = b => DropCopy(p)
        BY <1>2, <2>4, ProcessFacts DEF GetObject, Doing
      <4>. QED
        BY <1>0, <4>1, CallFacts DEF DropCopy, Return, TypeOK
    <3>. QED
      BY <1>1, <3>1, <3>2 DEF Stored
  <2>5. CASE Extract(p)
    BY <1>1, <1>2, <2>5, ProcessFacts DEF Extract, Doing, Stored, store
  <2>6. ~RemoveFile(p) /\ ~RemoveObject(p)
    BY <1>2, <1>3, <1>8, <2>0 DEF RemoveFile, RemoveObject, Doing, RequestOK
  <2>. QED
    BY <2>1, <2>2, <2>3, <2>4, <2>5, <2>6 DEF Work
<1>. QED
  BY <1>1, <1>2, <1>3, <1>5, <1>7, <1>8

\* What a step keeps when it starts nothing.
LEMMA OrderlyCalm ==
  ASSUME NEW c \in Archives, Orderly(c), Stored(c)' = Stored(c),
         status'[c] = "none" => status[c] = "none",
         status'[c] = "FAILED" => status[c] = "FAILED" \/ req'[c] = Idle,
         status[c] \in Showing => status'[c] \in Showing,
         req'[c] \in {req[c], Idle}, \A h \in Requests : req'[h] \in {req[h], Idle},
         work'[c] \in {work[c], Nothing}
  PROVE  Orderly(c)'
BY StateFacts, CallFacts DEF Orderly

\* A row that may become what it becomes.
LEMMA AllowedCalm ==
  ASSUME NEW c \in Archives, NEW b \in Archives, NEW x \in Statuses, TypeOK,
         Shows(b, x), Allowed(b, x), c \notin spoiled
  PROVE  /\ Stored(c)' = Stored(c)
         /\ status'[c] = "none" => status[c] = "none"
         /\ status[c] \in Showing => status'[c] \in Showing
BY ShowsFacts DEF Allowed, Showing

LEMMA InitVault == Init => VaultInv
<1>. SUFFICES ASSUME Init PROVE VaultInv
  OBVIOUS
<1>1. \A b \in Archives : Orderly(b)
  BY StateFacts, CallFacts, ProcessFacts DEF Init, Orderly, Stored
<1>. QED
  BY <1>1, InitBackups DEF VaultInv

\* Every step keeps an unspoiled backup in order.
LEMMA NextVault == VaultInv /\ [Next]_vars => VaultInv'
<1>. SUFFICES ASSUME VaultInv, [Next]_vars PROVE VaultInv'
  OBVIOUS
<1>0. /\ BackupInv /\ BackupInv' /\ TypeOK /\ Processes = Archives \cup Requests /\ Archives \cap Requests = {}
      /\ \A c \in Archives : RunOK(c)
      /\ \A c \in Archives : c \notin spoiled => Orderly(c) /\ Unspoiled(c)
  BY NextBackups, ProcessFacts DEF VaultInv, BackupInv
<1>. SUFFICES ASSUME NEW c \in Archives, c \notin spoiled'
              PROVE  Orderly(c)'
  BY <1>0 DEF VaultInv
<1>row. ASSUME RowStep, req'[c] \in {req[c], Idle}, \A h \in Requests : req'[h] \in {req[h], Idle},
               work'[c] \in {work[c], Nothing},
               status'[c] = "FAILED" => status[c] = "FAILED" \/ req'[c] = Idle
        PROVE  Orderly(c)'
  <2>1. PICK b \in Archives, x \in Statuses : Shows(b, x) /\ Allowed(b, x)
    BY <1>row, RowStepShows
  <2>2. c \notin spoiled /\ Orderly(c)
    BY <1>0, <2>1 DEF Shows
  <2>3. /\ Stored(c)' = Stored(c)
        /\ status'[c] = "none" => status[c] = "none"
        /\ status[c] \in Showing => status'[c] \in Showing
    BY <1>0, <2>1, <2>2, AllowedCalm
  <2>. QED
    BY <1>row, <2>2, <2>3, OrderlyCalm
<1>1. ASSUME NEW b \in Archives, Create(b)
      PROVE  Orderly(c)'
  <2>1. UNCHANGED <<remote, work, disk, bucket, spoiled>> /\ status[b] = "none"
    BY <1>1 DEF Create, store
  <2>2. \A q \in Processes : q # b => req'[q] = req[q]
    BY <1>0, <1>1 DEF Create, TypeOK
  <2>3. Stored(c)' = Stored(c) /\ Orderly(c) /\ \A d \in Archives : status'[d] = IF d = b THEN "PENDING" ELSE status[d]
    BY <1>0, <1>1, <2>1 DEF Create, Stored, TypeOK
  <2>4. CASE c # b
    BY <1>0, <2>1, <2>2, <2>3, <2>4, OrderlyCalm
  <2>5. CASE c = b
    BY <1>0, <2>1, <2>2, <2>3, <2>5 DEF Orderly, Showing
  <2>. QED
    BY <2>4, <2>5
<1>2. ASSUME NEW b \in Archives, BeginBackup(b)
      PROVE  Orderly(c)'
  <2>1. UNCHANGED <<remote, disk, bucket, spoiled>> /\ req[b].pc = "begin" /\ RowStep
    BY <1>2 DEF BeginBackup, store, RowStep
  <2>2. CASE Exists(b) /\ status' = [status EXCEPT ![b] = "IN_PROGRESS"] /\ Call(b, "create", b)
    <3>1. \A q \in Processes : q # b => req'[q] = req[q] /\ work'[q] = work[q]
      BY <1>0, <2>2 DEF Call, TypeOK
    <3>2. Stored(c)' = Stored(c) /\ Orderly(c) /\ \A d \in Archives : status'[d] = IF d = b THEN "IN_PROGRESS" ELSE status[d]
      BY <1>0, <2>1, <2>2 DEF Stored, TypeOK
    <3>3. CASE c # b
      BY <1>0, <3>1, <3>2, <3>3, OrderlyCalm
    <3>4. CASE c = b
      <4>1. Stored(b) # "whole" /\ \A h \in Requests : ~(req[h] # Idle /\ req[h].backup = b)
        BY <1>0, <2>1, <3>2, <3>4, StateFacts DEF Orderly, Unspoiled, Done
      <4>. QED
        BY <1>0, <3>1, <3>2, <3>4, <4>1 DEF Orderly
    <3>. QED
      BY <3>3, <3>4
  <2>3. CASE Finish(b) /\ UNCHANGED <<status, work>>
    <3>1. req'[b] = Idle /\ \A q \in Processes : q # b => req'[q] = req[q]
      BY <1>0, <2>3, FinishFacts
    <3>. QED
      BY <1>0, <2>1, <2>3, <3>1, <1>row
  <2>. QED
    BY <1>2, <2>2, <2>3 DEF BeginBackup
<1>3. ASSUME NEW b \in Archives, BackedUp(b)
      PROVE  Orderly(c)'
  <2>1. RowStep /\ Finish(b) /\ UNCHANGED work
    BY <1>3 DEF RowStep, BackedUp
  <2>2. req'[b] = Idle /\ \A q \in Processes : q # b => req'[q] = req[q]
    BY <1>0, <2>1, FinishFacts
  <2>3. c # b => status'[c] = status[c]
    BY <1>0, <1>3 DEF BackedUp, TypeOK
  <2>. QED
    BY <1>0, <2>1, <2>2, <2>3, <1>row
<1>4. ASSUME NEW h \in Requests, BeginRestore(h) \/ Restored(h) \/ Deleted(h)
      PROVE  Orderly(c)'
  <2>1. RowStep
    BY <1>4 DEF RowStep
  <2>2. status'[c] \in {status[c], "RESTORING", "COMPLETED", "gone"}
    BY <1>0, <1>4 DEF BeginRestore, Restored, Deleted, TypeOK
  <2>3. CASE Finish(h) /\ UNCHANGED work
    <3>1. req'[h] = Idle /\ \A q \in Processes : q # h => req'[q] = req[q]
      BY <1>0, <2>3, FinishFacts
    <3>. QED
      BY <1>0, <2>1, <2>2, <2>3, <3>1, <1>row
  <2>4. CASE BeginRestore(h) /\ Exists(req[h].backup) /\ Call(h, "restore", req[h].backup)
    <3>1. req[h].op = "restore" /\ req[h].pc = "begin"
      BY <2>4 DEF BeginRestore
    <3>2. req[h] # Idle
      BY <3>1, StateFacts
    <3>3. PICK b \in Archives : b = req[h].backup
      BY <3>2, RestoreShows, <2>4
    <3>4. \A q \in Processes : q # h => req'[q] = req[q] /\ work'[q] = work[q]
      BY <1>0, <2>4 DEF Call, TypeOK
    <3>5. req'[h].backup = b
      BY <1>0, <2>4, <3>3 DEF Call, State, TypeOK
    <3>6. PICK d \in Archives, x \in Statuses : Shows(d, x) /\ Allowed(d, x)
      BY <2>1, RowStepShows
    <3>7. c \notin spoiled /\ Orderly(c)
      BY <1>0, <3>6 DEF Shows
    <3>8. /\ Stored(c)' = Stored(c)
          /\ status'[c] = "none" => status[c] = "none"
          /\ status[c] \in Showing => status'[c] \in Showing
      BY <1>0, <3>6, <3>7, AllowedCalm
    <3>9. \A g \in Requests : req'[g] # Idle /\ req'[g].backup = c => status'[c] \in Showing
      BY <1>0, <3>2, <3>3, <3>4, <3>5, <3>7, <3>8 DEF Orderly
    <3>. QED
      BY <1>0, <2>2, <3>4, <3>7, <3>8, <3>9 DEF Orderly
  <2>. QED
    BY <1>4, <2>3, <2>4 DEF BeginRestore, Restored, Deleted
<1>5. ASSUME NEW h \in Requests, NEW b \in Archives, Restore(h, b) \/ Delete(h, b)
      PROVE  Orderly(c)'
  <2>1. /\ UNCHANGED <<status, remote, disk, bucket>> /\ spoiled \subseteq spoiled'
        /\ b = c => status[c] \in {"COMPLETED", "RESTORING"}
    BY <1>5 DEF Restore, Delete, store
  <2>2. \A q \in Processes : q # h => req'[q] = req[q] /\ work'[q] = work[q]
    BY <1>0, <1>5 DEF Restore, Delete, Call, TypeOK
  <2>3. req'[h].backup = b
    BY <1>0, <1>5 DEF Restore, Delete, Call, State, TypeOK
  <2>4. Orderly(c) /\ Stored(c)' = Stored(c)
    BY <1>0, <2>1 DEF Stored
  <2>5. \A g \in Requests : req'[g] # Idle /\ req'[g].backup = c => status'[c] \in Showing
    BY <1>0, <2>1, <2>2, <2>3, <2>4 DEF Orderly, Showing
  <2>. QED
    BY <1>0, <2>1, <2>2, <2>4, <2>5 DEF Orderly
<1>6. ASSUME NEW p \in Processes, Work(p)
      PROVE  Orderly(c)'
  <2>1. PICK b \in Archives : b = work[p].backup
    BY <1>6, WorkStores
  <2>2. /\ UNCHANGED <<status, remote, req, spoiled>> /\ work[p] # Nothing /\ (p \in Archives => b = p)
        /\ \A q \in Processes : q # p => work'[q] = work[q]
        /\ c # b => Stored(c)' = Stored(c)
        /\ c = b /\ p = c /\ work'[p].step \in {"open", "close"} => Stored(c)' # "whole"
    BY <1>6, <2>1, WorkStores
  <2>3. Orderly(c) /\ Unspoiled(c) /\ RunOK(c)
    BY <1>0, <2>2
  <2>4. CASE c # b
    BY <1>0, <2>2, <2>3, <2>4, OrderlyCalm
  <2>5. CASE c = b /\ p # c
    <3>1. Done(c)
      BY <1>0, <2>1, <2>2, <2>3, <2>5 DEF Unspoiled
    <3>2. work'[c] = Nothing
      BY <1>0, <2>2, <2>5, <3>1 DEF Done
    <3>. QED
      BY <2>2, <2>3, <3>1, <3>2, StateFacts, CallFacts DEF Orderly, Done
  <2>6. CASE c = b /\ p = c
    BY <2>2, <2>3, <2>6 DEF Orderly, RunOK
  <2>. QED
    BY <2>4, <2>5, <2>6
<1>7. ASSUME NEW p \in Processes, Lost(p) \/ DatabaseFails(p)
      PROVE  Orderly(c)'
  <2>1. UNCHANGED <<status, remote, disk, bucket, spoiled>>
    BY <1>7 DEF Lost, DatabaseFails, store
  <2>2. req' = req \/ req' = [req EXCEPT ![p] = Idle]
    BY <1>7 DEF Lost, DatabaseFails, Finish
  <2>3. work' = work \/ work' = [work EXCEPT ![p] = Nothing]
    BY <1>7 DEF Lost, DatabaseFails
  <2>4. \A q \in Processes : req'[q] \in {req[q], Idle} /\ work'[q] \in {work[q], Nothing}
    BY <1>0, <2>2, <2>3 DEF TypeOK
  <2>. QED
    BY <1>0, <2>1, <2>4, OrderlyCalm DEF Stored
<1>8. CASE ServerDeleted
  <2>1. UNCHANGED <<remote, req, work, disk, bucket, spoiled>> /\ status'[c] = "gone"
    BY <1>8 DEF ServerDeleted, store
  <2>. QED
    BY <1>0, <2>1, OrderlyCalm DEF Stored, Showing
<1>9. CASE BackendRestart \/ DaemonRestart
  <2>1. UNCHANGED <<status, remote, disk, bucket, spoiled>>
    BY <1>9 DEF BackendRestart, DaemonRestart, store
  <2>2. \A q \in Processes : req'[q] \in {req[q], Idle} /\ work'[q] \in {work[q], Nothing}
    BY <1>9 DEF BackendRestart, DaemonRestart
  <2>. QED
    BY <1>0, <2>1, <2>2, OrderlyCalm DEF Stored
<1>10. CASE UNCHANGED vars
  <2>1. UNCHANGED <<status, remote, req, work, disk, bucket, spoiled>>
    BY <1>10 DEF vars, store
  <2>. QED
    BY <1>0, <2>1 DEF Orderly, Stored
<1>. QED
  BY <1>1, <1>2, <1>3, <1>4, <1>5, <1>6, <1>7, <1>8, <1>9, <1>10
     DEF Next, Backup, Request, BackupsPanel

\* What shows, and what is whole.
ShownAll == [b \in Archives |-> Shown(b)]
WholeAll == {b \in Archives : Stored(b) = "whole"}

LEMMA ShownStatuses ==
  ASSUME NEW b \in Archives, status[b] \in Statuses
  PROVE  /\ status[b] \in {"PENDING", "IN_PROGRESS"} => Shown(b) = "busy"
         /\ status[b] \in {"COMPLETED", "RESTORING"} => Shown(b) = "kept"
         /\ status[b] = "FAILED" => Shown(b) = "failed"
         /\ status[b] \in {"none", "gone"} => Shown(b) = status[b]
BY DEF Shown

\* When the rows and the archives show the same, the vault does nothing.
LEMMA VaultSame ==
  ASSUME UNCHANGED <<status, remote, disk, bucket, spoiled>>
  PROVE  UNCHANGED Vault!vars
BY DEF Vault!vars, Shown, Stored

\* A row that changes is a step of the vault.
LEMMA VaultRow ==
  ASSUME TypeOK, NEW b \in Archives, NEW x \in Statuses, Shows(b, x), Allowed(b, x)
  PROVE  [Vault!Next]_(Vault!vars)
<1>1. /\ status'[b] = x /\ \A c \in Archives : c # b => status'[c] = status[c]
      /\ \A c \in Archives : Stored(c)' = Stored(c)
  BY ShowsFacts
<1>2. status[b] \in Statuses /\ status'[b] \in Statuses
  BY <1>1 DEF TypeOK
<1>3. spoiled' = spoiled /\ WholeAll' = WholeAll
  BY <1>1 DEF Shows, WholeAll
<1>4. \A c \in Archives : c # b => Shown(c)' = Shown(c)
  BY <1>1 DEF Shown
<1>5. PICK s : s = Shown(b)'
  OBVIOUS
<1>6. ShownAll' = [ShownAll EXCEPT ![b] = s]
  BY <1>4, <1>5 DEF ShownAll
<1>7. /\ status[b] \in {"PENDING", "IN_PROGRESS"} => Shown(b) = "busy"
      /\ status[b] \in {"COMPLETED", "RESTORING"} => Shown(b) = "kept"
      /\ status[b] = "FAILED" => Shown(b) = "failed"
      /\ status[b] \in {"none", "gone"} => Shown(b) = status[b]
  BY <1>2, ShownStatuses
<1>8. /\ x \in {"PENDING", "IN_PROGRESS"} => s = "busy"
      /\ x \in {"COMPLETED", "RESTORING"} => s = "kept"
      /\ x = "FAILED" => s = "failed"
      /\ x \in {"none", "gone"} => s = x
  BY <1>1, <1>2, <1>5 DEF Shown
<1>9. ShownAll[b] = Shown(b) /\ ShownAll \in [Archives -> {ShownAll[c] : c \in Archives}]
  BY DEF ShownAll
<1>10. ASSUME s = Shown(b) PROVE UNCHANGED Vault!vars
  <2>1. ShownAll' = ShownAll
    BY <1>6, <1>9, <1>10
  <2>. QED
    BY <1>3, <2>1 DEF Vault!vars, ShownAll, WholeAll
<1>shows. Vault!Show(b, s)
  BY <1>3, <1>6 DEF Vault!Show, ShownAll, WholeAll
<1>11. CASE x = status[b]
  BY <1>1, <1>7, <1>8, <1>10, <1>11, <1>2 DEF Statuses
<1>12. CASE status[b] = "none" /\ x = "PENDING"
  <2>1. Vault!Ask(b)
    BY <1>7, <1>8, <1>9, <1>12, <1>shows DEF Vault!Ask, ShownAll
  <2>. QED
    BY <2>1 DEF Vault!Next
<1>13. CASE status[b] \in {"PENDING", "IN_PROGRESS"} /\ x = "IN_PROGRESS"
  BY <1>7, <1>8, <1>10, <1>13
<1>14. CASE status[b] \in {"PENDING", "IN_PROGRESS"} /\ x = "FAILED"
  <2>1. Vault!Fail(b)
    BY <1>7, <1>8, <1>9, <1>14, <1>shows DEF Vault!Fail, ShownAll
  <2>. QED
    BY <2>1 DEF Vault!Next
<1>15. CASE status[b] \in {"PENDING", "IN_PROGRESS"} /\ x = "COMPLETED" /\ Stored(b) = "whole"
  <2>1. Vault!Complete(b)
    BY <1>7, <1>8, <1>9, <1>15, <1>shows DEF Vault!Complete, ShownAll
  <2>. QED
    BY <2>1 DEF Vault!Next
<1>16. CASE status[b] \in {"COMPLETED", "RESTORING"} /\ x \in {"COMPLETED", "RESTORING"}
  BY <1>7, <1>8, <1>10, <1>16
<1>17. CASE b \in spoiled /\ status[b] # "gone" /\ x # "none"
  <2>1. s \in Vault!Rows \cup {"gone"}
    BY <1>8, <1>17 DEF Vault!Rows, Statuses
  <2>2. Shown(b) # "gone"
    BY <1>2, <1>7, <1>17 DEF Statuses
  <2>3. Vault!Settle(b)
    BY <1>9, <1>17, <1>shows, <2>1, <2>2 DEF Vault!Settle, ShownAll
  <2>. QED
    BY <2>3 DEF Vault!Next
<1>. QED
  BY <1>11, <1>12, <1>13, <1>14, <1>15, <1>16, <1>17 DEF Allowed

\* An archive that is written is a step of the vault.
LEMMA VaultStore ==
  ASSUME VaultInv, NEW p \in Processes, Work(p)
  PROVE  [Vault!Next]_(Vault!vars)
<1>1. PICK b \in Archives : b = work[p].backup
  BY WorkStores
<1>2. /\ UNCHANGED <<status, spoiled>>
      /\ \A c \in Archives : c # b => Stored(c)' = Stored(c)
      /\ b \notin spoiled /\ Stored(b) = "whole" => Stored(b)' = "whole"
  BY <1>1, WorkStores
<1>3. ShownAll' = ShownAll
  BY <1>2 DEF ShownAll, Shown
<1>4. CASE Stored(b)' = "whole"
  <2>1. WholeAll' = WholeAll \cup {b}
    BY <1>2, <1>4 DEF WholeAll
  <2>2. Vault!Store(b)
    BY <1>2, <1>3, <2>1 DEF Vault!Store, ShownAll, WholeAll
  <2>. QED
    BY <2>2 DEF Vault!Next
<1>5. CASE Stored(b)' # "whole" /\ b \in spoiled
  <2>1. WholeAll' = WholeAll \ {b}
    BY <1>2, <1>5 DEF WholeAll
  <2>2. Vault!Lose(b)
    BY <1>2, <1>3, <1>5, <2>1 DEF Vault!Lose, ShownAll, WholeAll
  <2>. QED
    BY <2>2 DEF Vault!Next
<1>6. CASE Stored(b)' # "whole" /\ b \notin spoiled
  <2>1. WholeAll' = WholeAll
    BY <1>2, <1>6 DEF WholeAll
  <2>. QED
    BY <1>2, <1>3, <2>1 DEF Vault!vars, ShownAll, WholeAll
<1>. QED
  BY <1>4, <1>5, <1>6

LEMMA VaultInit == Init => Vault!Init
BY DEF Init, Vault!Init, Shown, Stored

LEMMA VaultStep == VaultInv /\ [Next]_vars => [Vault!Next]_(Vault!vars)
<1>. SUFFICES ASSUME VaultInv, [Next]_vars PROVE [Vault!Next]_(Vault!vars)
  OBVIOUS
<1>0. TypeOK
  BY DEF VaultInv, BackupInv
<1>1. CASE RowStep
  BY <1>0, <1>1, RowStepShows, VaultRow
<1>2. ASSUME NEW h \in Requests, NEW b \in Archives, Restore(h, b) \/ Delete(h, b)
      PROVE  [Vault!Next]_(Vault!vars)
  <2>1. UNCHANGED <<status, remote, disk, bucket>> /\ Exists(b) /\ spoiled' \in {spoiled, spoiled \cup {b}}
    BY <1>2 DEF Restore, Delete, store
  <2>2. ShownAll' = ShownAll /\ WholeAll' = WholeAll
    BY <2>1 DEF ShownAll, WholeAll, Shown, Stored
  <2>3. CASE spoiled' = spoiled
    BY <2>2, <2>3 DEF Vault!vars, ShownAll, WholeAll
  <2>4. CASE spoiled' = spoiled \cup {b}
    <3>1. status[b] \in Statuses \ {"none", "gone"}
      BY <1>0, <2>1 DEF TypeOK, Exists
    <3>2. Shown(b) \in {"busy", "kept", "failed"} /\ ShownAll[b] = Shown(b)
      BY <3>1, ShownStatuses DEF Statuses, ShownAll
    <3>3. Vault!Release(b)
      BY <2>2, <2>4, <3>2 DEF Vault!Release, Vault!Rows, ShownAll, WholeAll
    <3>. QED
      BY <3>3 DEF Vault!Next
  <2>. QED
    BY <2>1, <2>3, <2>4
<1>3. ASSUME NEW p \in Processes, Work(p)
      PROVE  [Vault!Next]_(Vault!vars)
  BY <1>3, VaultStore
<1>4. CASE ServerDeleted
  <2>1. ShownAll' = [b \in Archives |-> "gone"] /\ WholeAll' = WholeAll /\ spoiled' = spoiled
    BY <1>4 DEF ServerDeleted, store, ShownAll, WholeAll, Shown, Stored
  <2>2. Vault!DropServer
    BY <2>1 DEF Vault!DropServer, ShownAll, WholeAll
  <2>. QED
    BY <2>2 DEF Vault!Next
<1>5. ASSUME \/ \E p \in Processes : Lost(p) \/ DatabaseFails(p)
             \/ BackendRestart \/ DaemonRestart \/ UNCHANGED vars
      PROVE  [Vault!Next]_(Vault!vars)
  <2>1. UNCHANGED <<status, remote, disk, bucket, spoiled>>
    BY <1>5 DEF Lost, DatabaseFails, BackendRestart, DaemonRestart, vars, store
  <2>. QED
    BY <2>1, VaultSame
<1>. QED
  BY <1>1, <1>2, <1>3, <1>4, <1>5 DEF Next, Backup, Request, BackupsPanel, RowStep

\* The backups implement the vault, for any number of backups, requests and
\* failures: what is shown as kept is whole and stays so until it is released,
\* or goes with its server.
THEOREM VaultCorrect == Spec => KeepsVault
BY VaultInit, VaultStep, InitVault, NextVault, PTL DEF Spec, KeepsVault, Vault!Spec
=============================================================================
