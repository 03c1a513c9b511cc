-------------------------------- MODULE PullPin --------------------------------
(***************************************************************************)
(* CPullPin on CAMThread: a worker thread that reads a file through        *)
(* IAsyncReader, chunk by chunk, and hands the chunks downstream; a caller *)
(* that starts, pauses, seeks and stops it with requests the worker        *)
(* replies to.  m_AccessLock lets in one caller at a time.                 *)
(*                                                                         *)
(* A time is the number of a chunk, m_tStop is after the last one.  The    *)
(* allocator has more than one buffer and never runs out of them: two      *)
(* chunks are requested at most, and downstream keeps one.  External: the  *)
(* reader, whose requests fail while it is flushed and may fail or never   *)
(* be answered otherwise, and the overridden Receive, EndOfStream, OnError.*)
(***************************************************************************)
EXTENDS Integers

CONSTANT Chunks   \* the number of chunks of the file

VARIABLES
  m_bSync,          \* reads are synchronous
  m_State,          \* what the thread was last told
  m_tStart,         \* where it starts
  m_hThread,        \* it exists
  m_EventSend, m_dwParam, m_EventComplete,  \* the request and the reply
  committed,        \* m_pAlloc
  readerFlushing,   \* m_pReader
  outstanding,      \* how many requests it has
  worker,           \* where the worker is
  tCurrent,         \* the chunk to be read next
  caller            \* where the caller is

request == <<m_EventSend, m_dwParam, m_EventComplete>>
progress == <<outstanding, tCurrent>>
pullVars == <<m_bSync, m_State, m_tStart, m_hThread, request, committed,
              readerFlushing, progress, worker, caller>>

PullInit ==
  /\ m_bSync \in BOOLEAN
  /\ m_State = "TM_Exit" /\ m_tStart = 1 /\ m_hThread = FALSE
  /\ m_EventSend = FALSE /\ m_dwParam = "TM_Exit" /\ m_EventComplete = FALSE
  /\ committed = FALSE /\ readerFlushing = FALSE /\ outstanding = 0
  /\ worker = "none" /\ tCurrent = 1 /\ caller = "none"

-----------------------------------------------------------------------------
(* The caller.  CallWorker sets the request and waits for the reply.       *)
CallWorker(cmd) ==
  /\ m_State' = cmd
  /\ m_dwParam' = cmd /\ m_EventSend' = TRUE /\ UNCHANGED m_EventComplete

(* StartThread at a position: Active, or the last part of Seek. *)
StartThread(start) ==
  /\ caller = "none"
  /\ m_tStart' = start
  /\ IF m_hThread THEN UNCHANGED <<worker, committed>>
     ELSE worker' = "request" /\ committed' = TRUE
  /\ m_hThread' = TRUE
  /\ CallWorker("TM_Start")
  /\ caller' = "starting"
  /\ UNCHANGED <<m_bSync, readerFlushing, progress>>

(* PauseThread and StopThread first flush the reader, lest the worker is   *)
(* blocked in WaitForNext.  Mutant: they do not.                           *)
BeginReaderFlush_NoFlush(cmd) ==
  /\ caller = "none" /\ m_hThread
  /\ caller' = IF cmd = "TM_Exit" THEN "stop" ELSE "pause"
  /\ UNCHANGED <<m_bSync, m_State, m_tStart, m_hThread, request, committed, readerFlushing,
                 progress, worker>>

BeginReaderFlush(cmd) ==
  /\ caller = "none" /\ m_hThread
  /\ readerFlushing' = TRUE
  /\ caller' = IF cmd = "TM_Exit" THEN "stop" ELSE "pause"
  /\ UNCHANGED <<m_bSync, m_State, m_tStart, m_hThread, request, committed, progress, worker>>

CallFlushed ==
  /\ \/ caller = "stop" /\ CallWorker("TM_Exit") /\ caller' = "stopping"
     \/ caller = "pause" /\ CallWorker("TM_Pause") /\ caller' = "pausing"
  /\ UNCHANGED <<m_bSync, m_tStart, m_hThread, committed, readerFlushing, progress, worker>>

(* The reply: m_EventComplete resets itself, the reader's flush ends. *)
Replied ==
  /\ caller \in {"starting", "pausing", "stopping"}
  /\ m_EventComplete
  /\ m_EventComplete' = FALSE
  /\ readerFlushing' = (readerFlushing /\ caller = "starting")
  /\ caller' = IF caller = "stopping" THEN "closing" ELSE "none"
  /\ UNCHANGED <<m_bSync, m_State, m_tStart, m_hThread, m_EventSend, m_dwParam,
                 committed, progress, worker>>

(* StopThread: Close waits for the thread's end, then Decommit. *)
Close ==
  /\ caller = "closing" /\ worker = "exited"
  /\ m_hThread' = FALSE /\ worker' = "none"
  /\ committed' = FALSE
  /\ caller' = "none"
  /\ UNCHANGED <<m_bSync, m_State, m_tStart, request, readerFlushing, progress>>

(* Seek while the thread is not started only remembers the position. *)
SeekIdle(start) ==
  /\ caller = "none" /\ m_State # "TM_Start"
  /\ m_tStart' = start
  /\ UNCHANGED <<m_bSync, m_State, m_hThread, request, committed, readerFlushing,
                 progress, worker, caller>>

-----------------------------------------------------------------------------
(* The worker.  ThreadProc takes a request and replies.                    *)
Reply == m_EventSend' = FALSE /\ m_EventComplete' = TRUE

workerOnly == <<m_bSync, m_State, m_tStart, m_hThread, committed, caller>>

GetRequest ==
  /\ worker = "request" /\ m_EventSend
  /\ Reply /\ UNCHANGED m_dwParam
  /\ worker' = CASE m_dwParam = "TM_Exit" -> "exited"
                 [] m_dwParam = "TM_Pause" -> "cleanup"
                 [] m_dwParam = "TM_Start" -> "loop"
  /\ tCurrent' = m_tStart
  /\ UNCHANGED <<workerOnly, readerFlushing, outstanding>>

(* Process, the test at the top of its loops: at the end, or asked to do   *)
(* something else.                                                         *)
EndOfLoop ==
  /\ worker = "loop"
  /\ tCurrent > Chunks \/ m_EventSend
  /\ worker' = IF tCurrent > Chunks THEN "end" ELSE "cleanup"
  /\ UNCHANGED <<workerOnly, request, readerFlushing, progress>>

(* Synchronous: a buffer, and the chunk is read into it. *)
SyncRead ==
  /\ worker = "loop" /\ m_bSync
  /\ tCurrent <= Chunks /\ ~m_EventSend /\ committed
  /\ tCurrent' = tCurrent + 1
  /\ worker' = "deliver"
  /\ UNCHANGED <<workerOnly, request, readerFlushing, outstanding>>

(* QueueSample: a buffer, and the chunk is requested; the first one from   *)
(* the outer loop, the second from the inner one.                          *)
QueueSample ==
  /\ ~m_bSync
  /\ \/ worker = "loop" /\ ~m_EventSend
     \/ worker = "queue"
  /\ tCurrent <= Chunks /\ committed /\ ~readerFlushing
  /\ tCurrent' = tCurrent + 1 /\ outstanding' = outstanding + 1
  /\ worker' = IF worker = "loop" THEN "queue" ELSE "collect"
  /\ UNCHANGED <<workerOnly, request, readerFlushing>>

(* The inner loop has requested everything: collect the last one. *)
EndOfQueue ==
  /\ worker = "queue" /\ tCurrent > Chunks
  /\ worker' = "collect"
  /\ UNCHANGED <<workerOnly, request, readerFlushing, progress>>

(* WaitForNext returns the chunk that was requested first. *)
Collect ==
  /\ worker = "collect" /\ ~readerFlushing
  /\ outstanding' = outstanding - 1
  /\ worker' = "deliver"
  /\ UNCHANGED <<workerOnly, request, readerFlushing, tCurrent>>

(* No buffer, or the reader fails, as it does while it is flushed: OnError. *)
ReaderRefuses == ~committed \/ (~m_bSync /\ readerFlushing)

ReadFails ==
  /\ \/ worker = "loop" /\ tCurrent <= Chunks /\ ~m_EventSend
     \/ worker = "queue" /\ tCurrent <= Chunks
     \/ worker = "collect"
  /\ worker' = "cleanup"
  /\ UNCHANGED <<workerOnly, request, readerFlushing, progress>>

(* The chunk that is in the hands of Receive. *)
Delivering == tCurrent - outstanding - 1

(* Receive has returned. *)
Delivered(ok) ==
  /\ worker = "deliver"
  /\ worker' = IF ~ok THEN "cleanup"
               ELSE IF outstanding = 0 THEN "loop" ELSE "queue"
  /\ UNCHANGED <<workerOnly, request, readerFlushing, progress>>

(* EndOfStream is called, Process returns. *)
EndProcess ==
  /\ worker = "end"
  /\ worker' = "cleanup"
  /\ UNCHANGED <<workerOnly, request, readerFlushing, progress>>

(* Back in ThreadProc: a flush of the reader, so that nothing is           *)
(* outstanding.                                                            *)
CleanupCancelled ==
  /\ worker = "cleanup"
  /\ readerFlushing' = FALSE
  /\ outstanding' = 0
  /\ worker' = "request"
  /\ UNCHANGED <<workerOnly, request, tCurrent>>
=============================================================================
