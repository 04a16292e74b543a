----------------------------- MODULE ChainClient -----------------------------
(***************************************************************************)
(* lib/contracts/escrow.ts: what the service reads from the chain.  A task *)
(* is read with getTask; how it ended is read from its events, which are   *)
(* scanned in windows of RPC_MAX_BLOCK_RANGE blocks, newest first and up to*)
(* the first hit, while the chain grows.  An escrow deployed before the    *)
(* arbitration clock answers getTask with a shorter tuple, and is asked    *)
(* again with the older ABI.                                               *)
(***************************************************************************)
EXTENDS Naturals, SequencesExt

CONSTANTS
    Tasks,
    Reads,                 \* concurrent calls
    RPC_MAX_BLOCK_RANGE,
    ESCROW_DEPLOY_BLOCK,
    MaxBlock,              \* bound
    HEAD_LAG,              \* how far getBlockNumber may be behind the other reads
    Mine,                  \* the tasks of the worker a summary is for
    Routes                 \* some of the contract's CompletionRoute

VARIABLES
    blocks,      \* the chain: Seq of [task, kind], at most one event in a block
    legacy,      \* the escrow predates the arbitration clock
    read         \* [Reads -> a call under way, or its answer]

own == << blocks, legacy, read >>

Kinds    == { "nothing", "TaskCreated", "WorkSubmitted", "TaskExpired",
              "Resolved to agent", "Resolved to worker" } \cup Routes
PaidBy   == Routes \cup {"Resolved to worker"}
Ended    == PaidBy \cup {"TaskExpired", "Resolved to agent"}
Blocks   == 1 .. MaxBlock
Operations == {"completion", "outcome", "created", "submitted", "summary"}
Listings == {"created", "submitted"}
NoAnswer == [ pc |-> "idle" ]
Null     == 0

Events(t, height) == { b \in 1 .. height : b <= Len(blocks) /\ blocks[b].task = t
                                           /\ blocks[b].kind # "nothing" }

(* getTask at a height: the kind of the task's last event. *)
StateAt(t, height) ==
    IF Events(t, height) = {} THEN "None"
    ELSE blocks[CHOOSE b \in Events(t, height) : \A c \in Events(t, height) : c <= b].kind

StateNow(t) == StateAt(t, Len(blocks))

Init ==
    /\ blocks = << >> /\ legacy \in BOOLEAN
    /\ read = [r \in Reads |-> NoAnswer]
-----------------------------------------------------------------------------
(* A block, with an event of the contract or of none of the tasks. *)
mine(t, kind) ==
    /\ Len(blocks) < MaxBlock
    /\ CASE kind = "nothing"           -> t = CHOOSE u \in Tasks : TRUE
         [] kind = "TaskCreated"       -> StateNow(t) = "None"
         [] kind = "WorkSubmitted"     -> StateNow(t) = "TaskCreated"
         [] kind = "TaskExpired"       -> StateNow(t) = "TaskCreated"
         [] OTHER                      -> StateNow(t) = "WorkSubmitted"
    /\ blocks' = Append(blocks, [ task |-> t, kind |-> kind ])
    /\ UNCHANGED << legacy, read >>
-----------------------------------------------------------------------------
(* getLogsChunked. *)

Smallest(a, b) == IF a < b THEN a ELSE b

(* Mutant: the next window starts one block late. *)
windows_Gap(from, to) ==
    [ i \in 1 .. (IF to < from THEN 0 ELSE (to - from) \div (RPC_MAX_BLOCK_RANGE + 1) + 1) |->
        LET start == from + (i - 1) * (RPC_MAX_BLOCK_RANGE + 1)
        IN  << start, Smallest(to, start + RPC_MAX_BLOCK_RANGE - 1) >> ]

windows(from, to) ==
    [ i \in 1 .. (IF to < from THEN 0 ELSE (to - from) \div RPC_MAX_BLOCK_RANGE + 1) |->
        LET start == from + (i - 1) * RPC_MAX_BLOCK_RANGE
        IN  << start, Smallest(to, start + RPC_MAX_BLOCK_RANGE - 1) >> ]

(* The blocks of a window with a matching event. *)
Logs(window, t, kinds) ==
    { b \in Events(t, Len(blocks)) : window[1] <= b /\ b <= window[2] /\ blocks[b].kind \in kinds }

Call(r, f) == read' = [read EXCEPT ![r] = f] /\ UNCHANGED << blocks, legacy >>

Answered(r, value) ==
    Call(r, [ pc |-> "answered", op |-> read[r].op, task |-> read[r].task,
              value |-> value, began |-> read[r].began ])

(* The kinds of event an operation scans for, before it has read the task. *)
Scans(op) == CASE op = "outcome"    -> {"Resolved to agent", "Resolved to worker"}
               [] op = "created"    -> {"TaskCreated"}
               [] op = "submitted"  -> {"WorkSubmitted"}
               [] OTHER             -> {}

(* getTaskCompletion(t), getTaskResolvedOutcome(t), the reputation summary,*)
(* and the offline listings of a worker's TaskCreated and WorkSubmitted,   *)
(* which scan upwards and without a stop.                                  *)
begin(r, op, t) ==
    /\ read[r].pc = "idle"
    /\ Call(r, [ pc |-> IF Scans(op) = {} THEN "getTask" ELSE "getBlockNumber",
                 op |-> op, task |-> t, began |-> Len(blocks), old |-> FALSE,
                 kinds |-> Scans(op) ])

(* getOnChainReputationSummary of the ids offered, read in one multicall:  *)
(* no task, or another worker's, is not countable.                         *)
Summary(ids) ==
    LET known == { t \in ids \cap Mine : StateNow(t) # "None" }
    IN  [ paid |-> { t \in known : StateNow(t) \in Routes }, unverified |-> ids \ known ]

(* readTaskStruct; the width mismatch of a legacy escrow asks again.       *)
readTaskStruct(r) ==
    /\ read[r].pc = "getTask"
    /\ LET state == StateNow(read[r].task)
       IN  IF legacy /\ ~ read[r].old THEN Call(r, [read[r] EXCEPT !.old = TRUE])
           ELSE IF read[r].op = "summary" THEN Answered(r, Summary(Tasks))
           ELSE IF state \in Routes
           THEN Call(r, [read[r] EXCEPT !.pc = "getBlockNumber", !.kinds = Routes])
           ELSE IF state \in {"Resolved to worker", "Resolved to agent"}
           THEN Call(r, [read[r] EXCEPT !.pc = "getBlockNumber",
                             !.kinds = {"Resolved to worker", "Resolved to agent"}])
           ELSE Answered(r, Null)

getBlockNumber(r) ==
    /\ read[r].pc = "getBlockNumber"
    /\ \E head \in Blocks \cup {0} :
         /\ head <= Len(blocks) /\ Len(blocks) <= head + HEAD_LAG
         /\ LET ws == windows(ESCROW_DEPLOY_BLOCK, head)
            IN  Call(r, [ pc |-> "getLogs", op |-> read[r].op, task |-> read[r].task,
                          began |-> read[r].began, kinds |-> read[r].kinds, head |-> head,
                          found |-> {},
                          todo |-> IF read[r].op \in Listings THEN ws ELSE Reverse(ws) ])

(* One window; the scan stops at the first that has a log, when it may.    *)
getLogs(r) ==
    /\ read[r].pc = "getLogs" /\ read[r].todo # << >>
    /\ LET found == read[r].found \cup Logs(Head(read[r].todo), read[r].task, read[r].kinds)
           stop  == found # {} /\ read[r].op \notin Listings
       IN  Call(r, [read[r] EXCEPT !.found = found,
                        !.todo = IF stop THEN << >> ELSE Tail(@)])

(* The last log in block order, if it pays the worker. *)
scanned(r) ==
    /\ read[r].pc = "getLogs" /\ read[r].todo = << >>
    /\ LET found == read[r].found
           last  == IF found = {} THEN Null ELSE CHOOSE b \in found : \A c \in found : c <= b
       IN  IF read[r].op = "completion" /\ last # Null /\ blocks[last].kind = "Resolved to agent"
           THEN Answered(r, Null)
           ELSE Answered(r, last)

(* Any of the calls fails: what is under way throws. *)
fails(r) ==
    /\ read[r].pc \in {"getTask", "getBlockNumber", "getLogs"}
    /\ Call(r, NoAnswer)

taken(r) ==
    /\ read[r].pc = "answered"
    /\ Call(r, NoAnswer)
Next ==
    \/ \E t \in Tasks, k \in Kinds : mine(t, k)
    \/ \E r \in Reads, t \in Tasks, op \in Operations : begin(r, op, t)
    \/ \E r \in Reads : \/ readTaskStruct(r) \/ getBlockNumber(r) \/ getLogs(r)
                        \/ scanned(r) \/ fails(r) \/ taken(r)

Spec == Init /\ [][Next]_own
-----------------------------------------------------------------------------
(* The kinds of event an answer is about. *)
Sought(op) == IF op = "completion" THEN PaidBy ELSE Scans(op)

(* An answer names the block of the event that was asked for, however the  *)
(* chain grew and wherever the windows were cut.  "Never" is only said of  *)
(* what had not happened when the question was asked, up to the blocks the *)
(* head may be behind: a task that getTask shows as paid is still answered *)
(* with null when its event is in one of those.  A summary scans nothing:  *)
(* it counts what the chain has paid to this worker, and nothing less.     *)
AnswersAreTrue ==
    \A r \in Reads : read[r].pc = "answered" =>
        LET a == read[r]
            Before(t, kinds, lag) ==
                \E b \in Events(t, a.began) : /\ b >= ESCROW_DEPLOY_BLOCK /\ b + lag <= a.began
                                              /\ blocks[b].kind \in kinds
        IN  IF a.op = "summary"
            THEN /\ \A t \in a.value.paid : t \in Mine /\ StateNow(t) \in Routes
                 /\ \A t \in Mine : Before(t, Routes, 0) => t \in a.value.paid
            ELSE IF a.value = Null THEN ~ Before(a.task, Sought(a.op), HEAD_LAG)
            ELSE /\ a.value \in 1 .. Len(blocks) /\ blocks[a.value].task = a.task
                 /\ blocks[a.value].kind \in Sought(a.op)
=============================================================================
