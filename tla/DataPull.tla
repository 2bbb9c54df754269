------------------------------ MODULE DataPull ------------------------------
(***************************************************************************)
(* The pull path of Data inputs (crates/graph/src/pull, core cache.rs).    *)
(* Before the transform of a consumer, every Data edge into it is pulled:  *)
(* a "cached" edge reads the output cache of an Exec node, a "pure" edge   *)
(* evaluates a pure-form node, which pulls the same cache for its own      *)
(* input and keeps its result in the memo all nodes of the workflow share, *)
(* keyed by trace and input, until the trace is cleared.                   *)
(*                                                                         *)
(* A payload is abstracted to the cache value it was computed from, and    *)
(* the output of the pure node to that value and its shape: an object that *)
(* has the pin as a key, or anything else.  Time is the age of the cached  *)
(* value and what is left of a wait, both counted in ticks.                *)
(***************************************************************************)
EXTENDS Naturals, Sequences, FiniteSets

CONSTANTS
  Consumers,   \* nodes with Data inputs, each with its own task
  DataInEdges, \* [Consumers -> Seq({"cached", "pure"})], EdgesByConsumer
  PullTraces,  \* trace ids
  CacheValues, \* values the Exec node produces, positive
  CacheTtl,    \* ttl_ms of the input pins, in ticks
  BlockTimeout \* block_timeout_ms, in ticks

ASSUME DataPullAssumption ==
  /\ DataInEdges \in [Consumers -> Seq({"cached", "pure"})]
  /\ CacheValues \subseteq Nat \ {0} /\ CacheTtl \in Nat /\ BlockTimeout \in Nat

VARIABLES
  cacheSlot,  \* the slot of the output cache: a value and its age, or 0 when empty
  memo,       \* PureMemo: [trace, input, result, shape]
  pullPhase,  \* where the task of a consumer is
  pullTrace,  \* the trace it works on
  pullEdge,   \* index of the Data edge it pulls
  pullInput,  \* the value read from the cache for the edge
  pulled,     \* the value delivered for the edge
  waitLeft,   \* ticks before the BlockUntilReady wait ends
  unfinished  \* history: traces some task left without reaching clear_trace

pullVars == <<cacheSlot, memo, pullPhase, pullTrace, pullEdge, pullInput, pulled, waitLeft, unfinished>>

\* What EmptyPolicy::DefaultValue and EmptyPolicy::Skip deliver.
DefaultValue == 100
NullValue    == 101

CacheFresh(s) == s.value # 0 /\ s.age <= CacheTtl

PullTo(c, p) == pullPhase' = [pullPhase EXCEPT ![c] = p]
PullTarget(c)  == DataInEdges[c][pullEdge[c]]

\* What a finished task remembers of its pulls.
PullForget(c) ==
  /\ pullEdge' = [pullEdge EXCEPT ![c] = 1]
  /\ pullInput' = [pullInput EXCEPT ![c] = 0] /\ pulled' = [pulled EXCEPT ![c] = 0]

\* pull_data_inputs: the next pullEdge, or merge_payload and the transform.
EdgeDone(c, v) ==
  /\ pulled' = [pulled EXCEPT ![c] = v]
  /\ IF pullEdge[c] < Len(DataInEdges[c])
     THEN pullEdge' = [pullEdge EXCEPT ![c] = @ + 1] /\ PullTo(c, "pull")
     ELSE PullTo(c, "transform") /\ UNCHANGED pullEdge

\* The cache answers v: that is the value of a cached edge, and the input of
\* the pure node of a pure one.
PullDeliver(c, v) ==
  /\ pullInput' = [pullInput EXCEPT ![c] = v]
  /\ IF PullTarget(c) = "pure"
     THEN PullTo(c, "memo") /\ UNCHANGED <<pullEdge, pulled>>
     ELSE EdgeDone(c, v)

\* An error of the pull: run_node reports it and takes the next message.
PullFails(c) ==
  /\ PullTo(c, "idle") /\ unfinished' = unfinished \cup {pullTrace[c]}
  /\ PullForget(c)

-----------------------------------------------------------------------------
\* The Exec node finishes a transform: write_now.
CacheWrite ==
  /\ \E v \in CacheValues : cacheSlot' = [value |-> v, age |-> 0]
  /\ UNCHANGED <<memo, pullPhase, pullTrace, pullEdge, pullInput, pulled, waitLeft, unfinished>>

\* Ages are counted up to the first one that is expired.
TimePasses ==
  /\ cacheSlot' = [cacheSlot EXCEPT !.age = IF @ > CacheTtl THEN @ ELSE @ + 1]
  /\ waitLeft' = [c \in Consumers |-> IF waitLeft[c] = 0 THEN 0 ELSE waitLeft[c] - 1]
  /\ UNCHANGED <<memo, pullPhase, pullTrace, pullEdge, pullInput, pulled, unfinished>>

\* A message arrives; a node without Data edges is never blocked here.
ReceiveTrace(c) ==
  /\ pullPhase[c] = "idle"
  /\ \E t \in PullTraces : pullTrace' = [pullTrace EXCEPT ![c] = t]
  /\ PullTo(c, IF DataInEdges[c] = <<>> THEN "transform" ELSE "pull")
  /\ UNCHANGED <<cacheSlot, memo, pullEdge, pullInput, pulled, waitLeft, unfinished>>

\* pull_one on an Exec node: the cache, then the empty policy of the pin.
ReadCache(c) ==
  /\ pullPhase[c] = "pull"
  /\ IF CacheFresh(cacheSlot) THEN PullDeliver(c, cacheSlot.value)
     ELSE \/ PullTo(c, "subscribe") /\ UNCHANGED <<pullEdge, pullInput, pulled>>
          \/ PullDeliver(c, DefaultValue)
          \/ PullDeliver(c, NullValue)
  /\ UNCHANGED <<cacheSlot, memo, pullTrace, waitLeft, unfinished>>

\* BlockUntilReady: the receiver is cloned and its current value tried.
SubscribeCache(c) ==
  /\ pullPhase[c] = "subscribe"
  /\ IF CacheFresh(cacheSlot)
     THEN PullDeliver(c, cacheSlot.value) /\ UNCHANGED waitLeft
     ELSE PullTo(c, "blocked") /\ waitLeft' = [waitLeft EXCEPT ![c] = BlockTimeout]
          /\ UNCHANGED <<pullEdge, pullInput, pulled>>
  /\ UNCHANGED <<cacheSlot, memo, pullTrace, unfinished>>

\* changed(): the clone has seen nothing, so any write of the past counts.
CacheChanged(c) ==
  /\ pullPhase[c] = "blocked" /\ cacheSlot.value # 0
  /\ IF CacheFresh(cacheSlot) THEN PullDeliver(c, cacheSlot.value) /\ UNCHANGED unfinished ELSE PullFails(c)
  /\ waitLeft' = [waitLeft EXCEPT ![c] = 0] /\ UNCHANGED <<cacheSlot, memo, pullTrace>>

\* Mutant: the wait starts again.
BlockTimeoutRetries(c) ==
  /\ pullPhase[c] = "blocked" /\ waitLeft[c] = 0
  /\ PullTo(c, "subscribe")
  /\ UNCHANGED <<cacheSlot, memo, pullTrace, pullEdge, pullInput, pulled, waitLeft, unfinished>>

\* The wait is over: the cache is read once more.
BlockTimesOut(c) ==
  /\ pullPhase[c] = "blocked" /\ waitLeft[c] = 0
  /\ IF CacheFresh(cacheSlot) THEN PullDeliver(c, cacheSlot.value) /\ UNCHANGED unfinished ELSE PullFails(c)
  /\ waitLeft' = [waitLeft EXCEPT ![c] = 0] /\ UNCHANGED <<cacheSlot, memo, pullTrace>>

\* Mutant: the key of the memo has no input hash.
MemoEntryOfTrace(c) == {m \in memo : m.trace = pullTrace[c]}

\* PureMemo::get.
MemoEntry(c) == {m \in memo : m.trace = pullTrace[c] /\ m.input = pullInput[c]}

\* A hit is delivered by the name of the pin only; a miss evaluates the node.
ReadMemo(c) ==
  /\ pullPhase[c] = "memo"
  /\ \/ /\ MemoEntry(c) = {} /\ PullTo(c, "evaluate")
        /\ UNCHANGED <<pullEdge, pullInput, pulled, unfinished>>
     \/ \E m \in MemoEntry(c) :
          IF m.shape = "object" THEN EdgeDone(c, m.result) /\ UNCHANGED <<pullInput, unfinished>>
                                ELSE PullFails(c)
  /\ UNCHANGED <<cacheSlot, memo, pullTrace, waitLeft>>

\* The guarded transform of the pure node fails, panics or times out.
PureFails(c) ==
  /\ pullPhase[c] = "evaluate" /\ PullFails(c)
  /\ UNCHANGED <<cacheSlot, memo, pullTrace, waitLeft>>

\* It returns: the result is kept, the pin or the whole payload is delivered.
PureReturns(c) ==
  /\ pullPhase[c] = "evaluate"
  /\ \E s \in {"object", "other"} :
       memo' = (memo \ MemoEntry(c)) \cup
         {[trace |-> pullTrace[c], input |-> pullInput[c], result |-> pullInput[c], shape |-> s]}
  /\ EdgeDone(c, pullInput[c])
  /\ UNCHANGED <<cacheSlot, pullTrace, pullInput, waitLeft, unfinished>>

\* The transform ends, well or not, and its outputs are sent: clear_trace.
TransformEnds(c) ==
  /\ pullPhase[c] = "transform" /\ PullForget(c) /\ PullTo(c, "idle")
  /\ memo' = {m \in memo : m.trace # pullTrace[c]}
  /\ UNCHANGED <<cacheSlot, pullTrace, waitLeft, unfinished>>

\* A send fails: the task ends before clear_trace.
SendFailsAfterPull(c) ==
  /\ pullPhase[c] = "transform" /\ PullForget(c) /\ PullTo(c, "ended")
  /\ unfinished' = unfinished \cup {pullTrace[c]}
  /\ UNCHANGED <<cacheSlot, memo, pullTrace, waitLeft>>

-----------------------------------------------------------------------------
PullInit ==
  /\ cacheSlot = [value |-> 0, age |-> 0] /\ memo = {} /\ unfinished = {}
  /\ pullPhase = [c \in Consumers |-> "idle"]
  /\ pullTrace \in {[c \in Consumers |-> t] : t \in {CHOOSE x \in PullTraces : TRUE}}
  /\ pullEdge = [c \in Consumers |-> 1]
  /\ pullInput = [c \in Consumers |-> 0] /\ pulled = [c \in Consumers |-> 0]
  /\ waitLeft = [c \in Consumers |-> 0]

PullStep(c) ==
  \/ ReadCache(c) \/ SubscribeCache(c) \/ CacheChanged(c) \/ BlockTimesOut(c)
  \/ ReadMemo(c) \/ PureFails(c) \/ PureReturns(c)

PullNext ==
  \/ CacheWrite \/ TimePasses
  \/ \E c \in Consumers : ReceiveTrace(c) \/ PullStep(c) \/ TransformEnds(c) \/ SendFailsAfterPull(c)

PullSpec == PullInit /\ [][PullNext]_pullVars

-----------------------------------------------------------------------------
\* What the pure node delivers was computed from the value this consumer has
\* just read, although the memo is shared by all consumers of the trace and
\* the cache is rewritten between two pulls (memo.rs:13, collector.rs:142).
PureMatchesInput ==
  \A c \in Consumers : pullPhase[c] = "transform" /\ DataInEdges[c] # <<>> => pulled[c] = pullInput[c]

\* The memo keeps entries of running traces and of traces some task left by
\* an error of the pull or of the send, and of no others: a transform that
\* fails does not leak, and neither does a consumer that is overtaken by the
\* clear_trace of another one (runner.rs:385).
MemoOnlyLeaksUnfinished ==
  \A m \in memo : m.trace \in unfinished \/ \E c \in Consumers :
    pullTrace[c] = m.trace /\ pullPhase[c] \notin {"idle", "ended"}

\* Every pull ends, with a value or an error, even when the Exec node never
\* writes: no wait is started again (collector.rs:222-268).
PullEnds ==
  \A c \in Consumers : pullPhase[c] = "pull" ~> pullPhase[c] \in {"transform", "idle"}

\* What a consumer is given was computed from the input of its own pull, and the
\* memo forgets what ended (graph/src/pull/collector.rs, runner.rs).
PullSound ==
  /\ PureMatchesInput
  /\ MemoOnlyLeaksUnfinished
=============================================================================
