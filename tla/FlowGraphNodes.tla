---------------------------- MODULE FlowGraphNodes ----------------------------
(***************************************************************************)
(* Pulling frames through a flowgraph.  Node 1 is a source that is given   *)
(* its frames, nodes 2 and 3 are of any kind and connected in any way, two *)
(* sinks, 4 and 5, read the same node.  A pull is the stack of the calls   *)
(* of pullData() that it is in.  A sample is <<frame, channel>> of the     *)
(* source, Constant the value of a port that is not connected.  One thread *)
(* does all this: the graph is not to be used from two at a time.          *)
(***************************************************************************)
EXTENDS Integers, Sequences, SequencesExt

CONSTANTS
  FgFrames,  \* frames of one buffer of the source
  FgPort,    \* kDefaultBufferSize
  FgReads,   \* frames asked from a sink in one call
  FgCalls,   \* calls of read()
  FgWraps    \* BOOLEAN: a ChannelCountConverter may have more outputs than inputs

ASSUME FlowGraphAssumption == /\ {FgFrames, FgPort, FgCalls} \subseteq Nat \ {0}
                              /\ FgReads \subseteq Nat \ {0} /\ FgWraps \in BOOLEAN

VARIABLES
  graph,            \* of each node: kind, inputs (0: not connected) and channels
  mLastCallCount, mLastFrameCount,
  sourced,          \* frames the source has read, of all its buffers
  refills,          \* calls of setData()
  port,             \* the buffer of each node's output
  calls,            \* the stack of pullData(): node, its next input, frames, count
  reader,           \* the sink in use
  fgAsked, fgShort, \* frames read() still lacks, and whether the last one fell short
  fgReads,          \* calls of read()
  received          \* frames the reader was given, each the sequence of its samples

fgConfig == <<graph, reader>>
nodeVars == <<mLastCallCount, mLastFrameCount, sourced, port>>
readVars == <<fgAsked, fgShort, received>>
fgVars == <<fgConfig, nodeVars, refills, calls, readVars, fgReads>>

GraphNode == 1..5
Middle == {2, 3}
Sink == {4, 5}
kInitialCallCount == -1
Constant == <<0, 0>>
Beyond == <<0, -1>>  \* read after the end of a buffer

Kind(kind, inputs, channels) == [kind |-> kind, inputs |-> inputs, channels |-> channels]

MiddleNodes ==
  {Kind("filter", <<x>>, c) : x \in 1..3, c \in 1..2}
    \cup {Kind("monoToMulti", <<x>>, 2) : x \in 1..3}
    \cup {Kind("multiToMono", <<x>>, 1) : x \in 1..3}
    \cup {Kind("manyToMulti", xy, 2) : xy \in (0..3) \X (0..3) \ {<<0, 0>>}}
    \cup {Kind("channelCount", <<x>>, c) : x \in 1..3, c \in 1..3}

\* Each port is connected to one of as many channels, see connect().
Connects(g, n) ==
  LET Channels(p) == IF g[n].inputs[p] = 0 THEN 1 ELSE g[g[n].inputs[p]].channels
  IN CASE g[n].kind = "filter" -> g[n].channels = Channels(1)
       [] g[n].kind \in {"monoToMulti", "manyToMulti"} ->
            \A p \in DOMAIN g[n].inputs : Channels(p) = 1
       [] g[n].kind = "channelCount" ->
            g[n].channels <= Channels(1) \/ (FgWraps /\ Channels(1) > 1)
       [] OTHER -> TRUE

\* The nodes ns and what is upstream of them.  No path is longer.
Pulled(g, ns) == ns \cup {x \in GraphNode : \E n \in ns : x \in Range(g[n].inputs)}
Upstream(g, ns) == Pulled(g, Pulled(g, Pulled(g, ns)))

Unused == Kind("filter", <<1>>, 1)
Joined(c, a, b, x) ==
  LET d == <<c, a.channels, b.channels>>[x]
  IN <<Kind("source", <<>>, c), a, b, Kind("sink", <<x>>, d), Kind("sink", <<x>>, d)>>

Chain == Joined(1, Unused, Unused, 1)

Graphs ==
  {g \in {Joined(c, a, b, x) : c \in 1..2, a \in MiddleNodes, b \in MiddleNodes, x \in 1..3} :
     \A n \in Middle : IF n \in Upstream(g, Sink) THEN Connects(g, n)
                                                  ELSE g[n] = [Unused EXCEPT !.channels = 1]}

\* Paths may join again, but none comes back.
Acyclic(g) == \A n \in Middle : n \notin Upstream(g, Range(g[n].inputs) \ {0})

FgInit ==
  /\ graph \in Graphs
  /\ mLastCallCount = [n \in GraphNode |-> kInitialCallCount]
  /\ mLastFrameCount = [n \in GraphNode |-> 0]
  /\ port = [n \in GraphNode |-> [i \in 1..FgPort * graph[n].channels |-> Constant]]
  /\ sourced = 0 /\ refills = 1 /\ calls = <<>> /\ reader = 4
  /\ fgAsked = 0 /\ fgShort = FALSE /\ fgReads = 0 /\ received = <<>>

-----------------------------------------------------------------------------
(* What the nodes do with their input *)

InputBuffer(n, p) == IF graph[n].inputs[p] = 0 THEN [i \in 1..FgPort |-> Constant]
                                         ELSE port[graph[n].inputs[p]]
InputChannels(n) == graph[graph[n].inputs[1]].channels
Element(buffer, i) == IF i \in DOMAIN buffer THEN buffer[i] ELSE Beyond

\* ChannelCountConverter::onProcess starts again when it is past the last input.
InputChannel(outputChannel, inputs) == outputChannel % (inputs + 1)

\* Sample c of frame i that a node of each kind makes; both are counted from 0.
Sourced(i, c) == <<sourced + i + 1, c + 1>>
Same(n, i, c) == InputBuffer(n, 1)[i * InputChannels(n) + c + 1]
MonoToMulti(n, i) == InputBuffer(n, 1)[i + 1]
MultiToMono(n, i) == InputBuffer(n, 1)[i * InputChannels(n) + 1]
ManyToMulti(n, i, c) == InputBuffer(n, c + 1)[i + 1]
ChannelCount(n, i, c) ==
  LET in == InputChannels(n)
  IN Element(InputBuffer(n, 1), i * in + InputChannel(c, in) + 1)

Processed(n, i, c) ==
  CASE graph[n].kind = "source" -> Sourced(i, c)
    [] graph[n].kind = "filter" -> Same(n, i, c)
    [] graph[n].kind = "monoToMulti" -> MonoToMulti(n, i)
    [] graph[n].kind = "multiToMono" -> MultiToMono(n, i)
    [] graph[n].kind = "manyToMulti" -> ManyToMulti(n, i, c)
    [] graph[n].kind = "channelCount" -> ChannelCount(n, i, c)

\* The buffer of n when it has processed k frames; the rest is of calls before.
Filled(n, k) ==
  [j \in DOMAIN port[n] |->
     IF j > k * graph[n].channels THEN port[n][j]
     ELSE Processed(n, (j - 1) \div graph[n].channels, (j - 1) % graph[n].channels)]

-----------------------------------------------------------------------------
(* FlowGraphNode::pullData, and the loop of read() around it *)

Min2(a, b) == IF a < b THEN a ELSE b

MustRunAgain(n, count) == count >= mLastCallCount[n]

\* A node runs once for each callCount, and not again inside itself.
MustRun(n, count) == count > mLastCallCount[n]

Enter(n, frames, count) ==
  /\ mLastCallCount' = [mLastCallCount EXCEPT ![n] = count]
  /\ calls' = Append(calls, [node |-> n, next |-> 1, frames |-> frames, count |-> count])

\* The callers at the top of stack s, whose call has returned k frames
Resumed(s, k) == Append(Front(s), [Last(s) EXCEPT !.next = @ + 1, !.frames = k])

FgRead(n) ==
  /\ calls = <<>> /\ fgAsked = 0 /\ fgReads < FgCalls
  /\ fgAsked' = n /\ fgShort' = FALSE /\ fgReads' = fgReads + 1
  /\ UNCHANGED <<fgConfig, nodeVars, refills, calls, received>>

\* FlowGraphSink::pullData
SinkPulls ==
  /\ calls = <<>> /\ fgAsked > 0
  /\ Enter(reader, fgAsked, mLastCallCount[reader] + 1)
  /\ UNCHANGED <<fgConfig, mLastFrameCount, sourced, port, refills, readVars, fgReads>>

\* One of the input ports is pulled: its connected node runs, or has run.
PullInput ==
  /\ calls # <<>>
  /\ LET top == Last(calls)
         inputs == graph[top.node].inputs
         k == Min2(FgPort, top.frames)
     IN /\ top.next <= Len(inputs)
        /\ LET x == inputs[top.next]
           IN IF x # 0 /\ MustRun(x, top.count)
              THEN Enter(x, k, top.count)
              ELSE /\ calls' = Resumed(calls, IF x = 0 THEN k ELSE mLastFrameCount[x])
                   /\ UNCHANGED mLastCallCount
  /\ UNCHANGED <<fgConfig, mLastFrameCount, sourced, port, refills, readVars, fgReads>>

Cut(buffer, k, channels) ==
  [i \in 1..k |-> SubSeq(buffer, (i - 1) * channels + 1, i * channels)]

\* What the source gives: all that is left, if it is asked for more.
Left(frames) == Min2(frames, refills * FgFrames - sourced)

\* onProcess(), and the return.  The sink copies what it got, and goes on or not.
Process ==
  /\ calls # <<>>
  /\ LET top == Last(calls)
         n == top.node
         k == IF n = 1 THEN Left(top.frames) ELSE top.frames
     IN /\ top.next > Len(graph[n].inputs)
        /\ mLastFrameCount' = [mLastFrameCount EXCEPT ![n] = k]
        /\ sourced' = IF n = 1 THEN sourced + k ELSE sourced
        /\ IF n \in Sink
           THEN /\ calls' = <<>>
                /\ fgAsked' = IF k = 0 THEN 0 ELSE fgAsked - k
                /\ fgShort' = (k = 0)
                /\ received' = received \o Cut(InputBuffer(n, 1), k, graph[n].channels)
                /\ UNCHANGED port
           ELSE /\ port' = [port EXCEPT ![n] = Filled(n, k)]
                /\ calls' = Resumed(Front(calls), k)
                /\ UNCHANGED readVars
  /\ UNCHANGED <<fgConfig, mLastCallCount, refills, fgReads>>

\* setData(), when the last buffer was read to its end.
SetData == /\ calls = <<>> /\ fgAsked = 0 /\ sourced = refills * FgFrames /\ fgReads < FgCalls
           /\ refills' = refills + 1 /\ fgShort' = FALSE
           /\ UNCHANGED <<fgConfig, nodeVars, calls, fgAsked, received, fgReads>>

\* pullReset() of both sinks, by which the other one may be read.  It gets to
\* every node once: mBlockRecursion ends it where it comes back.
ResetOf(ns) == /\ mLastCallCount' = [n \in GraphNode |-> IF n \in ns THEN kInitialCallCount
                                                    ELSE mLastCallCount[n]]
               /\ mLastFrameCount' = [n \in GraphNode |-> IF n \in ns THEN 0
                                                     ELSE mLastFrameCount[n]]
ResetSinks == ResetOf(Sink)
PullReset == ResetOf(Upstream(graph, Sink))

ChangeSink == /\ calls = <<>> /\ fgAsked = 0 /\ 0 < fgReads /\ fgReads < FgCalls
              /\ reader' \in Sink \ {reader} /\ PullReset
              /\ UNCHANGED <<graph, sourced, port, refills, calls, readVars, fgReads>>

FgNext == (\E n \in FgReads : FgRead(n)) \/ SinkPulls \/ PullInput \/ Process
            \/ SetData \/ ChangeSink

FgSpec == FgInit /\ [][FgNext]_fgVars

-----------------------------------------------------------------------------
\* What channel c of the frames from node x is: the channel of the source, as
\* each converter's header describes it.  No path is longer than two nodes.
Meant(x, c, Before(_, _)) ==
  LET in(p) == IF graph[x].inputs[p] = 0 THEN 0 ELSE graph[x].inputs[p]
      before(p, d) == IF in(p) = 0 THEN 0 ELSE Before(in(p), d)
  IN CASE x = 1 -> c
       [] graph[x].kind = "filter" -> before(1, c)
       [] graph[x].kind \in {"monoToMulti", "multiToMono"} -> before(1, 1)
       [] graph[x].kind = "manyToMulti" -> before(c, 1)
       [] graph[x].kind = "channelCount" -> before(1, ((c - 1) % InputChannels(x)) + 1)

SourceChannel(x, c) ==
  LET one(y, d) == IF y = 1 THEN d ELSE 0
      two(y, d) == Meant(y, d, one)
      three(y, d) == Meant(y, d, two)
  IN three(x, c)

Source(k, c) == LET d == SourceChannel(graph[reader].inputs[1], c)
                IN IF d = 0 THEN Constant ELSE <<k, d>>

\* However the nodes between are connected, a sink reads all the frames of the
\* source, in order and each in one piece with the channels the converters are
\* said to make, in reads of any length, over buffers of the source and after
\* the reader has changed (FlowGraphNode.cpp:25: a node that joins two paths to
\* the source must find the frames of this call on both).  A read falls short
\* only where the source has no more.
FramesPulled ==
  Acyclic(graph) =>
    /\ \A k \in DOMAIN received :
         received[k] = [c \in 1..graph[reader].channels |-> Source(k, c)]
    /\ fgShort => sourced = refills * FgFrames
    /\ calls = <<>> => Len(received) = sourced

\* A pull ends, also where the graph comes back to itself: no node waits for
\* its own result.  Such a graph gives no frame.
PullEnds == /\ \A i, j \in DOMAIN calls : calls[i].node = calls[j].node => i = j
            /\ received # <<>> => Acyclic(graph)

\* What a ChannelCountConverter gives is from the frame it was given.
WrapsInFrame == \A k \in DOMAIN received : \A c \in DOMAIN received[k] :
                  received[k][c] \in {<<k, d>> : d \in 1..2} \cup {Constant}
=============================================================================
