------------------------ MODULE DataConversionProofs ------------------------
(***************************************************************************)
(* For all rates, blocks, bursts, sizes of the ports and lengths of the    *)
(* calls: a filter stream loses no frame, changes no order and keeps the   *)
(* ratio of the rates, and hears a Stop.                                   *)
(***************************************************************************)
EXTENDS DataConversion, SequenceTheorems, TLAPS
-----------------------------------------------------------------------------
(* Frames that follow each other. *)

LEMMA FollowingType ==
  ASSUME NEW n \in Int, NEW k \in Nat
  PROVE  /\ Following(n, k) \in Seq(Int) /\ Len(Following(n, k)) = k
         /\ \A i \in 1..k : Following(n, k)[i] = n + i
BY DEF Following

LEMMA FollowingEmpty ==
  ASSUME NEW n \in Int, NEW k \in Nat
  PROVE  Following(n, k) = <<>> <=> k = 0
<1>1. Following(n, k) \in Seq(Int) /\ Len(Following(n, k)) = k BY FollowingType
<1> QED BY <1>1

LEMMA SameFrames ==
  ASSUME NEW s \in Seq(Int), NEW t \in Seq(Int), Len(s) = Len(t),
         \A i \in 1..Len(s) : s[i] = t[i]
  PROVE  s = t
OBVIOUS

LEMMA FollowingTake ==
  ASSUME NEW n \in Int, NEW k \in Nat, NEW m \in 0..k
  PROVE  /\ Take(Following(n, k), m) = Following(n, m)
         /\ Drop(Following(n, k), m) = Following(n + m, k - m)
<1> DEFINE s == Following(n, k)
<1>1. s \in Seq(Int) /\ Len(s) = k /\ \A i \in 1..k : s[i] = n + i BY FollowingType
<1> HIDE DEF s
<1>2. Take(s, m) = Following(n, m)
  <2> DEFINE t == Following(n, m)
             u == SubSeq(s, 1, m)
  <2>1. t \in Seq(Int) /\ Len(t) = m /\ \A i \in 1..m : t[i] = n + i BY FollowingType
  <2>2. u \in Seq(Int) /\ Len(u) = m /\ \A i \in 1..m : u[i] = n + i BY <1>1
  <2> HIDE DEF t, u
  <2>3. u = t BY <2>1, <2>2, SameFrames
  <2> QED BY <2>3 DEF Take, t, u
<1>3. Drop(s, m) = Following(n + m, k - m)
  <2> DEFINE t == Following(n + m, k - m)
             u == SubSeq(s, m + 1, k)
  <2>1. n + m \in Int /\ k - m \in Nat OBVIOUS
  <2>2. t \in Seq(Int) /\ Len(t) = k - m /\ \A i \in 1..(k - m) : t[i] = n + m + i
    BY <2>1, FollowingType
  <2>3. u \in Seq(Int) /\ Len(u) = k - m /\ \A i \in 1..(k - m) : u[i] = n + m + i
    BY <1>1, <2>1
  <2> HIDE DEF t, u
  <2>4. u = t BY <2>1, <2>2, <2>3, SameFrames
  <2> QED BY <1>1, <2>4 DEF Drop, t, u
<1> QED BY <1>2, <1>3 DEF s

LEMMA FollowingJoin ==
  ASSUME NEW n \in Int, NEW a \in Nat, NEW b \in Nat
  PROVE  Following(n, a) \o Following(n + a, b) = Following(n, a + b)
<1> DEFINE s == Following(n, a)
           t == Following(n + a, b)
           u == Following(n, a + b)
<1>1. s \in Seq(Int) /\ Len(s) = a /\ \A i \in 1..a : s[i] = n + i BY FollowingType
<1>2. t \in Seq(Int) /\ Len(t) = b /\ \A i \in 1..b : t[i] = n + a + i BY FollowingType
<1>3. u \in Seq(Int) /\ Len(u) = a + b /\ \A i \in 1..(a + b) : u[i] = n + i
  BY FollowingType
<1> HIDE DEF s, t, u
<1>4. s \o t \in Seq(Int) /\ Len(s \o t) = a + b BY <1>1, <1>2, ConcatProperties
<1>5. ASSUME NEW i \in 1..(a + b) PROVE (s \o t)[i] = u[i]
  <2>1. CASE i <= a BY <1>1, <1>2, <1>3, <2>1
  <2>2. CASE ~(i <= a)
    <3>1. i \in Nat /\ i - a \in 1..b BY <2>2
    <3>2. (s \o t)[i] = t[i - a] BY <1>1, <1>2, <2>2, ConcatProperties
    <3> QED BY <1>2, <1>3, <3>1, <3>2
  <2> QED BY <2>1, <2>2
<1>6. s \o t = u BY <1>3, <1>4, <1>5, SameFrames
<1> QED BY <1>6 DEF s, t, u

LEMMA FollowingEnds ==
  ASSUME NEW n \in Int, NEW k \in Nat \ {0}
  PROVE  /\ Head(Following(n, k)) = n + 1
         /\ Tail(Following(n, k)) = Following(n + 1, k - 1)
         /\ Last(Following(n, k)) = n + k
<1> DEFINE s == Following(n, k)
           t == Following(n + 1, k - 1)
<1>1. s \in Seq(Int) /\ Len(s) = k /\ \A i \in 1..k : s[i] = n + i BY FollowingType
<1>2. n + 1 \in Int /\ k - 1 \in Nat OBVIOUS
<1>3. t \in Seq(Int) /\ Len(t) = k - 1 /\ \A i \in 1..(k - 1) : t[i] = n + 1 + i
  BY <1>2, FollowingType
<1> HIDE DEF s, t
<1>4. Tail(s) \in Seq(Int) /\ Len(Tail(s)) = k - 1 /\ \A i \in 1..(k - 1) : Tail(s)[i] = s[i + 1]
  BY <1>1
<1>5. Tail(s) = t
  <2>1. Len(Tail(s)) = Len(t) BY <1>3, <1>4
  <2>2. ASSUME NEW i \in 1..Len(Tail(s)) PROVE Tail(s)[i] = t[i]
    <3>1. i \in 1..(k - 1) /\ i + 1 \in 1..k BY <1>4
    <3> QED BY <1>1, <1>3, <1>4, <3>1
  <2> QED BY <1>3, <1>4, <2>1, <2>2, SameFrames
<1>6. Head(s) = n + 1 /\ Last(s) = n + k BY <1>1 DEF Last
<1> QED BY <1>5, <1>6 DEF s, t

LEMMA FollowingAppend ==
  ASSUME NEW n \in Int, NEW k \in Nat
  PROVE  Append(Following(n, k), n + k + 1) = Following(n, k + 1)
<1> DEFINE s == Following(n, k)
           t == Following(n, k + 1)
<1>1. s \in Seq(Int) /\ Len(s) = k /\ \A i \in 1..k : s[i] = n + i BY FollowingType
<1>2. t \in Seq(Int) /\ Len(t) = k + 1 /\ \A i \in 1..(k + 1) : t[i] = n + i
  BY FollowingType
<1> HIDE DEF s, t
<1>3. /\ Append(s, n + k + 1) \in Seq(Int) /\ Len(Append(s, n + k + 1)) = k + 1
      /\ \A i \in 1..(k + 1) : Append(s, n + k + 1)[i] = n + i
  BY <1>1
<1>4. Append(s, n + k + 1) = t BY <1>2, <1>3, SameFrames
<1> QED BY <1>4 DEF s, t

LEMMA MinOfTwo ==
  ASSUME NEW a \in Int, NEW b \in Int
  PROVE  /\ Min({a, b}) \in Int /\ Min({a, b}) <= a /\ Min({a, b}) <= b
         /\ (Min({a, b}) = a \/ Min({a, b}) = b)
<1>1. \E x \in {a, b} : \A y \in {a, b} : x <= y
  <2>1. CASE a <= b BY <2>1
  <2>2. CASE b <= a BY <2>2
  <2> QED BY <2>1, <2>2
<1> QED BY <1>1 DEF Min
-----------------------------------------------------------------------------
\* The frames of s follow frame n, without a gap.
Run(s, n) == s \in Seq(Int) /\ s = Following(n, Len(s))

LEMMA RunLength ==
  ASSUME NEW n \in Int, NEW s, Run(s, n)
  PROVE  s \in Seq(Int) /\ Len(s) \in Nat /\ (s = <<>> <=> Len(s) = 0)
BY DEF Run

LEMMA RunNone ==
  ASSUME NEW n \in Int
  PROVE  Run(<<>>, n) /\ Len(<<>>) = 0
BY FollowingEmpty DEF Run

LEMMA RunFollowing ==
  ASSUME NEW n \in Int, NEW k \in Nat
  PROVE  Run(Following(n, k), n) /\ Len(Following(n, k)) = k
BY FollowingType DEF Run

LEMMA RunCut ==
  ASSUME NEW n \in Int, NEW s, Run(s, n), NEW m \in 0..Len(s)
  PROVE  /\ Run(Take(s, m), n) /\ Len(Take(s, m)) = m
         /\ Run(Drop(s, m), n + m) /\ Len(Drop(s, m)) = Len(s) - m
<1>1. Len(s) \in Nat /\ s = Following(n, Len(s)) BY DEF Run
<1>2. Take(s, m) = Following(n, m) /\ Drop(s, m) = Following(n + m, Len(s) - m)
  BY <1>1, FollowingTake
<1>3. m \in Nat /\ Len(s) - m \in Nat /\ n + m \in Int BY <1>1
<1> QED BY <1>2, <1>3, RunFollowing

LEMMA RunJoin ==
  ASSUME NEW n \in Int, NEW s, Run(s, n), NEW t, Run(t, n + Len(s))
  PROVE  Run(s \o t, n) /\ Len(s \o t) = Len(s) + Len(t)
<1>1. /\ Len(s) \in Nat /\ s = Following(n, Len(s))
      /\ Len(t) \in Nat /\ t = Following(n + Len(s), Len(t)) BY DEF Run
<1>2. s \o t = Following(n, Len(s) + Len(t)) BY <1>1, FollowingJoin
<1> QED BY <1>1, <1>2, RunFollowing

LEMMA RunEnds ==
  ASSUME NEW n \in Int, NEW s, Run(s, n), s # <<>>
  PROVE  /\ Len(s) > 0 /\ Head(s) = n + 1 /\ Last(s) = n + Len(s)
         /\ Run(Tail(s), n + 1) /\ Len(Tail(s)) = Len(s) - 1
<1>1. Len(s) \in Nat \ {0} /\ s = Following(n, Len(s)) BY DEF Run
<1>2. /\ Head(s) = n + 1 /\ Last(s) = n + Len(s)
      /\ Tail(s) = Following(n + 1, Len(s) - 1)
  BY <1>1, FollowingEnds
<1>3. n + 1 \in Int /\ Len(s) - 1 \in Nat /\ Len(s) > 0 BY <1>1
<1>4. Run(Tail(s), n + 1) /\ Len(Tail(s)) = Len(s) - 1 BY ONLY <1>2, <1>3, RunFollowing, Zenon
<1> QED BY <1>2, <1>3, <1>4

LEMMA RunAppend ==
  ASSUME NEW n \in Int, NEW s, Run(s, n)
  PROVE  Run(Append(s, n + Len(s) + 1), n) /\ Len(Append(s, n + Len(s) + 1)) = Len(s) + 1
<1>1. Len(s) \in Nat /\ s = Following(n, Len(s)) BY DEF Run
<1>2. Append(s, n + Len(s) + 1) = Following(n, Len(s) + 1) BY <1>1, FollowingAppend
<1>3. Len(s) + 1 \in Nat BY <1>1
<1> QED BY ONLY <1>2, <1>3, n \in Int, RunFollowing, Zenon
-----------------------------------------------------------------------------
(* What holds in every state *)

\* The frames that entered and are not in the resampler's port yet, and those that
\* left and are not with the application or the child.
Waiting == Len(pulled) + Len(storage) + Len(data)
Leaving == Len(written) + Len(chunk)

Typed ==
  /\ path \in Paths /\ rate \in Rates /\ block \in Blocks /\ ratio = Reduced(rate)
  /\ pc \in {"idle", "sink", "convert", "source", "pulled", "deliver", "blocks"}
  /\ asked \in Int /\ want \in Int /\ got \in Int /\ need \in Int
  /\ entered \in Int /\ used \in Int /\ made \in Int /\ sent \in Int

\* Where frames can be.
Places ==
  /\ pc = "convert" => Resampling
  /\ pc = "blocks" => path = "inputCallback" /\ written = <<>>
  /\ Pulls => data = <<>>
  /\ ~Pulls => storage = <<>>
  /\ pc \notin {"source", "pulled"} => pulled = <<>>
  /\ pc \in {"source", "pulled"} => entering = <<>>
  /\ pc = "source" /\ ~Pulls => pulled = <<>>
  /\ ~Resampling => entering = <<>>
  /\ path # "inputCallback" => written = <<>>
  /\ path = "inputCallback" => ~failed
  /\ pc = "idle" => chunk = <<>>
  /\ Len(written) <= block

\* The frames upstream follow each other up to the last that entered.
Sources ==
  /\ Run(data, entered - Len(data))
  /\ Run(storage, entered - Len(data) - Len(storage))
  /\ Run(pulled, entered - Waiting)

Port == \E n \in Int : /\ Run(entering, n) /\ used <= n
                       /\ n + Len(entering) <= entered - Waiting
                       /\ ~failed => used = n /\ n + Len(entering) = entered - Waiting

\* The frames downstream follow each other up to the last that was made.
Outlet ==
  /\ Run(chunk, made - Len(chunk))
  /\ Run(written, made - Leaving)
  /\ sent <= made - Leaving
  /\ ~failed => sent = made - Leaving

\* What the sink lacks and what it has got.
Counts ==
  /\ pc \in {"convert", "source", "pulled"} => asked > 0
  /\ Resampling /\ pc \in {"convert", "source", "pulled"} =>
       want >= 0 /\ got >= 0 /\ want + got <= asked
  /\ Resampling /\ pc \in {"source", "pulled"} => want > 0 /\ IsWriteNeeded
  /\ pc = "source" => need > 0 \/ pulled # <<>>
  /\ pc = "source" /\ ~Pulls => need > 0

\* An empty read of the sink ends a push: there is nothing left to be read.
Emptied ==
  ~Pulls =>
    /\ pc \in {"sink", "convert", "source", "pulled"} =>
         Len(chunk) + asked =
           PerRead + IF Resampling /\ pc # "sink" THEN got ELSE 0
    /\ pc = "pulled" /\ pulled = <<>> => data = <<>>
    /\ pc = "deliver" /\ chunk = <<>> => data = <<>> /\ entering = <<>>
    /\ pc = "idle" /\ ~failed => data = <<>> /\ entering = <<>>

\* The phase is what the frames that left the resampler are ahead.
Phase ==
  ~failed => IF Resampling
             THEN /\ mIntegerPhase = ratio[2] + ratio[1] * made - ratio[2] * used
                  /\ 0 <= mIntegerPhase /\ mIntegerPhase < ratio[1] + ratio[2]
             ELSE used = made

\* A Stop of the application leaves nothing that the sink could read.
Heard ==
  /\ stopped => pc = "idle"
  /\ pc = "idle" => (answer = "Stop" => stopped)
  /\ path = "outputCallback" =>
       /\ mCallbackResult = "Continue"
       /\ stopped => answer = "Stop"
       /\ answer = "Stop" /\ ~stopped =>
            /\ storage = <<>> /\ pulled = <<>>
            /\ asked > 0
            /\ Resampling => entering = <<>> /\ IsWriteNeeded
            /\ pc = "convert" => want > 0
            /\ pc = "source" => need > 0
       /\ pc = "pulled" /\ pulled = <<>> => answer = "Stop"
       /\ pc = "deliver" /\ asked > 0 => answer = "Stop"
  /\ path = "inputCallback" => (answer = "Stop" => mCallbackResult = "Stop")
  /\ path \in {"outputWrite", "inputRead"} => answer # "Stop"

DcInv == /\ Typed /\ Places /\ Sources /\ Port /\ Outlet /\ Counts /\ Emptied /\ Heard
         /\ (KeepsRatio => Phase)
-----------------------------------------------------------------------------
(* A stream that is opened *)

LEMMA Sizes ==
  /\ BufferSize \in Int /\ BufferSize > 0 /\ ChildBurst \in Int /\ ChildBurst > 0
  /\ PerRead \in Int /\ PerRead > 0
  /\ \A b \in Blocks : b \in Int /\ b > 0
  /\ \A r \in Rates : r[1] \in Int /\ r[2] \in Int /\ r[1] > 0 /\ r[2] > 0
<1>1. /\ BufferSize \in Int /\ BufferSize > 0 /\ ChildBurst \in Int /\ ChildBurst > 0
      /\ \A b \in Blocks : b \in Int /\ b > 0
  BY BlockAssumption
<1>2. \A r \in Rates : r[1] \in Int /\ r[2] \in Int /\ r[1] > 0 /\ r[2] > 0
  BY RatesAssumption
<1> QED BY <1>1, <1>2 DEF PerRead

LEMMA Opened == ASSUME DcInit PROVE DcInv
<1>1. /\ path \in Paths /\ rate \in Rates /\ block \in Blocks /\ ratio = Reduced(rate)
      /\ block \in Int /\ block > 0
  BY Sizes DEF DcInit
<1>2. /\ pulled = <<>> /\ storage = <<>> /\ data = <<>> /\ entering = <<>>
      /\ chunk = <<>> /\ written = <<>>
      /\ entered = 0 /\ used = 0 /\ made = 0 /\ sent = 0
      /\ Run(<<>>, 0) /\ Len(<<>>) = 0
  BY RunNone DEF DcInit
<1>3. /\ Waiting = 0 /\ Leaving = 0 BY <1>2 DEF Waiting, Leaving
<1>4. Typed BY <1>1 DEF DcInit, Typed
<1>5. Places BY <1>1, <1>2 DEF DcInit, Places
<1>6. Counts /\ Emptied BY DEF DcInit, Counts, Emptied
<1>7. Sources /\ Outlet BY <1>2, <1>3 DEF Sources, Outlet
<1>8. Port
  <2>1. Run(entering, 0) /\ used <= 0 /\ 0 + Len(entering) = entered - Waiting /\ used = 0
    BY <1>2, <1>3
  <2> QED BY <2>1 DEF Port
<1>9. KeepsRatio => Phase
  <2>1. KeepsRatio => ratio[1] \in Nat \ {0} /\ ratio[2] \in Nat \ {0}
    BY <1>1 DEF KeepsRatio, Keeps
  <2> QED BY <2>1 DEF DcInit, Phase
<1>10. Heard BY PathAssumption DEF DcInit, Heard
<1> QED BY <1>4, <1>5, <1>6, <1>7, <1>8, <1>9, <1>10 DEF DcInv

\* Frames that wait.
Lengths ==
  /\ Len(data) \in Nat /\ (data = <<>> <=> Len(data) = 0)
  /\ Len(storage) \in Nat /\ (storage = <<>> <=> Len(storage) = 0)
  /\ Len(pulled) \in Nat /\ (pulled = <<>> <=> Len(pulled) = 0)
  /\ Len(entering) \in Nat /\ (entering = <<>> <=> Len(entering) = 0)
  /\ Len(chunk) \in Nat /\ (chunk = <<>> <=> Len(chunk) = 0)
  /\ Len(written) \in Nat /\ (written = <<>> <=> Len(written) = 0)

LEMMA InvLengths == ASSUME DcInv PROVE Lengths
<1>1. Typed /\ Sources /\ Port /\ Outlet BY DEF DcInv
<1>2. Len(data) \in Nat /\ Len(storage) \in Nat /\ Len(pulled) \in Nat
      /\ Len(entering) \in Nat /\ Len(chunk) \in Nat /\ Len(written) \in Nat
  BY <1>1 DEF Sources, Port, Outlet, Run
<1>3. /\ entered - Len(data) \in Int /\ entered - Len(data) - Len(storage) \in Int
      /\ entered - Waiting \in Int /\ made - Len(chunk) \in Int /\ made - Leaving \in Int
  BY <1>1, <1>2 DEF Typed, Waiting, Leaving
<1>4. /\ data = <<>> <=> Len(data) = 0
      /\ storage = <<>> <=> Len(storage) = 0
      /\ pulled = <<>> <=> Len(pulled) = 0
  BY <1>1, <1>3, RunLength DEF Sources
<1>5. /\ chunk = <<>> <=> Len(chunk) = 0
      /\ written = <<>> <=> Len(written) = 0
  BY <1>1, <1>3, RunLength DEF Outlet
<1>6. entering = <<>> <=> Len(entering) = 0
  <2>1. PICK n \in Int : Run(entering, n) BY <1>1 DEF Port
  <2> QED BY <2>1, RunLength
<1> QED BY <1>2, <1>4, <1>5, <1>6 DEF Lengths
-----------------------------------------------------------------------------
(* The calls, and what moves no frame *)

LEMMA RestartStep ==
  ASSUME DcInv, Restart
  PROVE  DcInv'
<1>1. /\ Typed /\ Places /\ Sources /\ Port /\ Outlet /\ Counts /\ Emptied /\ Heard
      /\ (KeepsRatio => Phase)
  BY DEF DcInv
<1>3. Typed'
  BY <1>1 DEF Restart, Typed, config, sinkVars, upstream, converted, downstream
<1>4. Places'
  BY <1>1 DEF Restart, Places, Pulls, Resampling, config, upstream, downstream
<1>5. Sources'
  BY <1>1 DEF Restart, Sources, Waiting, upstream
<1>6. Port'
  BY <1>1 DEF Restart, Port, Waiting, upstream, converted
<1>7. Outlet'
  BY <1>1 DEF Restart, Outlet, Leaving, converted, downstream
<1>8. Counts'
  BY <1>1 DEF Restart, Counts, IsWriteNeeded, Pulls, Resampling, config, sinkVars, converted
<1>9. Emptied'
  BY <1>1 DEF Restart, Emptied, Pulls, PerRead, Resampling, config, sinkVars, upstream,
     downstream
<1>10. Heard'
  BY <1>1 DEF Restart, Heard, config
<1>11. KeepsRatio => Phase'
  BY <1>1 DEF Restart, Phase, Resampling, config, converted
<1> QED BY <1>3, <1>4, <1>5, <1>6, <1>7, <1>8, <1>9, <1>10, <1>11 DEF DcInv

LEMMA SinkFullStep ==
  ASSUME DcInv, SinkFull
  PROVE  DcInv'
<1>1. /\ Typed /\ Places /\ Sources /\ Port /\ Outlet /\ Counts /\ Emptied /\ Heard
      /\ (KeepsRatio => Phase)
  BY DEF DcInv
<1>3. Typed'
  BY <1>1 DEF SinkFull, Typed, config, sinkVars, upstream, converted, downstream
<1>4. Places'
  BY <1>1 DEF SinkFull, Places, Pulls, Resampling, config, upstream, downstream, status
<1>5. Sources'
  BY <1>1 DEF SinkFull, Sources, Waiting, upstream
<1>6. Port'
  BY <1>1 DEF SinkFull, Port, Waiting, upstream, converted, status
<1>7. Outlet'
  BY <1>1 DEF SinkFull, Outlet, Leaving, converted, downstream, status
<1>8. Counts'
  BY DEF SinkFull, Counts
<1>9. Emptied'
  BY <1>1, Sizes DEF SinkFull, Emptied, Pulls, config, downstream
<1>10. Heard'
  BY <1>1 DEF SinkFull, Heard, config, sinkVars, status
<1>11. KeepsRatio => Phase'
  BY <1>1 DEF SinkFull, Phase, Resampling, config, converted, status
<1> QED BY <1>3, <1>4, <1>5, <1>6, <1>7, <1>8, <1>9, <1>10, <1>11 DEF DcInv

LEMMA ConvertEndStep ==
  ASSUME DcInv, ConvertEnd
  PROVE  DcInv'
<1>1. /\ Typed /\ Places /\ Sources /\ Port /\ Outlet /\ Counts /\ Emptied /\ Heard
      /\ (KeepsRatio => Phase)
  BY DEF DcInv
<1>3. Typed'
  BY <1>1 DEF ConvertEnd, Typed, config, upstream, converted, downstream
<1>4. Places'
  BY <1>1 DEF ConvertEnd, Places, Pulls, Resampling, config, upstream, downstream, status
<1>5. Sources'
  BY <1>1 DEF ConvertEnd, Sources, Waiting, upstream
<1>6. Port'
  BY <1>1 DEF ConvertEnd, Port, Waiting, upstream, converted, status
<1>7. Outlet'
  BY <1>1 DEF ConvertEnd, Outlet, Leaving, converted, downstream, status
<1>8. Counts'
  BY DEF ConvertEnd, Counts
<1>9. Emptied'
  BY <1>1, Sizes DEF ConvertEnd, Emptied, Places, Typed, Pulls, PerRead, config, downstream
<1>10. Heard'
  BY <1>1 DEF ConvertEnd, Heard, config, status
<1>11. KeepsRatio => Phase'
  BY <1>1 DEF ConvertEnd, Phase, Resampling, config, converted, status
<1> QED BY <1>3, <1>4, <1>5, <1>6, <1>7, <1>8, <1>9, <1>10, <1>11 DEF DcInv

LEMMA ReadCompleteStep ==
  ASSUME DcInv, ReadComplete
  PROVE  DcInv'
<1>1. /\ Typed /\ Places /\ Sources /\ Port /\ Outlet /\ Counts /\ Emptied /\ Heard
      /\ (KeepsRatio => Phase)
  BY DEF DcInv
<1>3. Typed'
  BY <1>1 DEF ReadComplete, Typed, config, sinkVars, upstream, converted, downstream
<1>4. Places'
  BY <1>1 DEF ReadComplete, Places, Pulls, config, upstream, downstream
<1>5. Sources'
  BY <1>1 DEF ReadComplete, Sources, Waiting, upstream
<1>6. Port'
  BY <1>1 DEF ReadComplete, Port, Waiting, upstream, converted, status
<1>7. Outlet'
  BY <1>1 DEF ReadComplete, Outlet, Leaving, converted, downstream, status
<1>8. Counts'
  BY <1>1 DEF ReadComplete, Counts, IsWriteNeeded, Resampling, config, sinkVars, converted
<1>9. Emptied'
  BY DEF ReadComplete, Emptied, Pulls, config
<1>10. Heard'
  BY <1>1 DEF ReadComplete, Heard, Counts, config, status
<1>11. KeepsRatio => Phase'
  BY <1>1 DEF ReadComplete, Phase, Resampling, config, converted, status
<1> QED BY <1>3, <1>4, <1>5, <1>6, <1>7, <1>8, <1>9, <1>10, <1>11 DEF DcInv

LEMMA EndPushStep ==
  ASSUME DcInv, EndPush
  PROVE  DcInv'
<1>1. /\ Typed /\ Places /\ Sources /\ Port /\ Outlet /\ Counts /\ Emptied /\ Heard
      /\ (KeepsRatio => Phase)
  BY DEF DcInv
<1>3. Typed'
  BY <1>1 DEF EndPush, Typed, config, upstream, converted, downstream
<1>4. Places'
  BY <1>1 DEF EndPush, Places, Pulls, Resampling, config, upstream, downstream
<1>5. Sources'
  BY <1>1 DEF EndPush, Sources, Waiting, upstream
<1>6. Port'
  BY <1>1 DEF EndPush, Port, Waiting, upstream, converted
<1>7. Outlet'
  BY <1>1 DEF EndPush, Outlet, Leaving, converted, downstream
<1>8. Counts'
  BY DEF EndPush, Counts
<1>9. Emptied'
  BY <1>1 DEF EndPush, Emptied, upstream
<1>10. Heard'
  BY <1>1, PathAssumption DEF EndPush, Heard, Typed, Pulls, config
<1>11. KeepsRatio => Phase'
  BY <1>1 DEF EndPush, Phase, Resampling, config, converted
<1> QED BY <1>3, <1>4, <1>5, <1>6, <1>7, <1>8, <1>9, <1>10, <1>11 DEF DcInv

LEMMA SinkPullStep ==
  ASSUME DcInv, SinkPull
  PROVE  DcInv'
<1>1. /\ Typed /\ Places /\ Sources /\ Port /\ Outlet /\ Counts /\ Emptied /\ Heard
      /\ (KeepsRatio => Phase)
  BY DEF DcInv
<1>3. /\ want' \in Int /\ want' <= asked /\ want' <= BufferSize
      /\ (want' = asked \/ want' = BufferSize)
  BY <1>1, Sizes, MinOfTwo DEF SinkPull, Typed
<1>4. pulled' = pulled /\ pulled = <<>> BY <1>1 DEF SinkPull, Places
<1>5. need' \in Int BY <1>1, <1>3 DEF SinkPull, Typed
<1>6. asked > 0 /\ want' > 0 BY <1>1, <1>3, Sizes DEF SinkPull, Typed
<1>7. /\ pc = "sink" /\ pc' \in {"convert", "source"} /\ got' = 0
      /\ Resampling' = Resampling /\ Pulls' = Pulls /\ path' = path
      /\ pc' = "convert" => Resampling
      /\ pc' = "source" => ~Resampling /\ need' = want'
      /\ asked' = asked /\ storage' = storage /\ entering' = entering /\ chunk' = chunk
      /\ IsWriteNeeded' = IsWriteNeeded /\ UNCHANGED <<answer, mCallbackResult, stopped>>
  BY DEF SinkPull, config, upstream, converted, downstream, status, IsWriteNeeded, Pulls,
         Resampling
<1>8. Typed'
  BY <1>1, <1>3 DEF SinkPull, Typed, config, upstream, converted, downstream
<1>9. Places'
  BY <1>1 DEF SinkPull, Places, Pulls, Resampling, config, upstream, downstream, status
<1>10. Sources'
  BY <1>1, <1>4 DEF SinkPull, Sources, Waiting, upstream
<1>11. Port'
  BY <1>1, <1>4 DEF SinkPull, Port, Waiting, upstream, converted, status
<1>12. Outlet'
  BY <1>1 DEF SinkPull, Outlet, Leaving, converted, downstream, status
<1>13. Counts'
  <2>1. asked' > 0 /\ want' > 0 /\ want' >= 0 /\ got' >= 0 BY <1>3, <1>6, <1>7
  <2>2. want' + got' <= asked'
    <3>1. \A w, a \in Int : w <= a => w + 0 <= a OBVIOUS
    <3>2. asked \in Int BY <1>1 DEF Typed
    <3> QED BY <1>3, <1>7, <3>1, <3>2, Zenon
  <2>3. CASE Resampling
    <3>1. pc' = "convert" BY <1>7, <2>3
    <3> QED BY <1>7, <2>1, <2>2, <3>1 DEF Counts
  <2>4. CASE ~Resampling
    <3>1. pc' = "source" /\ need' = want' /\ ~Resampling' BY <1>7, <2>4, Zenon
    <3> QED BY <2>1, <3>1 DEF Counts
  <2> QED BY <2>3, <2>4
<1>14. Emptied'
  BY <1>1 DEF SinkPull, Emptied, Pulls, PerRead, config, downstream
<1>15. Heard'
  BY <1>1, <1>4, <1>6, <1>7 DEF Heard
<1>16. KeepsRatio => Phase'
  BY <1>1 DEF SinkPull, Phase, Resampling, config, converted, status
<1> QED BY <1>8, <1>9, <1>10, <1>11, <1>12, <1>13, <1>14, <1>15, <1>16 DEF DcInv

LEMMA ConvertPullStep ==
  ASSUME DcInv, ConvertPull
  PROVE  DcInv'
<1>1. /\ Typed /\ Places /\ Sources /\ Port /\ Outlet /\ Counts /\ Emptied /\ Heard
      /\ (KeepsRatio => Phase)
  BY DEF DcInv
<1>3. pulled' = pulled /\ pulled = <<>> BY <1>1 DEF ConvertPull, Places
<1>4. BufferSize \in Int /\ BufferSize > 0 BY Sizes
<1>5. Typed'
  BY <1>1, <1>4 DEF ConvertPull, Typed, config, sinkVars, upstream, converted, downstream
<1>6. Places'
  BY <1>1 DEF ConvertPull, Places, Pulls, config, upstream, downstream, status
<1>7. Sources'
  BY <1>1, <1>3 DEF ConvertPull, Sources, Waiting, upstream
<1>8. Port'
  BY <1>1, <1>3 DEF ConvertPull, Port, Waiting, upstream, converted, status
<1>9. Outlet'
  BY <1>1 DEF ConvertPull, Outlet, Leaving, converted, downstream, status
<1>10. Counts'
  BY <1>1, <1>4 DEF ConvertPull, Counts, IsWriteNeeded, Resampling, config, sinkVars,
     converted
<1>11. Emptied'
  BY <1>1 DEF ConvertPull, Emptied, Pulls, PerRead, Resampling, config, sinkVars, downstream
<1>12. Heard'
  BY <1>1, <1>4 DEF ConvertPull, Heard, IsWriteNeeded, config, sinkVars, upstream,
     converted, status
<1>13. KeepsRatio => Phase'
  BY <1>1 DEF ConvertPull, Phase, Resampling, config, converted, status
<1> QED BY <1>5, <1>6, <1>7, <1>8, <1>9, <1>10, <1>11, <1>12, <1>13 DEF DcInv

LEMMA BeginPushStep ==
  ASSUME DcInv, NEW n \in 1..MaxCall, BeginPush(n)
  PROVE  DcInv'
<1>1. /\ Typed /\ Places /\ Sources /\ Port /\ Outlet /\ Counts /\ Emptied /\ Heard
      /\ (KeepsRatio => Phase)
  BY DEF DcInv
<1>2. Lengths BY InvLengths
<1>3. /\ n \in Nat /\ n \in Int /\ data' = Following(entered, n) /\ entered' = entered + n
      /\ asked' = PerRead /\ pc = "idle" /\ pc' = "sink" /\ ~Pulls
      /\ UNCHANGED <<config, want, got, need, pulled, storage, entering, converted,
                      downstream, status>>
  BY BlockAssumption DEF BeginPush
<1>4. /\ entered \in Int /\ pulled = <<>> /\ storage = <<>> /\ chunk = <<>>
      /\ Len(pulled) = 0 /\ Len(storage) = 0 /\ Len(chunk) = 0 /\ Waiting = Len(data)
      /\ Len(data) \in Nat /\ (~failed => Len(data) = 0) /\ Len(entering) \in Nat
  BY <1>1, <1>2, <1>3 DEF Typed, Places, Lengths, Emptied, Waiting
<1>5. Run(data', entered) /\ Len(data') = n BY <1>3, <1>4, RunFollowing
<1>6. /\ Waiting' = n /\ entered + n - n = entered /\ entered + n - n - 0 = entered
      /\ Run(<<>>, entered)
  <2>1. Waiting' = 0 + 0 + n BY <1>3, <1>4, <1>5 DEF Waiting
  <2> QED BY <1>3, <1>4, <2>1, RunNone
<1>7. Typed'
  BY <1>1, <1>3, <1>4, Sizes DEF Typed, config, converted, downstream
<1>8. Places'
  BY <1>1, <1>3, <1>4 DEF Places, Pulls, Resampling, config, downstream, status
<1>9. Sources'
  BY <1>3, <1>4, <1>5, <1>6 DEF Sources
<1>10. Port'
  <2>1. PICK m \in Int :
           /\ Run(entering, m) /\ used <= m /\ m + Len(entering) <= entered - Waiting
           /\ (~failed => used = m /\ m + Len(entering) = entered - Waiting)
    BY <1>1 DEF Port
  <2>2. m + Len(entering) <= entered /\ (~failed => m + Len(entering) = entered)
    BY <1>4, <2>1
  <2>3. entered' - Waiting' = entered BY <1>3, <1>4, <1>6
  <2> QED BY <1>3, <2>1, <2>2, <2>3 DEF Port, converted, status
<1>11. Outlet'
  BY <1>1, <1>3 DEF Outlet, Leaving, converted, downstream, status
<1>12. Counts'
  BY <1>3 DEF Counts
<1>13. Emptied'
  BY <1>3, <1>4, Sizes DEF Emptied, Pulls, PerRead, Resampling, config, downstream
<1>14. Heard'
  BY <1>1, <1>3 DEF BeginPush, Heard, Pulls, config, status
<1>15. KeepsRatio => Phase'
  BY <1>1, <1>3 DEF Phase, Resampling, config, converted, status
<1> QED BY <1>7, <1>8, <1>9, <1>10, <1>11, <1>12, <1>13, <1>14, <1>15 DEF DcInv

LEMMA BeginPullStep ==
  ASSUME DcInv, NEW n \in 1..MaxCall, BeginPull(n)
  PROVE  DcInv'
<1>1. /\ Typed /\ Places /\ Sources /\ Port /\ Outlet /\ Counts /\ Emptied /\ Heard
      /\ (KeepsRatio => Phase)
  BY DEF DcInv
<1>3. Typed'
  BY <1>1 DEF BeginPull, Typed, config, upstream, converted, downstream
<1>4. Places'
  BY <1>1 DEF BeginPull, Places, Pulls, Resampling, config, upstream, downstream
<1>5. Sources'
  BY <1>1 DEF BeginPull, Sources, Waiting, upstream
<1>6. Port'
  BY <1>1 DEF BeginPull, Port, Waiting, upstream, converted, status
<1>7. Outlet'
  BY <1>1 DEF BeginPull, Outlet, Leaving, converted, downstream, status
<1>8. Counts'
  BY DEF BeginPull, Counts
<1>9. Emptied'
  BY DEF BeginPull, Emptied, Pulls, config
<1>10. Heard'
  BY <1>1 DEF BeginPull, Heard, config, status
<1>11. KeepsRatio => Phase'
  BY <1>1 DEF BeginPull, Phase, Resampling, config, converted, status
<1> QED BY <1>3, <1>4, <1>5, <1>6, <1>7, <1>8, <1>9, <1>10, <1>11 DEF DcInv

-----------------------------------------------------------------------------
(* The resampler *)

LEMMA Distributes == \A a, b \in Int : a * (b + 1) = a * b + a /\ a * b \in Int
OBVIOUS

LEMMA ConvertWriteStep ==
  ASSUME DcInv, ConvertWrite
  PROVE  DcInv'
<1>1. /\ Typed /\ Places /\ Sources /\ Port /\ Outlet /\ Counts /\ Emptied /\ Heard
      /\ (KeepsRatio => Phase)
  BY DEF DcInv
<1>2. Lengths BY InvLengths
<1>3. PICK n \in Int :
         /\ Run(entering, n) /\ used <= n /\ n + Len(entering) <= entered - Waiting
         /\ ~failed => used = n /\ n + Len(entering) = entered - Waiting
  BY <1>1 DEF Port
<1>4. /\ entering # <<>> /\ entering' = Tail(entering) /\ used' = n + 1 /\ n + 1 \in Int
      /\ Run(Tail(entering), n + 1) /\ Len(Tail(entering)) = Len(entering) - 1
      /\ (~failed => used' = used + 1)
  BY <1>1, <1>3, RunEnds DEF ConvertWrite, Typed
<1>5. Resampling BY <1>1 DEF ConvertWrite, Places
<1>6. Typed'
  BY <1>1, <1>4 DEF ConvertWrite, Typed, config, sinkVars, downstream
<1>7. Places'
  BY <1>1 DEF ConvertWrite, Places, Pulls, Resampling, config, downstream, status
<1>8. Sources'
  BY <1>1 DEF ConvertWrite, Sources, Waiting
<1>9. Port'
  <2>1. Waiting' = Waiting /\ failed' = failed /\ entered' = entered
    BY DEF ConvertWrite, Waiting, status
  <2>2. Waiting \in Int /\ entered \in Int BY <1>1, <1>2 DEF Typed, Lengths, Waiting
  <2>3. n + 1 + Len(Tail(entering)) = n + Len(entering) BY <1>2, <1>4 DEF Lengths
  <2>4. /\ Run(entering', n + 1) /\ used' <= n + 1 /\ n + 1 + Len(entering') <= entered' - Waiting'
        /\ ~failed' => used' = n + 1 /\ n + 1 + Len(entering') = entered' - Waiting'
    BY <1>3, <1>4, <2>1, <2>2, <2>3
  <2> QED BY <1>4, <2>4 DEF Port
<1>10. Outlet'
  BY <1>1 DEF ConvertWrite, Outlet, Leaving, downstream, status
<1>11. Counts'
  BY <1>1 DEF ConvertWrite, Counts, Resampling, config, sinkVars
<1>12. Emptied'
  BY <1>1 DEF ConvertWrite, Emptied, Pulls, PerRead, Resampling, config, sinkVars,
     downstream
<1>13. Heard'
  BY <1>1 DEF ConvertWrite, Heard, Resampling, config, sinkVars, status
<1>14. KeepsRatio => Phase'
  <2>1. KeepsRatio => ratio[1] \in Nat \ {0} /\ ratio[2] \in Nat \ {0}
    BY <1>1 DEF KeepsRatio, Keeps, Typed
  <2>2. /\ failed' = failed /\ ratio' = ratio /\ made' = made /\ rate' = rate
        /\ mIntegerPhase' = mIntegerPhase - ratio[2] /\ mIntegerPhase >= ratio[2]
    BY DEF ConvertWrite, IsWriteNeeded, config, sinkVars, upstream, converted, downstream, status
  <2> SUFFICES ASSUME KeepsRatio, ~failed PROVE Phase' BY <2>2, Zenon DEF Phase
  <2>3. /\ used \in Int /\ made \in Int /\ ratio[1] \in Int /\ ratio[2] \in Int
        /\ ratio[1] > 0 /\ ratio[2] > 0
    BY <1>1, <2>1 DEF Typed
  <2>4. /\ mIntegerPhase = ratio[2] + ratio[1] * made - ratio[2] * used
        /\ mIntegerPhase < ratio[1] + ratio[2]
    BY <1>1, <1>5 DEF Phase
  <2>5. mIntegerPhase \in Int BY <2>3, <2>4
  <2>6. mIntegerPhase - ratio[2] = ratio[2] + ratio[1] * made - ratio[2] * (used + 1)
    <3> DEFINE a == ratio[1] * made
               b == ratio[2] * used
    <3>1. a \in Int /\ b \in Int /\ ratio[2] * (used + 1) = b + ratio[2]
      BY <2>3, Distributes, Zenon
    <3>2. mIntegerPhase = ratio[2] + a - b BY <2>4
    <3> HIDE DEF a, b
    <3>3. mIntegerPhase - ratio[2] = ratio[2] + a - (b + ratio[2])
      BY <2>3, <2>5, <3>1, <3>2
    <3> QED BY <3>1, <3>3 DEF a
  <2>7. /\ 0 <= mIntegerPhase - ratio[2] /\ mIntegerPhase - ratio[2] < ratio[1] + ratio[2]
    BY <2>2, <2>3, <2>4, <2>5
  <2>8. Resampling' BY <1>5, <2>2 DEF Resampling
  <2> QED BY <1>4, <2>2, <2>6, <2>7, <2>8, Zenon DEF Phase
<1> QED BY <1>6, <1>7, <1>8, <1>9, <1>10, <1>11, <1>12, <1>13, <1>14 DEF DcInv

LEMMA ConvertReadStep ==
  ASSUME DcInv, ConvertRead
  PROVE  DcInv'
<1>1. /\ Typed /\ Places /\ Sources /\ Port /\ Outlet /\ Counts /\ Emptied /\ Heard
      /\ (KeepsRatio => Phase)
  BY DEF DcInv
<1>2. Lengths BY InvLengths
<1>3. /\ made \in Int /\ made - Len(chunk) \in Int
      /\ (made - Len(chunk)) + Len(chunk) + 1 = made + 1
  BY <1>1, <1>2 DEF Typed, Lengths
<1>4. /\ Run(Append(chunk, made + 1), made - Len(chunk))
      /\ Len(Append(chunk, made + 1)) = Len(chunk) + 1
  BY <1>1, <1>3, RunAppend DEF Outlet
<1>5. Resampling BY <1>1 DEF ConvertRead, Places
<1>6. Typed'
  BY <1>1 DEF ConvertRead, Typed, config, upstream
<1>7. Places'
  BY <1>1 DEF ConvertRead, Places, Pulls, Resampling, config, upstream, status
<1>8. Sources'
  BY <1>1 DEF ConvertRead, Sources, Waiting, upstream
<1>9. Port'
  BY <1>1 DEF ConvertRead, Port, Waiting, upstream, status
<1>10. Outlet'
  BY <1>1, <1>3, <1>4 DEF ConvertRead, Outlet, Leaving, status
<1>11. Counts'
  BY <1>1 DEF ConvertRead, Counts, Typed, Resampling, config
<1>12. Emptied'
  BY <1>1, Sizes DEF ConvertRead, Emptied, Places, Typed, Pulls, PerRead, Resampling, config
<1>13. Heard'
  BY <1>1 DEF ConvertRead, Heard, Places, config, status
<1>14. KeepsRatio => Phase'
  <2>1. KeepsRatio => ratio[1] \in Nat \ {0} /\ ratio[2] \in Nat \ {0}
    BY <1>1 DEF KeepsRatio, Keeps, Typed
  <2>2. /\ failed' = failed /\ ratio' = ratio /\ used' = used /\ rate' = rate
        /\ made' = made + 1
        /\ mIntegerPhase' = mIntegerPhase + ratio[1] /\ ~(mIntegerPhase >= ratio[2])
    BY DEF ConvertRead, IsWriteNeeded, config, sinkVars, upstream, converted, downstream, status
  <2> SUFFICES ASSUME KeepsRatio, ~failed PROVE Phase' BY <2>2, Zenon DEF Phase
  <2>3. /\ used \in Int /\ made \in Int /\ ratio[1] \in Int /\ ratio[2] \in Int
        /\ ratio[1] > 0 /\ ratio[2] > 0
    BY <1>1, <2>1 DEF Typed
  <2>4. /\ mIntegerPhase = ratio[2] + ratio[1] * made - ratio[2] * used
        /\ 0 <= mIntegerPhase
    BY <1>1, <1>5 DEF Phase
  <2>5. mIntegerPhase \in Int BY <2>3, <2>4
  <2>6. mIntegerPhase + ratio[1] = ratio[2] + ratio[1] * (made + 1) - ratio[2] * used
    <3> DEFINE a == ratio[1] * made
               b == ratio[2] * used
    <3>1. a \in Int /\ b \in Int /\ ratio[1] * (made + 1) = a + ratio[1]
      BY <2>3, Distributes, Zenon
    <3>2. mIntegerPhase = ratio[2] + a - b BY <2>4
    <3> HIDE DEF a, b
    <3>3. mIntegerPhase + ratio[1] = ratio[2] + (a + ratio[1]) - b
      BY <2>3, <2>5, <3>1, <3>2
    <3> QED BY <3>1, <3>3 DEF b
  <2>7. /\ 0 <= mIntegerPhase + ratio[1] /\ mIntegerPhase + ratio[1] < ratio[1] + ratio[2]
    BY <2>2, <2>3, <2>4, <2>5
  <2>8. Resampling' BY <1>5, <2>2 DEF Resampling
  <2> QED BY <2>2, <2>6, <2>7, <2>8, Zenon DEF Phase
<1> QED BY <1>6, <1>7, <1>8, <1>9, <1>10, <1>11, <1>12, <1>13, <1>14 DEF DcInv

-----------------------------------------------------------------------------
(* The source *)

LEMMA ReadBufferedStep ==
  ASSUME DcInv, ReadBuffered
  PROVE  DcInv'
<1>1. /\ Typed /\ Places /\ Sources /\ Port /\ Outlet /\ Counts /\ Emptied /\ Heard
      /\ (KeepsRatio => Phase)
  BY DEF DcInv
<1>2. Lengths BY InvLengths
<1> DEFINE k == Min({need, Len(data)})
<1>3. /\ k \in 0..Len(data) /\ (k = need \/ k = Len(data)) /\ need > 0
  <2>1. need \in Int /\ need > 0 /\ Len(data) \in Nat /\ Len(data) \in Int
    BY <1>1, <1>2 DEF ReadBuffered, Typed, Lengths, Counts
  <2>2. k \in Int /\ k <= need /\ k <= Len(data) /\ (k = need \/ k = Len(data))
    BY <2>1, MinOfTwo, Zenon
  <2> QED BY <2>1, <2>2
<1>4. pulled' = Take(data, k) /\ data' = Drop(data, k) BY DEF ReadBuffered
<1> HIDE DEF k
<1>5. /\ pulled = <<>> /\ Len(pulled) = 0 /\ storage = <<>> /\ Len(storage) = 0
      /\ k \in Int /\ Len(data) \in Nat /\ entered \in Int
  BY <1>1, <1>2, <1>3 DEF ReadBuffered, Places, Lengths, Typed
<1>6. entered - Len(data) \in Int BY <1>5
<1>7. /\ Run(Take(data, k), entered - Len(data)) /\ Len(Take(data, k)) = k
      /\ Run(Drop(data, k), entered - Len(data) + k) /\ Len(Drop(data, k)) = Len(data) - k
  BY <1>1, <1>3, <1>6, RunCut DEF Sources
<1>8. entered - Len(data) + k = entered - (Len(data) - k) /\ entered - Len(data) + k \in Int
  BY <1>3, <1>5
<1>9. (Take(data, k) = <<>> <=> k = 0) /\ (Drop(data, k) = <<>> <=> Len(data) - k = 0)
  BY <1>6, <1>7, <1>8, RunLength
<1>10. Typed'
  BY <1>1 DEF ReadBuffered, Typed, config, sinkVars, converted, downstream
<1>11. Places'
  BY <1>1 DEF ReadBuffered, Places, Pulls, config, downstream, status
<1>12. Sources'
  <2>1. /\ Run(data', entered - Len(data')) /\ Run(pulled', entered - Len(data))
        /\ Waiting' = Len(data)
    BY <1>4, <1>5, <1>7, <1>8 DEF ReadBuffered, Waiting
  <2>2. entered' = entered /\ storage' = <<>> /\ Len(storage') = 0
    BY <1>5 DEF ReadBuffered
  <2>3. entered - Len(data') \in Int BY <1>4, <1>5, <1>7
  <2>4. entered - Len(data') - 0 = entered - Len(data') BY <2>3
  <2> QED BY <1>6, <2>1, <2>2, <2>3, <2>4, RunNone DEF Sources
<1>13. Port'
  <2>1. entered' - Waiting' = entered - Waiting
    BY <1>1, <1>2, <1>4, <1>5, <1>7 DEF ReadBuffered, Typed, Lengths, Waiting,
       upstream
  <2>2. entering' = entering /\ used' = used /\ failed' = failed
    BY DEF ReadBuffered, config, sinkVars, upstream, converted, downstream, status
  <2> QED BY <1>1, <2>1, <2>2 DEF Port
<1>14. Outlet'
  BY <1>1 DEF ReadBuffered, Outlet, Leaving, converted, downstream, status
<1>15. Counts'
  BY <1>1 DEF ReadBuffered, Counts, IsWriteNeeded, Resampling, config, sinkVars, converted
<1>16. Emptied'
  BY <1>1, <1>3, <1>4, <1>7 DEF ReadBuffered, Emptied, PerRead, Resampling, config,
     sinkVars, downstream
<1>17. Heard'
  BY <1>1 DEF ReadBuffered, Heard, Pulls, config, status
<1>18. KeepsRatio => Phase'
  BY <1>1 DEF ReadBuffered, Phase, Resampling, config, converted, status
<1> QED BY <1>10, <1>11, <1>12, <1>13, <1>14, <1>15, <1>16, <1>17, <1>18 DEF DcInv

LEMMA ReadFromStorageStep ==
  ASSUME DcInv, ReadFromStorage
  PROVE  DcInv'
<1>1. /\ Typed /\ Places /\ Sources /\ Port /\ Outlet /\ Counts /\ Emptied /\ Heard
      /\ (KeepsRatio => Phase)
  BY DEF DcInv
<1>2. Lengths BY InvLengths
<1> DEFINE k == Min({need, Len(storage)})
<1>3. /\ k \in 0..Len(storage) /\ (k = need \/ k = Len(storage)) /\ need > 0 /\ Len(storage) > 0
  <2>1. need \in Int /\ need > 0 /\ Len(storage) \in Nat
        /\ Len(storage) \in Int /\ Len(storage) > 0
    BY <1>1, <1>2 DEF ReadFromStorage, Typed, Lengths
  <2>2. k \in Int /\ k <= need /\ k <= Len(storage) /\ (k = need \/ k = Len(storage))
    BY <2>1, MinOfTwo, Zenon
  <2> QED BY <2>1, <2>2
<1>4. pulled' = pulled \o Take(storage, k) /\ storage' = Drop(storage, k) /\ need' = need - k
  BY DEF ReadFromStorage
<1> HIDE DEF k
<1>5. /\ k \in Int /\ Len(storage) \in Nat /\ Len(pulled) \in Nat /\ entered \in Int
      /\ k > 0 /\ data = <<>> /\ Len(data) = 0 /\ need \in Int
  BY <1>1, <1>2, <1>3 DEF ReadFromStorage, Places, Lengths, Typed
<1>6. /\ entered - Len(data) - Len(storage) \in Int /\ entered - Waiting \in Int
      /\ entered - Waiting + Len(pulled) = entered - Len(data) - Len(storage)
  BY <1>5 DEF Waiting
<1>7. /\ Run(Take(storage, k), entered - Waiting + Len(pulled)) /\ Len(Take(storage, k)) = k
      /\ Run(Drop(storage, k), entered - Len(data) - Len(storage) + k)
      /\ Len(Drop(storage, k)) = Len(storage) - k
  BY <1>1, <1>3, <1>6, RunCut DEF Sources
<1>8. /\ Run(pulled \o Take(storage, k), entered - Waiting)
      /\ Len(pulled \o Take(storage, k)) = Len(pulled) + k
  BY <1>1, <1>6, <1>7, RunJoin DEF Sources
<1>9. /\ entered - Len(data) - Len(storage) + k = entered - Len(data) - (Len(storage) - k)
      /\ entered - Len(data) - Len(storage) + k \in Int
  BY <1>3, <1>5
<1>10. Waiting' = Waiting
  <2>1. /\ Len(pulled') = Len(pulled) + k /\ Len(storage') = Len(storage) - k
        /\ data' = data
    BY <1>4, <1>7, <1>8 DEF ReadFromStorage
  <2> QED BY <1>5, <2>1 DEF Waiting
<1>11. /\ (pulled \o Take(storage, k) = <<>> <=> Len(pulled) + k = 0)
       /\ (Drop(storage, k) = <<>> <=> Len(storage) - k = 0)
  BY <1>6, <1>7, <1>8, <1>9, RunLength, SMTT(30)
<1>12. Typed'
  <2>1. need' \in Int BY <1>4, <1>5
  <2> QED BY <1>1, <2>1
       DEF ReadFromStorage, Typed, config, sinkVars, upstream, converted, downstream, status
<1>13. Places'
  BY <1>1 DEF ReadFromStorage, Places, Pulls, config, downstream
<1>14. Sources'
  BY <1>1, <1>4, <1>7, <1>8, <1>9, <1>10 DEF ReadFromStorage, Sources
<1>15. Port'
  BY <1>1, <1>10 DEF ReadFromStorage, Port, converted, status
<1>16. Outlet'
  BY <1>1 DEF ReadFromStorage, Outlet, Leaving, converted, downstream, status
<1>17. Counts'
  BY <1>1, <1>2, <1>3, <1>4, <1>9, <1>10, <1>11, Sizes DEF ReadFromStorage, Counts,
     IsWriteNeeded, Pulls, Resampling, config, sinkVars, converted
<1>18. Emptied'
  BY DEF ReadFromStorage, Emptied, Pulls, config
<1>19. Heard'
  BY <1>1 DEF ReadFromStorage, Heard, config, status
<1>20. KeepsRatio => Phase'
  BY <1>1 DEF ReadFromStorage, Phase, Resampling, config, converted, status
<1> QED BY <1>12, <1>13, <1>14, <1>15, <1>16, <1>17, <1>18, <1>19, <1>20 DEF DcInv

LEMMA ProcessFailsStep ==
  ASSUME DcInv, ProcessFails
  PROVE  DcInv'
<1>1. /\ Typed /\ Places /\ Sources /\ Port /\ Outlet /\ Counts /\ Emptied /\ Heard
      /\ (KeepsRatio => Phase)
  BY DEF DcInv
<1>2. Lengths BY InvLengths
<1>3. Run(<<>>, entered) /\ Len(<<>>) = 0 /\ entered \in Int BY <1>1, RunNone DEF Typed
<1>4. /\ storage = <<>> /\ data = <<>> /\ Len(storage) = 0 /\ Len(data) = 0 /\ pulled' = <<>>
      /\ entering = <<>>
  BY <1>1, <1>2 DEF ProcessFails, Places, Lengths
<1>5. Waiting' = 0 /\ entered' = entered /\ Waiting >= 0 /\ Waiting \in Int
  BY <1>2, <1>3, <1>4 DEF ProcessFails, Waiting, upstream, Lengths
<1>6. Typed'
  BY <1>1 DEF ProcessFails, Typed, config, sinkVars, upstream, converted, downstream
<1>7. Places'
  BY <1>1 DEF ProcessFails, Places, Pulls, config, upstream, downstream
<1>8. Sources'
  BY <1>1, <1>3 DEF ProcessFails, Sources, Waiting, upstream
<1>9. Port'
  BY <1>1, <1>3 DEF ProcessFails, Port, Waiting, upstream, converted
<1>10. Outlet'
  BY <1>1 DEF ProcessFails, Outlet, Leaving, converted, downstream
<1>11. Counts'
  BY <1>1 DEF ProcessFails, Counts, IsWriteNeeded, Resampling, config, sinkVars, converted
<1>12. Emptied'
  BY DEF ProcessFails, Emptied, Pulls, config
<1>13. Heard'
  BY <1>1 DEF ProcessFails, Heard, Places, Counts, IsWriteNeeded, Resampling, config,
     sinkVars, upstream, converted
<1>14. KeepsRatio => Phase'
  BY DEF ProcessFails, Phase
<1> QED BY <1>6, <1>7, <1>8, <1>9, <1>10, <1>11, <1>12, <1>13, <1>14 DEF DcInv

LEMMA ReadThroughStep ==
  ASSUME DcInv, ReadThrough
  PROVE  DcInv'
<1>1. /\ Typed /\ Places /\ Sources /\ Port /\ Outlet /\ Counts /\ Emptied /\ Heard
      /\ (KeepsRatio => Phase)
  BY DEF DcInv
<1>2. Lengths BY InvLengths
<1>3. PICK n \in 0..block :
         /\ Process(n) /\ pulled' = pulled \o Following(entered, n) /\ need' = need - n
  BY DEF ReadThrough
<1>4. block \in Int /\ block > 0 BY <1>1, Sizes DEF Typed
<1>5. /\ n \in Nat /\ n \in Int /\ entered \in Int /\ need \in Int /\ entered' = entered + n
      /\ Len(pulled) \in Nat
      /\ storage = <<>> /\ Len(storage) = 0 /\ data = <<>> /\ Len(data) = 0
      /\ (path = "outputCallback" => n = block /\ answer' = "Continue")
      /\ (path # "outputCallback" => answer' = answer)
  BY <1>1, <1>2, <1>3, <1>4 DEF ReadThrough, Process, Typed, Lengths, Places
<1>6. Run(Following(entered, n), entered) /\ Len(Following(entered, n)) = n
  BY <1>5, RunFollowing
<1>7. entered - Waiting \in Int /\ entered - Waiting + Len(pulled) = entered
  BY <1>5 DEF Waiting
<1>8. /\ Run(pulled', entered - Waiting) /\ Len(pulled') = Len(pulled) + n
      /\ (pulled' = <<>> <=> Len(pulled') = 0)
  <2> DEFINE start == entered - Waiting
             f == Following(entered, n)
  <2>1. /\ start \in Int /\ start + Len(pulled) = entered /\ Run(pulled, start)
        /\ Run(f, entered) /\ Len(f) = n /\ pulled' = pulled \o f
    BY <1>1, <1>3, <1>6, <1>7 DEF Sources
  <2> HIDE DEF start, f
  <2>2. Run(pulled', start) /\ Len(pulled') = Len(pulled) + n BY <2>1, RunJoin
  <2>3. pulled' = <<>> <=> Len(pulled') = 0 BY <2>1, <2>2, RunLength
  <2> QED BY <2>2, <2>3 DEF start
<1>9. entered' - Waiting' = entered - Waiting
  <2>1. Waiting' = Len(pulled) + n + Len(storage) + Len(data)
    BY <1>5, <1>8 DEF ReadThrough, Waiting
  <2> QED BY <1>5, <2>1 DEF Waiting
<1>10. Typed'
  <2>1. need' \in Int /\ entered' \in Int BY <1>3, <1>5
  <2> QED BY <1>1, <2>1
       DEF ReadThrough, Typed, config, sinkVars, upstream, converted, downstream, status
<1>11. Places'
  BY <1>1 DEF ReadThrough, Places, Pulls, config, downstream
<1>12. Sources'
  <2>1. /\ data' = <<>> /\ storage' = <<>> /\ Len(data') = 0 /\ Len(storage') = 0
        /\ entered' \in Int
    BY <1>5 DEF ReadThrough
  <2>2. entered' - 0 = entered' /\ Run(<<>>, entered') BY <1>5, RunNone
  <2> QED BY <1>8, <1>9, <2>1, <2>2 DEF Sources
<1>13. Port'
  <2>1. entering' = entering /\ used' = used /\ failed' = failed
    BY DEF ReadThrough, converted
  <2> QED BY <1>1, <1>9, <2>1 DEF Port
<1>14. Outlet'
  BY <1>1 DEF ReadThrough, Outlet, Leaving, converted, downstream
<1>15. Counts'
  <2>1. n > 0 => pulled' # <<>> BY <1>5, <1>8
  <2>2. n = 0 => need' > 0 BY <1>3, <1>4, <1>5 DEF ReadThrough
  <2> QED BY <1>1, <1>5, <2>1, <2>2
       DEF ReadThrough, Counts, IsWriteNeeded, Pulls, Resampling, config, sinkVars, upstream,
           converted, downstream, status
<1>16. Emptied'
  BY DEF ReadThrough, Emptied, Pulls, config
<1>17. Heard'
  BY <1>1, <1>5, PathAssumption
     DEF ReadThrough, Heard, Typed, Places, IsWriteNeeded, Pulls, Resampling,
     config, sinkVars, upstream, converted, downstream, status
<1>18. KeepsRatio => Phase'
  BY <1>1 DEF ReadThrough, Phase, Resampling, config, converted
<1> QED BY <1>10, <1>11, <1>12, <1>13, <1>14, <1>15, <1>16, <1>17, <1>18 DEF DcInv

LEMMA ReloadStep ==
  ASSUME DcInv, Reload
  PROVE  DcInv'
<1>1. /\ Typed /\ Places /\ Sources /\ Port /\ Outlet /\ Counts /\ Emptied /\ Heard
      /\ (KeepsRatio => Phase)
  BY DEF DcInv
<1>2. Lengths BY InvLengths
<1>3. PICK n \in 0..block :
         /\ Process(n) /\ storage' = Following(entered, n)
         /\ pc' = IF n = 0 THEN "pulled" ELSE pc
  BY DEF Reload
<1>4. block \in Int /\ block > 0 BY <1>1, Sizes DEF Typed
<1>5. /\ n \in Nat /\ n \in Int /\ entered \in Int /\ need \in Int /\ need > 0
      /\ entered' = entered + n /\ Len(pulled) \in Nat /\ pc = "source" /\ Pulls
      /\ storage = <<>> /\ Len(storage) = 0 /\ data = <<>> /\ Len(data) = 0
      /\ (path = "outputCallback" => n = block /\ answer' = "Continue")
      /\ (path # "outputCallback" => answer' = answer)
      /\ data' = data /\ pulled' = pulled /\ need' = need
  BY <1>1, <1>2, <1>3, <1>4 DEF Reload, Process, Typed, Lengths, Places
<1>6. Run(storage', entered) /\ Len(storage') = n /\ (storage' = <<>> <=> n = 0)
  <2>1. Run(storage', entered) /\ Len(storage') = n BY <1>3, <1>5, RunFollowing
  <2> QED BY <1>5, <2>1, RunLength
<1>7. entered' - Waiting' = entered - Waiting
  <2>1. Waiting' = Len(pulled) + n + Len(data) BY <1>5, <1>6 DEF Waiting
  <2> QED BY <1>5, <2>1 DEF Waiting
<1>8. Typed'
  <2>1. need' \in Int /\ entered' \in Int BY <1>5
  <2>2. pc' \in {"source", "pulled"} BY <1>3, <1>5
  <2> QED BY <1>1, <2>1, <2>2 DEF Reload, Typed, config, sinkVars, upstream, converted,
      downstream, status
<1>9. Places'
  BY <1>1 DEF Reload, Places, Pulls, config, downstream
<1>10. Sources'
  <2>1. /\ entered' - 0 = entered' /\ entered' - n = entered /\ Run(<<>>, entered')
        /\ entered' - 0 - n = entered
    BY <1>5, RunNone
  <2> QED BY <1>1, <1>5, <1>6, <1>7, <2>1 DEF Sources
<1>11. Port'
  <2>1. entering' = entering /\ used' = used /\ failed' = failed
    BY DEF Reload, converted
  <2> QED BY <1>1, <1>7, <2>1 DEF Port
<1>12. Outlet'
  BY <1>1 DEF Reload, Outlet, Leaving, converted, downstream
<1>13. Counts'
  BY <1>1, <1>3, <1>5
     DEF Reload, Counts, IsWriteNeeded, Pulls, Resampling, config, sinkVars, upstream,
         converted, downstream, status
<1>14. Emptied'
  BY DEF Reload, Emptied, Pulls, config
<1>15. Heard'
  BY <1>1, <1>3, <1>4, <1>5, <1>6, PathAssumption
     DEF Reload, Heard, Typed, Places, Counts, IsWriteNeeded, Pulls, Resampling,
     config, sinkVars, upstream, converted, downstream, status
<1>16. KeepsRatio => Phase'
  BY <1>1 DEF Reload, Phase, Resampling, config, converted
<1> QED BY <1>8, <1>9, <1>10, <1>11, <1>12, <1>13, <1>14, <1>15, <1>16 DEF DcInv

LEMMA PulledBySinkStep ==
  ASSUME DcInv, PulledBySink
  PROVE  DcInv'
<1>1. /\ Typed /\ Places /\ Sources /\ Port /\ Outlet /\ Counts /\ Emptied /\ Heard
      /\ (KeepsRatio => Phase)
  BY DEF DcInv
<1>2. Lengths BY InvLengths
<1> DEFINE k == Len(pulled)
<1>3. /\ pc = "pulled" /\ ~Resampling /\ entering = <<>> /\ Len(entering) = 0
      /\ pulled' = <<>> /\ k \in Nat /\ (pulled = <<>> <=> k = 0)
      /\ Len(chunk) \in Nat
      /\ entered \in Int /\ made \in Int /\ used \in Int /\ asked \in Int
  BY <1>1, <1>2 DEF PulledBySink, Places, Lengths, Typed
<1>4. PICK n \in Int :
         /\ Run(entering, n) /\ used <= n /\ n + Len(entering) <= entered - Waiting
         /\ (~failed => used = n /\ n + Len(entering) = entered - Waiting)
  BY <1>1 DEF Port
<1>5. /\ Waiting \in Int /\ entered - Waiting \in Int /\ used <= entered - Waiting
      /\ (~failed => used = entered - Waiting)
  BY <1>2, <1>3, <1>4 DEF Waiting, Lengths
<1>6. /\ entered' = entered /\ Waiting' = Waiting - k /\ Len(pulled') = 0
      /\ storage' = storage /\ data' = data /\ entering' = entering
  <2>1. Len(pulled') = 0 BY <1>3, RunNone
  <2> QED BY <1>2, <1>3, <2>1 DEF PulledBySink, Waiting, upstream, Lengths
<1>7. /\ asked' = asked - k /\ made' = made + k
      /\ pc' = IF k = 0 THEN "deliver" ELSE "sink"
      /\ used' = IF k = 0 THEN used ELSE entered - Waiting + k
  <2>1. CASE pulled = <<>> BY <1>3, <2>1 DEF PulledBySink
  <2>2. CASE pulled # <<>>
    <3>1. Last(pulled) = entered - Waiting + k BY <1>1, <1>5, <2>2, RunEnds DEF Sources
    <3> QED BY <1>3, <2>2, <3>1 DEF PulledBySink
  <2> QED BY <2>1, <2>2
<1>8. /\ Run(chunk', made - Len(chunk)) /\ Len(chunk') = Len(chunk) + k
      /\ (chunk' = <<>> <=> Len(chunk) + k = 0)
  <2>1. made - Len(chunk) \in Int /\ made - Len(chunk) + Len(chunk) = made BY <1>3
  <2>2. Run(chunk', made - Len(chunk)) /\ Len(chunk') = Len(chunk) + k
    <3>1. CASE pulled = <<>> BY <1>1, <1>3, <3>1 DEF PulledBySink, Outlet
    <3>2. CASE pulled # <<>>
      <4>1. chunk' = chunk \o Following(made, k) BY <3>2 DEF PulledBySink
      <4> HIDE DEF k
      <4>2. Run(Following(made, k), made) /\ Len(Following(made, k)) = k
        BY <1>3, RunFollowing
      <4> QED BY <1>1, <2>1, <4>1, <4>2, RunJoin DEF Outlet
    <3> QED BY <3>1, <3>2
  <2> QED BY <2>1, <2>2, RunLength
<1> HIDE DEF k
<1>9. UNCHANGED <<written, sent, failed, config, want, got, need, answer, stopped,
                  mCallbackResult>>
  BY DEF PulledBySink, status
<1>10. Typed'
  <2>1. asked' \in Int /\ made' \in Int /\ used' \in Int /\ pc' \in {"deliver", "sink"}
    BY <1>3, <1>5, <1>7
  <2> QED BY <1>1, <1>6, <1>9, <2>1 DEF Typed, config
<1>11. Places'
  BY <1>1 DEF PulledBySink, Places, Pulls, config, upstream, status
<1>12. Sources'
  <2>1. entered - (Waiting - k) \in Int BY <1>3, <1>5
  <2>2. Run(pulled', entered' - Waiting') BY <1>3, <1>6, <2>1, RunNone
  <2> QED BY <1>1, <1>6, <2>2 DEF Sources
<1>13. Port'
  <2>1. /\ Run(<<>>, entered - Waiting + k) /\ entered - Waiting + k \in Int
        /\ entered - Waiting + k + 0 = entered - (Waiting - k)
    BY <1>3, <1>5, RunNone
  <2>2. used' <= entered - Waiting + k /\ (~failed => used' = entered - Waiting + k)
    BY <1>3, <1>5, <1>7
  <2> QED BY <1>3, <1>6, <1>9, <2>1, <2>2 DEF Port
<1>14. Outlet'
  <2>1. /\ made' - Len(chunk') = made - Len(chunk) /\ made' - Leaving' = made - Leaving
        /\ made - Leaving \in Int
    BY <1>2, <1>3, <1>7, <1>8, <1>9 DEF Leaving, Lengths
  <2> QED BY <1>1, <1>8, <1>9, <2>1 DEF Outlet
<1>15. Counts'
  BY DEF PulledBySink, Counts
<1>16. Emptied'
  <2>1. Len(chunk') + asked' = Len(chunk) + asked BY <1>3, <1>7, <1>8
  <2>2. /\ Pulls' = Pulls /\ PerRead' = PerRead /\ ~Resampling'
    BY <1>3, <1>9 DEF Pulls, PerRead, Resampling, config
  <2>3. ~Pulls => Len(chunk) + asked = PerRead + 0 /\ (k = 0 => data = <<>>)
    BY <1>1, <1>3 DEF Emptied
  <2>4. k = 0 => pc' = "deliver" BY <1>7
  <2>5. k # 0 => pc' = "sink" BY <1>7
  <2>6. pc' = "sink" => k # 0 BY <1>7
  <2>7. pc' = "deliver" => k = 0 BY <1>7
  <2> QED BY <1>3, <1>6, <2>1, <2>2, <2>3, <2>4, <2>5, <2>6, <2>7 DEF Emptied
<1>17. Heard'
  BY <1>1 DEF PulledBySink, Heard, Resampling, config, upstream, status
<1>18. KeepsRatio => Phase'
  BY <1>1, <1>3, <1>4, <1>7 DEF PulledBySink, Phase, Resampling, config, status
<1> QED BY <1>10, <1>11, <1>12, <1>13, <1>14, <1>15, <1>16, <1>17, <1>18 DEF DcInv

LEMMA PulledByConverterStep ==
  ASSUME DcInv, PulledByConverter
  PROVE  DcInv'
<1>1. /\ Typed /\ Places /\ Sources /\ Port /\ Outlet /\ Counts /\ Emptied /\ Heard
      /\ (KeepsRatio => Phase)
  BY DEF DcInv
<1>2. Lengths BY InvLengths
<1> DEFINE k == Len(pulled)
<1>3. /\ pc = "pulled" /\ Resampling /\ entering = <<>> /\ Len(entering) = 0
      /\ entering' = pulled /\ pulled' = <<>> /\ k \in Nat /\ (pulled = <<>> <=> k = 0)
      /\ entered \in Int /\ used \in Int /\ asked \in Int /\ got \in Int /\ want \in Int
      /\ want > 0 /\ got >= 0 /\ want + got <= asked /\ asked > 0
  BY <1>1, <1>2 DEF PulledByConverter, Places, Lengths, Typed, Counts
<1>4. PICK n \in Int :
         /\ Run(entering, n) /\ used <= n /\ n + Len(entering) <= entered - Waiting
         /\ (~failed => used = n /\ n + Len(entering) = entered - Waiting)
  BY <1>1 DEF Port
<1>5. /\ Waiting \in Int /\ entered - Waiting \in Int /\ used <= entered - Waiting
      /\ (~failed => used = entered - Waiting)
  BY <1>2, <1>3, <1>4 DEF Waiting, Lengths
<1>6. /\ entered' = entered /\ Waiting' = Waiting - k /\ Len(pulled') = 0
      /\ storage' = storage /\ data' = data
  <2>1. Len(pulled') = 0 BY <1>3, RunNone
  <2> QED BY <1>2, <1>3, <2>1 DEF PulledByConverter, Waiting, Lengths
<1>7. \/ pulled # <<>> /\ pc' = "convert" /\ asked' = asked
      \/ pulled = <<>> /\ got > 0 /\ pc' = "sink" /\ asked' = asked - got
      \/ pulled = <<>> /\ got = 0 /\ pc' = "deliver" /\ asked' = asked
  BY DEF PulledByConverter
<1>8. Run(pulled, entered - Waiting) BY <1>1 DEF Sources
<1> HIDE DEF k
<1>9. UNCHANGED <<written, chunk, sent, made, used, failed, config, want, got, need, answer,
                  stopped, mCallbackResult, mIntegerPhase>>
  BY DEF PulledByConverter, status, converted, downstream
<1>10. Typed'
  <2>1. asked' \in Int /\ pc' \in {"convert", "deliver", "sink"} BY <1>3, <1>7
  <2> QED BY <1>1, <1>6, <1>9, <2>1 DEF Typed, config
<1>11. Places'
  BY <1>1 DEF PulledByConverter, Places, Pulls, Resampling, config, downstream, status
<1>12. Sources'
  <2>1. entered - (Waiting - k) \in Int BY <1>3, <1>5
  <2>2. Run(pulled', entered' - Waiting') BY <1>3, <1>6, <2>1, RunNone
  <2> QED BY <1>1, <1>6, <2>2 DEF Sources
<1>13. Port'
  <2>1. Len(entering') = k BY <1>3 DEF k
  <2>2. entered - Waiting + k = entered - (Waiting - k) BY <1>3, <1>5
  <2> QED BY <1>3, <1>5, <1>6, <1>8, <1>9, <2>1, <2>2 DEF Port
<1>14. Outlet'
  BY <1>1 DEF PulledByConverter, Outlet, Leaving, converted, downstream, status
<1>15. Counts'
  <2>1. Resampling' /\ IsWriteNeeded' = IsWriteNeeded
    BY <1>3, <1>9 DEF Resampling, IsWriteNeeded, config
  <2> QED BY <1>3, <1>7, <1>9 DEF Counts
<1>16. Emptied'
  BY <1>1, <1>2, <1>5, Sizes DEF PulledByConverter, Emptied, Typed, Pulls, PerRead,
     Resampling, config, downstream
<1>17. Heard'
  <2>1. path' = path /\ pc = "pulled" /\ asked \in Int /\ asked - got > 0
    BY <1>3, <1>9 DEF config
  <2>2. IsWriteNeeded' = IsWriteNeeded /\ Resampling' = Resampling /\ IsWriteNeeded
    BY <1>1, <1>3, <1>9 DEF Resampling, IsWriteNeeded, Counts, config
  <2> QED BY <1>1, <1>3, <1>6, <1>7, <1>9, <2>1, <2>2 DEF Heard
<1>18. KeepsRatio => Phase'
  BY <1>1 DEF PulledByConverter, Phase, Resampling, config, converted, status
<1> QED BY <1>10, <1>11, <1>12, <1>13, <1>14, <1>15, <1>16, <1>17, <1>18 DEF DcInv

-----------------------------------------------------------------------------
(* What the sink has read *)

LEMMA LastHandedOver ==
  ASSUME NEW n \in Int, NEW s, Run(s, n), LastOf(s), sent \in Int
  PROVE  /\ sent' \in Int
         /\ (s = <<>> => sent' = sent)
         /\ (s # <<>> => sent' = n + Len(s))
<1>1. Len(s) \in Nat BY RunLength
<1>2. CASE s = <<>> BY <1>2 DEF LastOf
<1>3. CASE s # <<>>
  <2>1. sent' = n + Len(s) BY <1>3, RunEnds DEF LastOf
  <2> QED BY <1>1, <1>3, <2>1
<1> QED BY <1>2, <1>3

LEMMA EndPullStep ==
  ASSUME DcInv, EndPull
  PROVE  DcInv'
<1>1. /\ Typed /\ Places /\ Sources /\ Port /\ Outlet /\ Counts /\ Emptied /\ Heard
      /\ (KeepsRatio => Phase)
  BY DEF DcInv
<1>2. Lengths BY InvLengths
<1>3. /\ chunk' = <<>> /\ pc = "deliver" /\ pc' = "idle" /\ asked' = 0 /\ Pulls
      /\ stopped' = (path = "outputCallback" /\ (asked > 0 \/ mCallbackResult = "Stop"))
      /\ UNCHANGED <<config, want, got, need, pulled, upstream, converted, written,
                      mCallbackResult, answer, failed>>
  BY DEF EndPull, Empty
<1>4. /\ written = <<>> /\ Len(written) = 0 /\ Len(chunk) \in Nat /\ made \in Int /\ sent \in Int
      /\ (chunk = <<>> <=> Len(chunk) = 0) /\ Leaving = Len(chunk)
  BY <1>1, <1>2, <1>3 DEF Places, Lengths, Typed, Pulls, Leaving
<1>5. made - Len(chunk) \in Int /\ made - Len(chunk) + Len(chunk) = made BY <1>4
<1>6. /\ sent' \in Int /\ (chunk = <<>> => sent' = sent) /\ (chunk # <<>> => sent' = made)
  BY <1>1, <1>4, <1>5, LastHandedOver DEF EndPull, Outlet
<1>7. /\ Len(chunk') = 0 /\ made' = made /\ Leaving' = 0 /\ made - 0 = made
      /\ sent' <= made /\ (~failed => sent' = made) /\ Run(<<>>, made)
  <2>1. Len(chunk') = 0 /\ Run(<<>>, made) BY <1>3, <1>4, RunNone
  <2>2. made' = made /\ Leaving' = 0 /\ made - 0 = made
    BY <1>3, <1>4, <2>1 DEF Leaving, converted
  <2> QED BY <1>1, <1>4, <1>6, <2>1, <2>2 DEF Outlet
<1>8. Typed'
  BY <1>1, <1>3, <1>6 DEF Typed, config, upstream, converted
<1>9. Places'
  BY <1>1, <1>3, <1>4 DEF Places, Pulls, Resampling, config, upstream
<1>10. Sources'
  BY <1>1, <1>3 DEF Sources, Waiting, upstream, config
<1>11. Port'
  BY <1>1, <1>3 DEF Port, Waiting, upstream, converted, config
<1>12. Outlet'
  BY <1>3, <1>4, <1>7 DEF Outlet
<1>13. Counts'
  BY <1>3 DEF Counts
<1>14. Emptied'
  BY <1>3 DEF Emptied, Pulls, config
<1>15. Heard'
  BY <1>1, <1>3, PathAssumption
     DEF Heard, Typed, Pulls, Resampling, IsWriteNeeded, config, upstream, converted
<1>16. KeepsRatio => Phase'
  BY <1>1, <1>3 DEF Phase, Resampling, config, converted
<1> QED BY <1>8, <1>9, <1>10, <1>11, <1>12, <1>13, <1>14, <1>15, <1>16 DEF DcInv

LEMMA WriteChildStep ==
  ASSUME DcInv, WriteChild
  PROVE  DcInv'
<1>1. /\ Typed /\ Places /\ Sources /\ Port /\ Outlet /\ Counts /\ Emptied /\ Heard
      /\ (KeepsRatio => Phase)
  BY DEF DcInv
<1>2. Lengths BY InvLengths
<1>3. /\ chunk' = <<>> /\ pc = "deliver" /\ pc' = "sink" /\ asked' = PerRead
      /\ path = "outputWrite" /\ ~Pulls /\ chunk # <<>>
      /\ UNCHANGED <<config, want, got, need, pulled, upstream, converted, written,
                      mCallbackResult, answer, stopped>>
  BY DEF WriteChild, Empty, NextRead, Pulls
<1>4. PICK n \in 0..Len(chunk) :
         LastOf(Take(chunk, n)) /\ failed' = (failed \/ n < Len(chunk))
  BY DEF WriteChild
<1>5. /\ written = <<>> /\ Len(written) = 0 /\ Len(chunk) \in Nat /\ Len(chunk) > 0
      /\ made \in Int /\ sent \in Int /\ Leaving = Len(chunk) /\ n \in Nat
      /\ made - Len(chunk) \in Int /\ made - Len(chunk) + n \in Int
  BY <1>1, <1>2, <1>3, <1>4 DEF Places, Lengths, Typed, Leaving
<1>6. /\ Run(Take(chunk, n), made - Len(chunk)) /\ Len(Take(chunk, n)) = n
      /\ (Take(chunk, n) = <<>> <=> n = 0)
  <2>1. Run(Take(chunk, n), made - Len(chunk)) /\ Len(Take(chunk, n)) = n
    BY <1>1, <1>4, <1>5, RunCut DEF Outlet
  <2> QED BY <1>5, <2>1, RunLength
<1>7. /\ sent' \in Int /\ (n = 0 => sent' = sent)
      /\ (n # 0 => sent' = made - Len(chunk) + n)
  BY <1>4, <1>5, <1>6, LastHandedOver
<1>8. /\ Len(chunk') = 0 /\ made' = made /\ Leaving' = 0 /\ made - 0 = made
      /\ sent' <= made /\ (~failed' => sent' = made) /\ Run(<<>>, made)
      /\ (~failed' => ~failed)
  <2>1. Len(chunk') = 0 /\ Run(<<>>, made) BY <1>3, <1>5, RunNone
  <2>2. made' = made /\ Leaving' = 0 /\ made - 0 = made
    BY <1>3, <1>5, <2>1 DEF Leaving, converted
  <2>3. sent <= made - Len(chunk) BY <1>1, <1>5 DEF Outlet
  <2>4. sent' <= made BY <1>5, <1>7, <2>3
  <2>5. ~failed' => ~failed /\ n = Len(chunk)
    <3>1. ~failed' => ~failed /\ ~(n < Len(chunk)) BY <1>4, Zenon
    <3>2. ~(n < Len(chunk)) => n = Len(chunk) BY <1>4, <1>5
    <3> QED BY <3>1, <3>2, Zenon
  <2>6. ~failed' => sent' = made BY <1>5, <1>7, <2>5
  <2> QED BY <2>1, <2>2, <2>4, <2>5, <2>6
<1>9. Typed'
  BY <1>1, <1>3, <1>7, Sizes DEF Typed, config, upstream, converted
<1>10. Places'
  BY <1>1, <1>3, <1>5 DEF Places, Pulls, Resampling, config, upstream
<1>11. Sources'
  BY <1>1, <1>3 DEF Sources, Waiting, upstream, config
<1>12. Port'
  BY <1>1, <1>3, <1>8 DEF Port, Waiting, upstream, converted, config
<1>13. Outlet'
  BY <1>3, <1>5, <1>8 DEF Outlet
<1>14. Counts'
  BY <1>3 DEF Counts
<1>15. Emptied'
  BY <1>3, <1>8, Sizes DEF Emptied, Pulls, PerRead, Resampling, config
<1>16. Heard'
  BY <1>1, <1>3 DEF Heard, config
<1>17. KeepsRatio => Phase'
  BY <1>1, <1>3, <1>8 DEF Phase, Resampling, config, converted
<1> QED BY <1>9, <1>10, <1>11, <1>12, <1>13, <1>14, <1>15, <1>16, <1>17 DEF DcInv

LEMMA WriteFailsStep ==
  ASSUME DcInv, WriteFails
  PROVE  DcInv'
<1>1. /\ Typed /\ Places /\ Sources /\ Port /\ Outlet /\ Counts /\ Emptied /\ Heard
      /\ (KeepsRatio => Phase)
  BY DEF DcInv
<1>2. Lengths BY InvLengths
<1>3. /\ chunk' = <<>> /\ pc = "deliver" /\ pc' = "idle" /\ asked' = 0 /\ failed' = TRUE
      /\ path = "outputWrite" /\ ~Pulls
      /\ UNCHANGED <<config, want, got, need, pulled, upstream, converted, written, sent,
                      mCallbackResult, answer, stopped>>
  BY DEF WriteFails, Empty, Pulls
<1>4. /\ written = <<>> /\ Len(written) = 0 /\ Len(chunk) \in Nat
      /\ made \in Int /\ sent \in Int /\ Leaving = Len(chunk)
  BY <1>1, <1>2, <1>3 DEF Places, Lengths, Typed, Leaving
<1>5. /\ Len(chunk') = 0 /\ made' = made /\ Leaving' = 0 /\ made - 0 = made
      /\ sent' <= made /\ Run(<<>>, made)
  <2>1. Len(chunk') = 0 /\ Run(<<>>, made) BY <1>3, <1>4, RunNone
  <2>2. made' = made /\ Leaving' = 0 /\ made - 0 = made
    BY <1>3, <1>4, <2>1 DEF Leaving, converted
  <2>3. sent <= made BY <1>1, <1>4 DEF Outlet
  <2> QED BY <1>3, <2>1, <2>2, <2>3
<1>6. Typed'
  BY <1>1, <1>3 DEF Typed, config, upstream, converted
<1>7. Places'
  BY <1>1, <1>3, <1>4 DEF Places, Pulls, Resampling, config, upstream
<1>8. Sources'
  BY <1>1, <1>3 DEF Sources, Waiting, upstream, config
<1>9. Port'
  BY <1>1, <1>3 DEF Port, Waiting, upstream, converted, config
<1>10. Outlet'
  BY <1>3, <1>4, <1>5 DEF Outlet
<1>11. Counts'
  BY <1>3 DEF Counts
<1>12. Emptied'
  BY <1>3 DEF Emptied
<1>13. Heard'
  BY <1>1, <1>3 DEF Heard, config
<1>14. KeepsRatio => Phase'
  BY <1>3 DEF Phase
<1> QED BY <1>6, <1>7, <1>8, <1>9, <1>10, <1>11, <1>12, <1>13, <1>14 DEF DcInv

LEMMA WriteRestStep ==
  ASSUME DcInv, WriteRest
  PROVE  DcInv'
<1>1. /\ Typed /\ Places /\ Sources /\ Port /\ Outlet /\ Counts /\ Emptied /\ Heard
      /\ (KeepsRatio => Phase)
  BY DEF DcInv
<1>2. Lengths BY InvLengths
<1>3. /\ chunk' = <<>> /\ written' = chunk /\ pc' = "sink" /\ asked' = PerRead
      /\ Len(chunk) <= block
      /\ (pc = "blocks" \/ written = <<>>)
      /\ UNCHANGED <<config, want, got, need, pulled, upstream, converted, sent,
                      mCallbackResult, answer, stopped, failed>>
  BY DEF WriteRest, AtBlocks, Empty, NextRead, status
<1>4. /\ path = "inputCallback" /\ ~Pulls /\ written = <<>> /\ Len(written) = 0
      /\ Len(chunk) \in Nat /\ made \in Int /\ Leaving = Len(chunk)
      /\ pc \in {"blocks", "deliver"}
  BY <1>1, <1>2, <1>3 DEF WriteRest, AtBlocks, Places, Lengths, Typed, Leaving, Pulls
<1>5. /\ Len(chunk') = 0 /\ made' = made /\ Leaving' = Leaving /\ made - 0 = made
      /\ Run(<<>>, made)
  <2>1. Len(chunk') = 0 /\ Run(<<>>, made) BY <1>3, <1>4, RunNone
  <2>2. made' = made /\ Leaving' = Len(chunk) + 0
    BY <1>3, <2>1 DEF Leaving, converted
  <2> QED BY <1>4, <2>1, <2>2
<1>6. Typed'
  BY <1>1, <1>3, Sizes DEF Typed, config, upstream, converted
<1>7. Places'
  BY <1>1, <1>3, <1>4 DEF Places, Pulls, Resampling, config, upstream
<1>8. Sources'
  BY <1>1, <1>3 DEF Sources, Waiting, upstream, config
<1>9. Port'
  BY <1>1, <1>3 DEF Port, Waiting, upstream, converted, config
<1>10. Outlet'
  BY <1>1, <1>3, <1>4, <1>5 DEF Outlet
<1>11. Counts'
  BY <1>3 DEF Counts
<1>12. Emptied'
  BY <1>3, <1>5, Sizes DEF Emptied, Pulls, PerRead, Resampling, config
<1>13. Heard'
  BY <1>1, <1>3, <1>4 DEF WriteRest, AtBlocks, Heard, config
<1>14. KeepsRatio => Phase'
  BY <1>1, <1>3 DEF Phase, Resampling, config, converted
<1> QED BY <1>6, <1>7, <1>8, <1>9, <1>10, <1>11, <1>12, <1>13, <1>14 DEF DcInv

LEMMA WriteThroughStep ==
  ASSUME DcInv, WriteThrough
  PROVE  DcInv'
<1>1. /\ Typed /\ Places /\ Sources /\ Port /\ Outlet /\ Counts /\ Emptied /\ Heard
      /\ (KeepsRatio => Phase)
  BY DEF DcInv
<1>2. Lengths BY InvLengths
<1>3. /\ chunk' = Drop(chunk, block) /\ pc' = "blocks" /\ Len(chunk) > block
      /\ (pc = "blocks" \/ written = <<>>)
      /\ LastOf(Take(chunk, block)) /\ answer' = mCallbackResult'
      /\ UNCHANGED <<config, asked, want, got, need, pulled, upstream, converted, written,
                      stopped, failed>>
  BY DEF WriteThrough, AtBlocks, CallApp, sinkVars
<1>4. /\ path = "inputCallback" /\ ~Pulls /\ written = <<>> /\ Len(written) = 0
      /\ Len(chunk) \in Nat /\ made \in Int /\ Leaving = Len(chunk) /\ sent \in Int
      /\ pc # "idle" /\ block \in Int /\ block > 0 /\ block \in 0..Len(chunk)
      /\ made - Len(chunk) \in Int
  BY <1>1, <1>2, <1>3, Sizes
     DEF WriteThrough, AtBlocks, Places, Lengths, Typed, Leaving, Pulls
<1>5. /\ Run(Take(chunk, block), made - Len(chunk)) /\ Len(Take(chunk, block)) = block
      /\ Run(Drop(chunk, block), made - Len(chunk) + block)
      /\ Len(Drop(chunk, block)) = Len(chunk) - block
  BY <1>1, <1>4, RunCut DEF Outlet
<1>6. sent' = made - Len(chunk) + block /\ sent' \in Int
  <2>1. Take(chunk, block) # <<>> BY <1>4, <1>5, RunLength
  <2> QED BY <1>3, <1>4, <1>5, <2>1, LastHandedOver
<1>7. /\ Len(chunk') = Len(chunk) - block /\ made' = made /\ written' = <<>>
      /\ Leaving' = Len(chunk) - block
      /\ made - (Len(chunk) - block) = made - Len(chunk) + block
      /\ Run(written', made - Len(chunk) + block)
  <2>1. made - Len(chunk) + block \in Int BY <1>4
  <2>2. Len(chunk') = Len(chunk) - block /\ written' = <<>> /\ Len(written') = 0 /\ made' = made
    BY <1>3, <1>4, <1>5 DEF converted
  <2>3. Leaving' = 0 + (Len(chunk) - block) BY <2>2 DEF Leaving
  <2> QED BY <1>4, <2>1, <2>2, <2>3, RunNone
<1>8. Typed'
  BY <1>1, <1>3, <1>6 DEF Typed, config, upstream, converted
<1>9. Places'
  BY <1>1, <1>3, <1>4, <1>7 DEF WriteThrough, AtBlocks, Places, Pulls, Resampling,
     config, upstream
<1>10. Sources'
  BY <1>1, <1>3 DEF Sources, Waiting, upstream, config
<1>11. Port'
  BY <1>1, <1>3 DEF Port, Waiting, upstream, converted, config
<1>12. Outlet'
  BY <1>3, <1>4, <1>5, <1>6, <1>7 DEF Outlet
<1>13. Counts'
  BY <1>3 DEF Counts
<1>14. Emptied'
  BY <1>3 DEF Emptied
<1>15. Heard'
  BY <1>1, <1>3, <1>4 DEF Heard, config
<1>16. KeepsRatio => Phase'
  BY <1>1, <1>3 DEF Phase, Resampling, config, converted
<1> QED BY <1>8, <1>9, <1>10, <1>11, <1>12, <1>13, <1>14, <1>15, <1>16 DEF DcInv

LEMMA AddToStorageStep ==
  ASSUME DcInv, AddToStorage
  PROVE  DcInv'
<1>1. /\ Typed /\ Places /\ Sources /\ Port /\ Outlet /\ Counts /\ Emptied /\ Heard
      /\ (KeepsRatio => Phase)
  BY DEF DcInv
<1>2. Lengths BY InvLengths
<1> DEFINE k == Min({Len(chunk), block - Len(written)})
           full == written \o Take(chunk, k)
<1>3. /\ pc = "deliver" /\ path = "inputCallback" /\ ~Pulls /\ ~failed
      /\ Len(chunk) \in Nat /\ Len(written) \in Nat /\ Len(chunk) > 0 /\ Len(written) > 0
      /\ made \in Int /\ sent \in Int /\ Leaving = Len(written) + Len(chunk)
      /\ made - Len(chunk) \in Int /\ made - Leaving \in Int
      /\ block \in Int /\ block - Len(written) \in Int /\ Len(written) <= block
      /\ Len(chunk) \in Int
  BY <1>1, <1>2, Sizes DEF AddToStorage, Places, Lengths, Typed, Leaving, Pulls
<1>4. /\ k \in 0..Len(chunk) /\ k <= block - Len(written) /\ k \in Int
      /\ (k = Len(chunk) \/ k = block - Len(written))
  <2>1. /\ k \in Int /\ k <= Len(chunk) /\ k <= block - Len(written)
        /\ (k = Len(chunk) \/ k = block - Len(written))
    BY <1>3, MinOfTwo, Zenon
  <2> HIDE DEF k
  <2> QED BY <1>3, <2>1
<1>5. /\ chunk' = Drop(chunk, k)
      /\ IF Len(full) = block
         THEN LastOf(full) /\ answer' = mCallbackResult' /\ written' = <<>>
         ELSE written' = full /\ UNCHANGED <<sent, mCallbackResult, answer>>
      /\ IF chunk' = <<>> THEN pc' = "sink" /\ asked' = PerRead
                          ELSE pc' = "blocks" /\ asked' = asked
      /\ UNCHANGED <<config, want, got, need, pulled, upstream, converted, stopped, failed>>
  BY DEF AddToStorage, CallApp, NextRead
<1> HIDE DEF k
<1>6. /\ Run(Take(chunk, k), made - Len(chunk)) /\ Len(Take(chunk, k)) = k
      /\ Run(chunk', made - Len(chunk) + k) /\ Len(chunk') = Len(chunk) - k
      /\ (chunk' = <<>> <=> Len(chunk) - k = 0)
  <2>1. /\ Run(Take(chunk, k), made - Len(chunk)) /\ Len(Take(chunk, k)) = k
        /\ Run(chunk', made - Len(chunk) + k) /\ Len(chunk') = Len(chunk) - k
    BY <1>1, <1>3, <1>4, <1>5, RunCut DEF Outlet
  <2>2. made - Len(chunk) + k \in Int BY <1>3, <1>4
  <2> QED BY <2>1, <2>2, RunLength
<1>7. /\ Run(full, made - Leaving) /\ Len(full) = Len(written) + k
      /\ Len(full) \in Int /\ full # <<>>
  <2>1. made - Leaving + Len(written) = made - Len(chunk) BY <1>3
  <2>2. Run(full, made - Leaving) /\ Len(full) = Len(written) + k
    BY <1>1, <1>3, <1>6, <2>1, RunJoin DEF Outlet
  <2> HIDE DEF full
  <2>3. full = <<>> <=> Len(full) = 0 BY <1>3, <2>2, RunLength
  <2> QED BY <1>3, <1>4, <2>2, <2>3
<1> HIDE DEF full
<1>8. /\ made' = made /\ made - (Len(chunk) - k) = made - Len(chunk) + k
      /\ made - Leaving + (Len(written) + k) = made - Len(chunk) + k
      /\ made - Len(chunk) + k \in Int
  BY <1>3, <1>4, <1>5 DEF converted
<1>9. /\ Run(written', made' - Leaving') /\ Len(written') <= block /\ sent' \in Int
      /\ sent' = made' - Leaving'
  <2>1. CASE Len(full) = block
    <3>1. /\ written' = <<>> /\ Len(written') = 0 /\ sent' = made - Leaving + (Len(written) + k)
          /\ sent' \in Int
      BY <1>3, <1>5, <1>7, <2>1, LastHandedOver, RunNone
    <3>2. Leaving' = 0 + (Len(chunk) - k) BY <1>6, <3>1 DEF Leaving
    <3>3. made' - Leaving' = made - Len(chunk) + k BY <1>3, <1>4, <1>8, <3>2
    <3> QED BY <1>3, <1>8, <3>1, <3>3, RunNone
  <2>2. CASE Len(full) # block
    <3>1. written' = full /\ Len(written') = Len(written) + k /\ sent' = sent
      BY <1>5, <1>7, <2>2
    <3>2. Leaving' = (Len(written) + k) + (Len(chunk) - k) BY <1>6, <3>1 DEF Leaving
    <3>3. Leaving' = Leaving BY <1>3, <1>4, <3>2
    <3>4. sent = made - Leaving BY <1>1, <1>3 DEF Outlet
    <3>5. Len(written) + k <= block BY <1>3, <1>4
    <3> QED BY <1>3, <1>7, <1>8, <3>1, <3>3, <3>4, <3>5
  <2> QED BY <2>1, <2>2
<1>10. pc' = "blocks" => written' = <<>>
  <2>1. Len(chunk) - k # 0 => Len(written) + k = block BY <1>3, <1>4
  <2> QED BY <1>5, <1>6, <1>7, <2>1
<1>11. Typed'
  <2>1. asked' \in Int /\ pc' \in {"sink", "blocks"} BY <1>1, <1>5, Sizes DEF Typed
  <2> QED BY <1>1, <1>5, <1>9, <2>1 DEF Typed, config, upstream, converted
<1>12. Places'
  BY <1>1, <1>3, <1>5, <1>9, <1>10 DEF Places, Pulls, Resampling, config, upstream
<1>13. Sources'
  BY <1>1, <1>5 DEF Sources, Waiting, upstream, config
<1>14. Port'
  BY <1>1, <1>5 DEF Port, Waiting, upstream, converted, config
<1>15. Outlet'
  <2>1. made' - Len(chunk') = made - Len(chunk) + k BY <1>3, <1>4, <1>6, <1>8
  <2> QED BY <1>6, <1>9, <2>1 DEF Outlet
<1>16. Counts'
  BY <1>5 DEF Counts
<1>17. Emptied'
  BY <1>3, <1>4, <1>5, <1>6, Sizes DEF Emptied, Pulls, PerRead, Resampling, config
<1>18. Heard'
  BY <1>1, <1>3, <1>5 DEF Heard, config
<1>19. KeepsRatio => Phase'
  BY <1>1, <1>5 DEF Phase, Resampling, config, converted
<1> QED BY <1>11, <1>12, <1>13, <1>14, <1>15, <1>16, <1>17, <1>18, <1>19 DEF DcInv

LEMMA EveryStep == ASSUME DcInv, [DcNext]_dcVars PROVE DcInv'
<1>1. CASE Step
  BY <1>1, SinkPullStep, SinkFullStep, ConvertWriteStep, ConvertReadStep, ConvertPullStep,
     ConvertEndStep, ReadBufferedStep, ReadFromStorageStep, ReadThroughStep, ReloadStep,
     ReadCompleteStep, ProcessFailsStep, PulledBySinkStep, PulledByConverterStep,
     EndPullStep, EndPushStep, WriteChildStep, WriteFailsStep, AddToStorageStep,
     WriteThroughStep, WriteRestStep
  DEF Step
<1>2. CASE Restart BY <1>2, RestartStep
<1>3. CASE \E n \in 1..MaxCall : BeginPull(n) \/ BeginPush(n)
  BY <1>3, BeginPullStep, BeginPushStep
<1>4. CASE UNCHANGED dcVars
  <2>1. /\ Typed' = Typed /\ Places' = Places /\ Sources' = Sources /\ Port' = Port
        /\ Outlet' = Outlet /\ Counts' = Counts /\ Emptied' = Emptied /\ Phase' = Phase
        /\ Heard' = Heard
    BY <1>4 DEF Typed, Places, Sources, Port, Outlet, Counts, Emptied, Phase, Heard, Waiting,
       Leaving, Pulls, PerRead, Resampling, IsWriteNeeded, dcVars, config, sinkVars, upstream,
       converted, downstream, status
  <2> QED BY <2>1 DEF DcInv
<1> QED BY <1>1, <1>2, <1>3, <1>4 DEF DcNext, Done
-----------------------------------------------------------------------------
(* What follows *)

\* The frames of s rise, from above lo and up to hi.
Rising(s, lo, hi) ==
  /\ s \in Seq(Int) /\ lo \in Int /\ hi \in Int /\ lo <= hi
  /\ \A i \in 1..Len(s) : lo < s[i] /\ s[i] <= hi
  /\ Increasing(s)

LEMMA RunRises ==
  ASSUME NEW n \in Int, NEW s, Run(s, n)
  PROVE  Rising(s, n, n + Len(s))
<1>1. Len(s) \in Nat /\ s \in Seq(Int) /\ s = Following(n, Len(s)) BY DEF Run
<1>2. \A i \in 1..Len(s) : s[i] = n + i BY <1>1, FollowingType
<1> QED BY <1>1, <1>2 DEF Rising, Increasing

LEMMA RisingJoin ==
  ASSUME NEW s, NEW t, NEW lo, NEW mid, NEW hi, NEW start, Rising(s, lo, mid),
         Rising(t, start, hi), mid <= start
  PROVE  Rising(s \o t, lo, hi)
<1>1. /\ s \in Seq(Int) /\ t \in Seq(Int) /\ lo \in Int /\ mid \in Int /\ hi \in Int
      /\ start \in Int /\ lo <= mid /\ start <= hi /\ Len(s) \in Nat /\ Len(t) \in Nat
      /\ \A i \in 1..Len(s) : lo < s[i] /\ s[i] <= mid /\ s[i] \in Int
      /\ \A i \in 1..Len(t) : start < t[i] /\ t[i] <= hi /\ t[i] \in Int
      /\ \A i \in 1..(Len(s) - 1) : s[i] < s[i + 1]
      /\ \A i \in 1..(Len(t) - 1) : t[i] < t[i + 1]
  BY DEF Rising, Increasing
<1> DEFINE u == s \o t
<1>2. /\ u \in Seq(Int) /\ Len(u) = Len(s) + Len(t)
      /\ \A i \in 1..Len(s) : u[i] = s[i]
      /\ \A i \in 1..Len(t) : u[Len(s) + i] = t[i]
  BY <1>1, ConcatProperties
<1> HIDE DEF u
<1>3. ASSUME NEW i \in 1..Len(u) PROVE lo < u[i] /\ u[i] <= hi
  <2>1. CASE i <= Len(s)
    <3>1. i \in 1..Len(s) BY <1>1, <1>2, <2>1
    <3>2. lo < s[i] /\ s[i] <= mid /\ s[i] \in Int /\ u[i] = s[i] BY <1>1, <1>2, <3>1
    <3> QED BY <1>1, <3>2
  <2>2. CASE ~(i <= Len(s))
    <3>1. i - Len(s) \in 1..Len(t) /\ i = Len(s) + (i - Len(s)) BY <1>1, <1>2, <2>2
    <3>2. /\ start < t[i - Len(s)] /\ t[i - Len(s)] <= hi /\ t[i - Len(s)] \in Int
          /\ u[i] = t[i - Len(s)]
      BY <1>1, <1>2, <3>1
    <3> QED BY <1>1, <3>2
  <2> QED BY <2>1, <2>2
<1>4. ASSUME NEW i \in 1..(Len(u) - 1) PROVE u[i] < u[i + 1]
  <2>1. CASE i < Len(s)
    <3>1. i \in 1..Len(s) /\ i + 1 \in 1..Len(s) /\ i \in 1..(Len(s) - 1)
      BY <1>1, <1>2, <2>1, SMTT(30)
    <3> QED BY <1>1, <1>2, <3>1
  <2>2. CASE i = Len(s)
    <3>1. i \in 1..Len(s) /\ 1 \in 1..Len(t) BY <1>1, <1>2, <2>2
    <3>2. s[i] <= mid /\ s[i] \in Int /\ start < t[1] /\ t[1] \in Int BY <1>1, <3>1
    <3>3. u[i] = s[i] /\ u[i + 1] = t[1] BY <1>1, <1>2, <2>2, <3>1
    <3> QED BY <1>1, <3>2, <3>3
  <2>3. CASE i > Len(s)
    <3> DEFINE j == i - Len(s)
    <3>1. /\ j \in 1..Len(t) /\ j + 1 \in 1..Len(t) /\ j \in 1..(Len(t) - 1)
          /\ i = Len(s) + j /\ i + 1 = Len(s) + (j + 1)
      BY <1>1, <1>2, <2>3
    <3> HIDE DEF j
    <3>2. u[i] = t[j] /\ u[i + 1] = t[j + 1] BY <1>2, <3>1
    <3> QED BY <1>1, <3>1, <3>2
  <2> QED BY <1>1, <1>2, <2>1, <2>2, <2>3
<1> QED BY <1>1, <1>2, <1>3, <1>4 DEF Rising, Increasing, u

LEMMA OneRises ==
  ASSUME NEW n \in Int
  PROVE  Rising(<<n>>, n - 1, n)
BY DEF Rising, Increasing

LEMMA NoneLost == ASSUME DcInv PROVE NothingLost
<1>1. Typed /\ Places /\ Sources /\ Port /\ Outlet /\ Emptied BY DEF DcInv
<1>2. Lengths BY InvLengths
<1>3. PICK n \in Int :
         /\ Run(entering, n) /\ used <= n /\ n + Len(entering) <= entered - Waiting
         /\ (~failed => used = n /\ n + Len(entering) = entered - Waiting)
  BY <1>1 DEF Port
<1>4. /\ entered \in Int /\ used \in Int /\ made \in Int /\ sent \in Int
      /\ Len(data) \in Nat /\ Len(storage) \in Nat /\ Len(pulled) \in Nat
      /\ Len(entering) \in Nat /\ Len(chunk) \in Nat /\ Len(written) \in Nat
  BY <1>1, <1>2 DEF Typed, Lengths
<1>5. /\ entered - Waiting \in Int
      /\ entered - Waiting + Len(pulled) = entered - Len(data) - Len(storage)
      /\ entered - Len(data) - Len(storage) + Len(storage) = entered - Len(data)
      /\ entered - Len(data) + Len(data) = entered
      /\ entered - Len(data) \in Int /\ entered - Len(data) - Len(storage) \in Int
      /\ made - Leaving \in Int /\ made - Leaving + Len(written) = made - Len(chunk)
      /\ made - Len(chunk) \in Int /\ made - Len(chunk) + Len(chunk) = made
  BY <1>4 DEF Waiting, Leaving
<1>6. Increasing(<<used>> \o Upstream)
  <2>1. Rising(entering, n, n + Len(entering)) BY <1>3, RunRises
  <2>2. Rising(pulled, entered - Waiting, entered - Len(data) - Len(storage))
    BY <1>1, <1>5, RunRises DEF Sources
  <2>3. Rising(storage, entered - Len(data) - Len(storage), entered - Len(data))
    BY <1>1, <1>5, RunRises DEF Sources
  <2>4. Rising(data, entered - Len(data), entered)
    BY <1>1, <1>5, RunRises DEF Sources
  <2>5. Rising(entering \o pulled, n, entered - Len(data) - Len(storage))
    BY <1>3, <2>1, <2>2, RisingJoin
  <2>6. Rising(entering \o pulled \o storage, n, entered - Len(data))
    BY <1>5, <2>3, <2>5, RisingJoin
  <2>7. Rising(Upstream, n, entered) BY <1>5, <2>4, <2>6, RisingJoin DEF Upstream
  <2>8. Rising(<<used>>, used - 1, used) BY <1>4, OneRises
  <2>9. Rising(<<used>> \o Upstream, used - 1, entered) BY <1>3, <2>7, <2>8, RisingJoin
  <2> QED BY <2>9 DEF Rising
<1>7. Increasing(<<sent>> \o Downstream)
  <2>1. Rising(written, made - Leaving, made - Len(chunk))
    BY <1>1, <1>5, RunRises DEF Outlet
  <2>2. Rising(chunk, made - Len(chunk), made) BY <1>1, <1>5, RunRises DEF Outlet
  <2>3. Rising(Downstream, made - Leaving, made)
    BY <1>5, <2>1, <2>2, RisingJoin DEF Downstream
  <2>4. Rising(<<sent>>, sent - 1, sent) BY <1>4, OneRises
  <2>5. Rising(<<sent>> \o Downstream, sent - 1, made)
    BY <1>1, <2>3, <2>4, RisingJoin DEF Outlet
  <2> QED BY <2>5 DEF Rising
<1>8. ASSUME ~failed PROVE Upstream = Following(used, entered - used)
  <2> DEFINE s1 == entering \o pulled
             s2 == s1 \o storage
             s3 == s2 \o data
  <2>1. /\ Run(entering, used) /\ used + Len(entering) = entered - Waiting BY <1>3, <1>8
  <2>2. Run(s1, used) /\ Len(s1) = Len(entering) + Len(pulled)
    BY <1>1, <1>4, <2>1, RunJoin DEF Sources
  <2> HIDE DEF s1
  <2>3. used + Len(s1) = entered - Len(data) - Len(storage) BY <1>4, <1>5, <2>1, <2>2, SMTT(30)
  <2>4. Run(s2, used) /\ Len(s2) = Len(s1) + Len(storage)
    BY <1>1, <1>4, <2>2, <2>3, RunJoin, SMTT(30) DEF Sources
  <2> HIDE DEF s2
  <2>5. used + Len(s2) = entered - Len(data) BY <1>4, <1>5, <2>2, <2>3, <2>4
  <2>6. Run(s3, used) /\ Len(s3) = Len(s2) + Len(data)
    BY <1>1, <1>4, <2>4, <2>5, RunJoin DEF Sources
  <2>7. Len(s3) = entered - used BY <1>4, <1>5, <2>2, <2>4, <2>5, <2>6
  <2>8. Upstream = s3 BY DEF Upstream, s1, s2
  <2> HIDE DEF s3
  <2> QED BY <2>6, <2>7, <2>8 DEF Run
<1>9. ASSUME ~failed PROVE Downstream = Following(sent, made - sent)
  <2>1. Run(written, sent) /\ sent = made - Leaving BY <1>1, <1>9 DEF Outlet
  <2>2. sent + Len(written) = made - Len(chunk) BY <1>5, <2>1
  <2>3. Run(Downstream, sent) /\ Len(Downstream) = Len(written) + Len(chunk)
    BY <1>1, <1>4, <2>1, <2>2, RunJoin DEF Outlet, Downstream
  <2>4. Len(written) + Len(chunk) = made - sent BY <1>4, <2>2
  <2> QED BY <2>3, <2>4 DEF Run
<1>10. ASSUME ~failed, pc = "idle", ~Pulls
       PROVE  /\ used = entered
              /\ made - sent <= IF path = "inputCallback" THEN block ELSE 0
  <2>1. data = <<>> /\ entering = <<>> /\ pulled = <<>> /\ storage = <<>> /\ chunk = <<>>
    BY <1>1, <1>10 DEF Emptied, Places
  <2>2. /\ Len(data) = 0 /\ Len(entering) = 0 /\ Len(pulled) = 0 /\ Len(storage) = 0
        /\ Len(chunk) = 0
    BY <1>2, <2>1 DEF Lengths
  <2>3. used = entered BY <1>3, <1>4, <1>10, <2>2 DEF Waiting
  <2>4. made - sent = Len(written) BY <1>1, <1>4, <1>10, <2>2 DEF Outlet, Leaving
  <2>5. /\ Len(written) <= block
        /\ (path # "inputCallback" => Len(written) = 0)
    BY <1>1, <1>2 DEF Places, Lengths
  <2> QED BY <1>4, <2>3, <2>4, <2>5
<1> QED BY <1>6, <1>7, <1>8, <1>9, <1>10 DEF NothingLost

LEMMA Times == \A a, b \in Int : a * b = b * a /\ a * b \in Int
OBVIOUS

LEMMA TimesAssociates == \A a, b, c \in Int : a * (b * c) = (a * b) * c
OBVIOUS

LEMMA TimesMonotonic ==
  \A k \in Nat \ {0}, x, y \in Int : x <= y => k * x <= k * y /\ (x < y => k * x < k * y)
OBVIOUS

\* Two ratios that are equal order numbers alike.
LEMMA RatiosOrder ==
  ASSUME NEW p \in Nat \ {0}, NEW q \in Nat \ {0}, NEW a \in Nat \ {0}, NEW b \in Nat \ {0},
         p * b = q * a, NEW u \in Int, NEW m \in Int, q * u <= p * m
  PROVE  b * u <= a * m
<1> SUFFICES ASSUME ~(b * u <= a * m) PROVE FALSE OBVIOUS
<1>0. p \in Int /\ q \in Int /\ a \in Int /\ b \in Int OBVIOUS
<1>1. b * u \in Int /\ a * m \in Int /\ q * u \in Int /\ p * m \in Int BY Times
<1>2. q * (a * m) < q * (b * u)
  <2> DEFINE x == a * m
             y == b * u
  <2>1. x \in Int /\ y \in Int /\ x <= y /\ x < y BY <1>1
  <2> HIDE DEF x, y
  <2>2. q * x < q * y BY <2>1, TimesMonotonic
  <2> QED BY <2>2 DEF x, y
<1>3. b * (q * u) <= b * (p * m)
  <2> DEFINE x == q * u
             y == p * m
  <2>1. x \in Int /\ y \in Int /\ x <= y BY <1>1
  <2> HIDE DEF x, y
  <2>2. b * x <= b * y BY <2>1, TimesMonotonic
  <2> QED BY <2>2 DEF x, y
<1>4. q * (a * m) = b * (p * m)
  <2>1. q * (a * m) = (q * a) * m BY <1>0, TimesAssociates, ZenonT(40)
  <2>2. b * (p * m) = (b * p) * m BY <1>0, TimesAssociates, ZenonT(40)
  <2>3. b * p = p * b BY <1>0, Times, Zenon
  <2> QED BY <2>1, <2>2, <2>3, Zenon
<1>5. q * (b * u) = b * (q * u)
  <2>1. q * (b * u) = (q * b) * u BY <1>0, TimesAssociates, ZenonT(40)
  <2>2. b * (q * u) = (b * q) * u BY <1>0, TimesAssociates, ZenonT(40)
  <2>3. b * q = q * b BY <1>0, Times, Zenon
  <2> QED BY <2>1, <2>2, <2>3, Zenon
<1>6. q * (a * m) \in Int /\ b * (q * u) \in Int BY <1>1, Times
<1> DEFINE x == q * (a * m)
           y == b * (q * u)
<1>7. x < y /\ y <= x /\ x \in Int /\ y \in Int BY <1>2, <1>3, <1>4, <1>5, <1>6, Zenon
<1> HIDE DEF x, y
<1> QED BY <1>7

LEMMA NoneDrifts == ASSUME DcInv, KeepsRatio PROVE NoDrift
<1>1. Typed /\ Phase BY DEF DcInv
<1> SUFFICES ASSUME ~failed
             PROVE  IF Resampling THEN /\ rate[2] * (used - 1) <= rate[1] * made
                                       /\ rate[1] * (made - 1) < rate[2] * used
                    ELSE used = made
  BY Zenon DEF NoDrift
<1>2. CASE ~Resampling BY <1>1, <1>2 DEF Phase
<1>3. CASE Resampling
  <2> DEFINE p == ratio[1]
             q == ratio[2]
             a == rate[1]
             b == rate[2]
             x == mIntegerPhase
  <2>1. /\ p \in Nat \ {0} /\ q \in Nat \ {0} /\ p * b = q * a
        /\ used \in Int /\ made \in Int
    BY <1>1 DEF KeepsRatio, Keeps, Typed
  <2>2. a \in Nat \ {0} /\ b \in Nat \ {0} BY <1>1, RatesAssumption DEF Typed
  <2>3. x = q + p * made - q * used /\ 0 <= x /\ x < p + q BY <1>1, <1>3 DEF Phase
  <2> HIDE DEF p, q, a, b, x
  <2>4. /\ p * made \in Int /\ q * used \in Int
        /\ q * (used - 1) = q * used - q /\ p * (made - 1) = p * made - p
    BY <2>1
  <2>5. q * (used - 1) <= p * made /\ ~(q * used <= p * (made - 1))
    <3> DEFINE m == p * made
               u == q * used
    <3>1. x = q + m - u /\ 0 <= x /\ x < p + q /\ m \in Int /\ u \in Int BY <2>3, <2>4
    <3> HIDE DEF m, u
    <3>2. u - q <= m /\ ~(u <= m - p) BY <2>1, <3>1
    <3> QED BY <2>4, <3>2 DEF m, u
  <2>6. used - 1 \in Int /\ made - 1 \in Int BY <2>1
  <2>7. b * (used - 1) <= a * made BY <2>1, <2>2, <2>5, <2>6, RatiosOrder
  <2>8. ~(b * used <= a * (made - 1))
    <3>1. a * q = b * p
      <4>1. p \in Int /\ q \in Int /\ a \in Int /\ b \in Int BY <2>1, <2>2
      <4> QED BY <2>1, <4>1, Times, Zenon
    <3> QED BY <2>1, <2>2, <2>5, <2>6, <3>1, RatiosOrder
  <2>9. a * (made - 1) \in Int /\ b * used \in Int BY <2>1, <2>2, <2>6, Times
  <2>10. a * (made - 1) < b * used
    <3> DEFINE m == a * (made - 1)
               u == b * used
    <3>1. m \in Int /\ u \in Int /\ ~(u <= m) BY <2>8, <2>9
    <3> HIDE DEF m, u
    <3>2. m < u BY <3>1
    <3> QED BY <3>2 DEF m, u
  <2> QED BY <1>3, <2>7, <2>10 DEF a, b
<1> QED BY <1>2, <1>3

\* For all rates, sizes and calls: however calls, blocks and ports divide the frames,
\* and whatever fails, no frame is converted or handed over twice or after a later
\* one, and without a Stop, an error or a short write each is accounted for
\* (FilterAudioStream.cpp, DataConversionFlowGraph.cpp and the block adapters).
THEOREM FramesInHand == DcSpec => []NothingLost
<1>1. DcInit => DcInv BY Opened
<1>2. DcInv /\ [DcNext]_dcVars => DcInv' BY EveryStep
<1>3. DcInv => NothingLost BY NoneLost
<1> QED BY <1>1, <1>2, <1>3, PTL DEF DcSpec

\* And over any length of time as many frames leave the resampler as the rates say,
\* when the ratio it counts by is that of the rates (IntegerRatio.cpp).
THEOREM FramesInRatio == ASSUME KeepsRatio PROVE DcSpec => []FramesAccounted
<1>1. DcInit => DcInv BY Opened
<1>2. DcInv /\ [DcNext]_dcVars => DcInv' BY EveryStep
<1>3. DcInv => FramesAccounted BY NoneLost, NoneDrifts DEF FramesAccounted
<1> QED BY <1>1, <1>2, <1>3, PTL DEF DcSpec

\* For all of them: the child is told to stop if the application's last answer is
\* Stop, though the adapters may have called it for several blocks or for none, and
\* an output stream stops for no other reason (DataConversionFlowGraph.cpp).
THEOREM LastAnswerCounts == DcSpec => []StopIsHeard
<1>1. DcInit => DcInv BY Opened
<1>2. DcInv /\ [DcNext]_dcVars => DcInv' BY EveryStep
<1>3. DcInv => StopIsHeard BY DEF DcInv, Heard, StopIsHeard
<1> QED BY <1>1, <1>2, <1>3, PTL DEF DcSpec
=============================================================================
