------------------------------ MODULE RhythmGame ------------------------------
(***************************************************************************)
(* RhythmGame: the game that every resume of the activity makes, the       *)
(* threads that load it, the audio thread, taps of the user, and the       *)
(* restart after a disconnect.  Song time is counted in units of 500 ms,   *)
(* and a callback renders one; the window of a tap is its unit.            *)
(***************************************************************************)
EXTENDS LockFreeQueue, Sequences

CONSTANTS RgGames,        \* bounds the games
          RgDisconnects,  \* bounds the disconnects of a game
          RgFrames        \* bounds the units that are rendered

MaxQueueItems == 4

\* LockFreeQueue asserts that its counters tell more items apart than it holds.
ASSUME RgAssumption == /\ {RgGames, RgDisconnects, RgFrames} \subseteq Nat
                       /\ MaxQueueItems < LfqIndex

VARIABLES
  resumes,      \* games that were made
  rgShown,      \* the activity is resumed
  game,         \* the game, see NewGame
  crossed,      \* a game was paused while it was loading or its device went
  disconnects,  \* of this game
  taps,         \* the windows that taps were judged by before a disconnect,
  results,      \* what they gave,
  drawn         \* and how many of those were drawn

rgVars == <<resumes, rgShown, game, crossed, disconnects, taps, results, drawn>>
history == <<taps, results, drawn>>

ClapEvents == <<0, 1, 2>>
ClapWindows == <<4, 5, 6>>

\* loads: where each thread is that runs load().  generation: the load that
\* made the players; mixer: the generations of its tracks; clap: the frames
\* that the clap has yet to play.  erring: the error thread has closed the stream;
\* stopping: what stop() has yet to do.  crashed: a null stream was used.
Loads == 1..(RgDisconnects + 1)
NewGame == [state |-> "loading", stream |-> "none", generation |-> 0, mixer |-> <<>>,
            loads |-> [k \in Loads |-> IF k = 1 THEN "open" ELSE "none"],
            claps |-> Queue(MaxQueueItems), windows |-> Queue(MaxQueueItems),
            events |-> Queue(MaxQueueItems), frame |-> 0, position |-> 0, clap |-> 0,
            erring |-> FALSE, stopping |-> "none", crashed |-> FALSE]

RgInit == /\ resumes = 0 /\ rgShown = FALSE /\ game = NewGame /\ crossed = FALSE
          /\ disconnects = 0 /\ taps = <<>> /\ results = <<>> /\ drawn = 0

Loading == \E k \in Loads : game.loads[k] \in {"open", "sources", "schedule", "start"}
-----------------------------------------------------------------------------
(* The activity.  A new game takes the place of one that is not loading:   *)
(* its destructor waits for the load, but for no error thread, which then  *)
(* has lost its game.                                                      *)

OnStart == /\ resumes < RgGames /\ ~rgShown /\ (resumes > 0 => ~Loading)
           /\ game.stopping = "none"
           /\ resumes' = resumes + 1 /\ rgShown' = TRUE
           /\ game' = NewGame /\ disconnects' = 0 /\ UNCHANGED crossed
           /\ taps' = <<>> /\ results' = <<>> /\ drawn' = 0

\* stop, on the UI thread, which asks for the stream once and goes on to use
\* mAudioStream, whatever the load or the error thread makes of it meanwhile.
OnStop == /\ rgShown
          /\ rgShown' = FALSE
          /\ game' = [game EXCEPT !.stopping = IF game.stream = "none" THEN "none" ELSE "stop"]
          /\ crossed' = (crossed \/ Loading \/ game.erring)
          /\ UNCHANGED <<resumes, disconnects, history>>

StopUses(pc, stopped, next) ==
  /\ game.stopping = pc
  /\ game' = IF game.stream = "none" THEN [game EXCEPT !.crashed = TRUE, !.stopping = next]
             ELSE [game EXCEPT !.stream = stopped, !.stopping = next]

StopReset == /\ game.stopping = "reset"
             /\ game' = [game EXCEPT !.stream = "none", !.stopping = "none"]

Stop == /\ \/ StopUses("stop", IF game.stream = "started" THEN "open" ELSE game.stream, "close")
           \/ StopUses("close", "closed", "reset")
           \/ StopReset
        /\ UNCHANGED <<resumes, rgShown, crossed, disconnects, history>>
-----------------------------------------------------------------------------
(* load, on a thread of its own *)

At(k, pc) == resumes > 0 /\ game.loads[k] = pc /\ ~game.crashed
Fails(k) == game' = [game EXCEPT !.state = "failed", !.loads[k] = "done"]
Crashes == game.stream = "none" /\ game' = [game EXCEPT !.crashed = TRUE]

OpenGameStream(k) == /\ At(k, "open")
                 /\ \/ game' = [game EXCEPT !.stream = "open", !.loads[k] = "sources"]
                    \/ Fails(k)

\* The players of the load before are deleted when theirs are made.
SetupAudioSources(k) ==
  /\ At(k, "sources")
  /\ \/ Crashes
     \/ game.stream # "none" /\ Fails(k)
     \/ /\ game.stream # "none"
        /\ game' = [game EXCEPT !.generation = k, !.mixer = @ \o <<k, k>>, !.clap = 0,
                                !.loads[k] = "schedule"]

PushAll(q, three) == Push(Push(Push(q, three[1]), three[2]), three[3])

ScheduleSongEvents(k) ==
  /\ At(k, "schedule")
  /\ game' = [game EXCEPT !.claps = PushAll(@, ClapEvents),
                          !.windows = PushAll(@, ClapWindows), !.loads[k] = "start"]

RequestStart(k) ==
  /\ At(k, "start")
  /\ \/ Crashes
     \/ game.stream # "none" /\ Fails(k)
     \/ game.stream = "open" /\ game' = [game EXCEPT !.stream = "started", !.loads[k] = "playing"]

SetPlaying(k) == /\ At(k, "playing")
                 /\ game' = [game EXCEPT !.state = "playing", !.loads[k] = "done"]

Load == /\ \E k \in Loads : \/ OpenGameStream(k) \/ SetupAudioSources(k) \/ ScheduleSongEvents(k)
                            \/ RequestStart(k) \/ SetPlaying(k)
        /\ UNCHANGED <<resumes, rgShown, crossed, disconnects, history>>

\* The device goes: the error thread stops and closes the stream, and calls
\* onErrorAfterClose some time later.
Disconnects == /\ game.stream = "started" /\ disconnects < RgDisconnects
              /\ game' = [game EXCEPT !.stream = "closed", !.erring = TRUE]
              /\ crossed' = (crossed \/ ~rgShown)
              /\ disconnects' = disconnects + 1
              /\ taps' = <<>> /\ results' = <<>> /\ drawn' = 0
              /\ UNCHANGED <<resumes, rgShown>>

\* start() begins a load before it waits for the last one.
ErrorKeepsTracks ==
  /\ game.erring
  /\ game' = [game EXCEPT !.erring = FALSE, !.state = "loading", !.stream = "none",
                !.frame = 0, !.position = 0, !.loads[disconnects + 1] = "open"]
  /\ UNCHANGED <<resumes, rgShown, crossed, disconnects, history>>
OnErrorAfterClose ==
  /\ game.erring
  /\ game' = [game EXCEPT !.erring = FALSE, !.state = "loading", !.stream = "none", !.mixer = <<>>,
                !.frame = 0, !.position = 0, !.loads[disconnects + 1] = "open"]
  /\ UNCHANGED <<resumes, rgShown, crossed, disconnects, history>>
-----------------------------------------------------------------------------
(* The audio thread, the user's taps and the thread that draws *)

ClapLength == 1

\* onAudioReady for a unit, with the render of the clap; the song goes on.
GameAudioReady ==
  LET due == ~IsEmpty(game.claps) /\ Oldest(game.claps) <= game.frame
      clap == IF due THEN ClapLength ELSE game.clap
  IN /\ game.stream = "started" /\ game.frame < RgFrames
     /\ game' = [game EXCEPT !.position = game.frame, !.frame = @ + 1,
                             !.claps = IF due THEN Popped(@) ELSE @,
                             !.clap = IF clap = 0 THEN 0 ELSE clap - 1]
     /\ UNCHANGED <<resumes, rgShown, crossed, disconnects, taps, results, drawn>>

GetTapResult(tap, window) ==
  CASE tap = window -> "success" [] tap < window -> "early" [] tap > window -> "late"

\* tap: the song goes on between the update of the position and the touch.
JudgedTwice(window) == game.windows
Judged(window) == Popped(game.windows)

Tap == /\ rgShown /\ resumes > 0 /\ game.state = "playing"
       /\ IF IsEmpty(game.windows)
          THEN game' = [game EXCEPT !.clap = ClapLength] /\ UNCHANGED <<taps, results>>
          ELSE \E since \in 0..1 :
                 LET window == Oldest(game.windows)
                     result == GetTapResult(game.position + since, window)
                 IN /\ game' = [game EXCEPT !.clap = ClapLength, !.windows = Judged(window),
                                            !.events = Push(@, result)]
                    /\ IF disconnects > 0 THEN UNCHANGED <<taps, results>>
                       ELSE taps' = Append(taps, window) /\ results' = Append(results, result)
       /\ UNCHANGED <<resumes, rgShown, crossed, disconnects, drawn>>

\* tick
Tick == /\ resumes > 0 /\ game.state = "playing" /\ ~IsEmpty(game.events)
        /\ game' = [game EXCEPT !.events = Popped(@)]
        /\ drawn' = IF disconnects > 0 THEN drawn ELSE drawn + 1
        /\ UNCHANGED <<resumes, rgShown, crossed, disconnects, taps, results>>

RgNext == OnStart \/ OnStop \/ Stop \/ Load \/ Disconnects \/ OnErrorAfterClose \/ GameAudioReady
          \/ Tap \/ Tick

RgSpec == RgInit /\ [][RgNext]_rgVars
-----------------------------------------------------------------------------
\* "The inputs to the mixer are not owned by the mixer, they should not be
\* deleted while rendering.": whatever fails to load and whenever the device
\* goes, a stream plays the two players that exist and no others, and when stop()
\* has returned nothing plays.  This is so until a pause and a load, or the end
\* of a stream whose device went, cross: the threads share mAudioStream without
\* a lock, so that one of them uses a stream that is gone, or the load that
\* onErrorAfterClose begins starts one that nobody stops.
RhythmInStep ==
  crossed \/ /\ ~game.crashed
             /\ game.stream = "started" => game.mixer = <<game.generation, game.generation>>
             /\ ~rgShown /\ game.stopping = "none" => game.stream = "none"
             /\ game.state = "failed" => game.stream # "started"

\* "the user only gets one chance": until a disconnect each tap is judged by
\* the window after that of the last, and results are drawn in turn.
TapsInTurn ==
  disconnects = 0 =>
    /\ taps = SubSeq(ClapWindows, 1, Len(taps))
    /\ Contents(game.events) = SubSeq(results, drawn + 1, Len(results))
=============================================================================
