----------------------------- MODULE AAudioLoading -----------------------------
(***************************************************************************)
(* How the functions of libaaudio are found at run time: AAudioLoader for  *)
(* the API, AAudioExtensions for its MMAP functions, and the calls that    *)
(* threads make through the pointers when they open a stream.  Nothing is  *)
(* locked.  Functions that are loaded and used together are one here.      *)
(***************************************************************************)
EXTENDS Integers, Sequences, SequencesExt

CONSTANTS AlUser,     \* threads that open a stream
          AlDevices,  \* sdk: its level, symbols: what its libaaudio has
          AlOpens     \* streams each thread opens

\* The API of Android O is there from O on.
ASSUME AAudioLoadingAssumption ==
  /\ AlOpens \in Nat
  /\ \A d \in AlDevices :
       /\ d.sdk \in Nat
       /\ d.sdk >= 26 => /\ {"builder", "stream"} \subseteq d.symbols
                        /\ {"setChannelCount", "setSamplesPerFrame"} \cap d.symbols # {}
                        /\ {"getChannelCount", "getSamplesPerFrame"} \cap d.symbols # {}

VARIABLES
  alDevice,
  mLibHandle,  \* BOOLEAN: libaaudio is open
  loaded,      \* the pointers of AAudioLoader that are not null
  extensions,  \* those of AAudioExtensions
  alPc,        \* of each thread: where it is in openStream()
  loading,     \* of each thread: its place in open(), 0 outside of it
  made         \* streams each thread has opened

alVars == <<alDevice, mLibHandle, loaded, extensions, alPc, loading, made>>

HasLibrary == alDevice.sdk >= 26  \* Android O

\* The statements of open(), in their order: an older name is tried where there
\* is one, and functions of later levels only from these on.
Loads == <<[to |-> "builder", names |-> {"builder"}, since |-> 26],
           [to |-> "setChannels", names |-> {"setChannelCount", "setSamplesPerFrame"},
            since |-> 26],
           [to |-> "usage", names |-> {"usage"}, since |-> 28],
           [to |-> "packageName", names |-> {"packageName"}, since |-> 31],
           [to |-> "stream", names |-> {"stream"}, since |-> 26],
           [to |-> "getChannels", names |-> {"getChannelCount", "getSamplesPerFrame"},
            since |-> 26],
           [to |-> "getUsage", names |-> {"usage"}, since |-> 28]>>

Finds(load) == alDevice.sdk >= load.since /\ load.names \cap alDevice.symbols # {}

AlInit == /\ alDevice \in AlDevices /\ mLibHandle = FALSE /\ loaded = {} /\ extensions = {}
          /\ alPc = [u \in AlUser |-> "idle"] /\ loading = [u \in AlUser |-> 0]
          /\ made = [u \in AlUser |-> 0]

-----------------------------------------------------------------------------
AlGo(u, pc) == alPc' = [alPc EXCEPT ![u] = pc]

\* AAudioLoader::open(), of a thread that goes on at pc when it has returned, or
\* at without when there is no library.
LoaderOpen(u, pc, without) ==
  IF HasLibrary THEN /\ AlGo(u, pc)
                     /\ loading' = [loading EXCEPT ![u] = IF mLibHandle THEN 0 ELSE 1]
  ELSE AlGo(u, without) /\ UNCHANGED loading

\* dlopen(): the handle is set before the pointers are.
DlOpen(u) == /\ loading[u] = 1 /\ mLibHandle' = TRUE
             /\ loading' = [loading EXCEPT ![u] = 2]
             /\ UNCHANGED <<alDevice, loaded, extensions, alPc, made>>

\* load_...(): one dlsym(), or two.
LoadNext(u) ==
  /\ loading[u] > 1
  /\ LET load == Loads[loading[u] - 1]
     IN loaded' = IF Finds(load) THEN loaded \cup {load.to} ELSE loaded
  /\ loading' = [loading EXCEPT ![u] = IF @ > Len(Loads) THEN 0 ELSE @ + 1]
  /\ UNCHANGED <<alDevice, mLibHandle, extensions, alPc, made>>

AlAt(u, pc) == alPc[u] = pc /\ loading[u] = 0

\* isAAudioSupported(), when AAudio may be chosen.  Else it is OpenSL ES.
IsSupported(u) == /\ AlAt(u, "idle") /\ made[u] < AlOpens
                  /\ LoaderOpen(u, "extensions", "opensl")
                  /\ UNCHANGED <<alDevice, mLibHandle, loaded, extensions, made>>

\* isMMapEnabled(), also before a stream of OpenSL ES.  The last pointer to be
\* loaded says that all are; loadSymbols() does not trust that open() was called.
LastFirst == <<"getMMapPolicy", "isMMapUsed", "setMMapPolicy">>
Symbols == <<"isMMapUsed", "setMMapPolicy", "getMMapPolicy">>

LoadSymbols(u) ==
  /\ \/ AlAt(u, "extensions") /\ IF "getMMapPolicy" \in extensions
                                 THEN AlGo(u, "mmap") /\ UNCHANGED loading
                                 ELSE LoaderOpen(u, "symbol1", "opensl")
     \/ AlAt(u, "opensl") /\ LoaderOpen(u, "symbol1", "done")
  /\ UNCHANGED <<alDevice, mLibHandle, loaded, extensions, made>>

\* Then the stream is opened: one of AAudio, or of OpenSL ES.
AfterMMap == {"configure", "done"}
PcOf == <<"symbol1", "symbol2", "symbol3", "mmap">>

LoadSymbol(u) ==
  \E i \in 1..3 :
    /\ AlAt(u, PcOf[i])
    /\ IF Symbols[i] \in alDevice.symbols
       THEN extensions' = extensions \cup {Symbols[i]} /\ AlGo(u, PcOf[i + 1])
       ELSE (\E pc \in AfterMMap : AlGo(u, pc)) /\ UNCHANGED extensions
    /\ UNCHANGED <<alDevice, mLibHandle, loaded, loading, made>>

\* The calls: the policy is read, perhaps set, and restored; the builder is used,
\* then the stream asked; open() tests each pointer that may be null.
CallMMap(u) == AlAt(u, "mmap") /\ \E pc \in AfterMMap : AlGo(u, pc)
Configure(u) == AlAt(u, "configure") /\ AlGo(u, "query")
QueryStream(u) == AlAt(u, "query") /\ AlGo(u, "done")
Call(u) == /\ CallMMap(u) \/ Configure(u) \/ QueryStream(u)
           /\ UNCHANGED <<alDevice, mLibHandle, loaded, extensions, loading, made>>

AlDone(u) == /\ AlAt(u, "done") /\ AlGo(u, "idle") /\ made' = [made EXCEPT ![u] = @ + 1]
             /\ UNCHANGED <<alDevice, mLibHandle, loaded, extensions, loading>>

AlNext == \E u \in AlUser : DlOpen(u) \/ LoadNext(u) \/ IsSupported(u) \/ LoadSymbols(u)
                              \/ LoadSymbol(u) \/ Call(u) \/ AlDone(u)

AlSpec == AlInit /\ [][AlNext]_alVars

-----------------------------------------------------------------------------
\* What a thread calls where it is
Calls(u) == CASE AlAt(u, "configure") -> {"builder", "setChannels"} \cup
                                           (loaded \cap {"usage", "packageName"})
              [] AlAt(u, "query") -> {"stream", "getChannels"} \cup (loaded \cap {"getUsage"})
              [] OTHER -> {}

\* No thread calls through a pointer that is null, of an old libaaudio or one
\* without the functions for MMAP, though nothing is locked: those of MMAP are
\* all loaded when one is called, whatever threads race for the first open(),
\* and those of the API are, unless another thread is still in that open()
\* ("It should only be called from one thread", AAudioLoader.h:142).
LoadedBeforeUse ==
  \A u \in AlUser :
    /\ AlAt(u, "mmap") => Range(Symbols) \subseteq extensions
    /\ Calls(u) \subseteq loaded \/ \E other \in AlUser \ {u} : loading[other] > 0
    /\ alPc[u] \in {"mmap", "configure", "query"} => HasLibrary
=============================================================================
