--------------------- MODULE NotifyUserWithRequest_proofs ---------------------
(***************************************************************************)
(* A DMF_NotifyUserWithRequest counts its requests and loses none, gives   *)
(* every datum to at most one request, and lets data and requests meet,    *)
(* for any applications, producers, buffers and data.                      *)
(***************************************************************************)
EXTENDS NotifyUserWithRequest, FiniteSetTheorems, SequenceTheorems, TLAPS

-----------------------------------------------------------------------------
(* The two pools: what is proved of them for DMF_BufferQueue holds here. The *)
(* state of the Modules around them that those proofs are also about is not  *)
(* used.                                                                     *)

Pool == INSTANCE BufferPool_proofs WITH
    phase <- "open", flushing <- FALSE, flushed <- {}, flushedWork <- {},
    clientCallback <- {}, attached <- {}, Callers <- {}, events <- {}, isStopped <- FALSE,
    caller <- <<>>, fetched <- <<>>, wakes <- <<>>, event <- <<>>, status <- <<>>,
    working <- {}, pending <- {}, step <- <<>>, controller <- "idle", executed <- {}

LEMMA PoolAssumption == Pool!SourceAssumption /\ Pool!CallersAssumption
BY SourceAssumption DEF SourceAssumption, Pool!SourceAssumption, Pool!CallersAssumption,
   IsFiniteSet, Pool!IsFiniteSet, Cardinality, Pool!Cardinality

\* The lists of both are the same.
LEMMA ListsAreLists ==
    ASSUME NEW s
    PROVE  /\ Pool!ToSet(s) = ToSet(s)
           /\ Pool!IsInjective(s) <=> IsInjective(s)
           /\ \A e : Pool!RemoveFirst(s, e) = RemoveFirst(s, e)
<1>1. Pool!ToSet(s) = ToSet(s)
  BY DEF ToSet, Pool!ToSet
<1>2. Pool!IsInjective(s) <=> IsInjective(s)
  BY DEF IsInjective, Pool!IsInjective
<1>3. ASSUME NEW e PROVE Pool!RemoveFirst(s, e) = RemoveFirst(s, e)
  BY DEF RemoveFirst, Pool!RemoveFirst, RemoveAt, Pool!RemoveAt,
         SelectInSeq, Pool!SelectInSeq, Min, Pool!Min
<1> QED BY <1>1, <1>2, <1>3

\* A list without duplicates at whose ends, or out of which, elements move.
LEMMA ListMoves ==
    ASSUME NEW S, NEW s \in Seq(S), IsInjective(s), NEW e \in S
    PROVE  /\ e \notin ToSet(s) =>
                 /\ Append(s, e) \in Seq(S) /\ IsInjective(Append(s, e))
                 /\ ToSet(Append(s, e)) = ToSet(s) \cup {e}
                 /\ Len(Append(s, e)) = Len(s) + 1
           /\ e \in ToSet(s) =>
                 /\ RemoveFirst(s, e) \in Seq(S) /\ IsInjective(RemoveFirst(s, e))
                 /\ ToSet(RemoveFirst(s, e)) = ToSet(s) \ {e}
                 /\ Len(RemoveFirst(s, e)) = Len(s) - 1
           /\ s # <<>> =>
                 /\ Tail(s) \in Seq(S) /\ IsInjective(Tail(s)) /\ Head(s) \in ToSet(s)
                 /\ ToSet(Tail(s)) = ToSet(s) \ {Head(s)}
                 /\ Len(Tail(s)) = Len(s) - 1
<1>1. /\ Pool!ToSet(s) = ToSet(s) /\ Pool!IsInjective(s)
      /\ Pool!RemoveFirst(s, e) = RemoveFirst(s, e)
  BY ListsAreLists
<1>2. ASSUME e \notin ToSet(s)
      PROVE  /\ Append(s, e) \in Seq(S) /\ IsInjective(Append(s, e))
             /\ ToSet(Append(s, e)) = ToSet(s) \cup {e}
             /\ Len(Append(s, e)) = Len(s) + 1
  <2>1. /\ Append(s, e) \in Seq(S) /\ Pool!IsInjective(Append(s, e))
        /\ Pool!ToSet(Append(s, e)) = Pool!ToSet(s) \cup {e}
    BY <1>1, <1>2, PoolAssumption, Pool!AppendToSet
  <2> QED BY <1>1, <2>1, ListsAreLists
<1>3. ASSUME e \in ToSet(s)
      PROVE  /\ RemoveFirst(s, e) \in Seq(S) /\ IsInjective(RemoveFirst(s, e))
             /\ ToSet(RemoveFirst(s, e)) = ToSet(s) \ {e}
             /\ Len(RemoveFirst(s, e)) = Len(s) - 1
  <2> DEFINE r == Pool!RemoveFirst(s, e)
  <2>1. e \in Pool!ToSet(s)
    BY <1>1, <1>3
  <2>2. /\ r \in Seq(S) /\ Pool!IsInjective(r) /\ Pool!ToSet(r) = Pool!ToSet(s) \ {e}
        /\ Len(r) = Len(s) - 1
    BY <1>1, <2>1, PoolAssumption, Pool!RemoveFirstToSet
  <2>3. r = RemoveFirst(s, e)
    BY <1>1
  <2> HIDE DEF r
  <2> QED BY <1>1, <2>2, <2>3, ListsAreLists
<1>4. ASSUME s # <<>>
      PROVE  /\ Tail(s) \in Seq(S) /\ IsInjective(Tail(s)) /\ Head(s) \in ToSet(s)
             /\ ToSet(Tail(s)) = ToSet(s) \ {Head(s)}
             /\ Len(Tail(s)) = Len(s) - 1
  <2>1. /\ Head(s) \in Pool!ToSet(s) /\ Tail(s) \in Seq(S)
        /\ Pool!ToSet(s) = Pool!ToSet(Tail(s)) \cup {Head(s)}
        /\ Pool!IsInjective(Tail(s)) /\ Head(s) \notin Pool!ToSet(Tail(s))
    BY <1>1, <1>4, PoolAssumption, Pool!HeadTailToSet
  <2>2. Pool!ToSet(Tail(s)) = ToSet(Tail(s)) /\ IsInjective(Tail(s))
    BY <2>1, ListsAreLists
  <2>3. Len(Tail(s)) = Len(s) - 1
    BY <1>4
  <2> QED BY <1>1, <2>1, <2>2, <2>3
<1> QED BY <1>2, <1>3, <1>4

\* So is what can be said of the pools.
LEMMA PoolIsPool ==
    /\ Pool!PoolInit <=> PoolInit
    /\ Pool!InSink = InSink /\ Pool!InSink' = InSink' /\ Pool!Allocated = Allocated
    /\ Pool!OneOwner <=> OneOwner
<1>1. Pool!PoolInit <=> PoolInit
  BY DEF Pool!PoolInit, PoolInit, Cardinality, Pool!Cardinality
<1>2. Pool!InSink = InSink /\ Pool!Allocated = Allocated /\ Pool!Expiring = Expiring
  BY DEF Pool!InSink, InSink, Pool!Allocated, Allocated, Pool!Expiring, Expiring,
         ToSet, Pool!ToSet
<1>3. Pool!InSink' = InSink'
  BY DEF Pool!InSink, InSink, ToSet, Pool!ToSet
<1>4. Pool!OneOwner <=> OneOwner
  BY <1>2, ListsAreLists DEF Pool!OneOwner, OneOwner
<1> QED BY <1>1, <1>2, <1>3, <1>4

\* And so is what is done to them.
LEMMA MovesAreMoves ==
    ASSUME NEW b \in Buffers
    PROVE  /\ Pool!SourceGet(b) <=> SourceGet(b)
           /\ Pool!SourcePut(b) <=> SourcePut(b)
           /\ Pool!SinkPut(b) <=> SinkPut(b)
           /\ Pool!SinkPutAtHead(b) <=> SinkPutAtHead(b)
           /\ Pool!SinkGet(b) <=> SinkGet(b)
<1>1. Pool!SourceGet(b) <=> SourceGet(b)
  BY PoolIsPool DEF Pool!SourceGet, SourceGet, Pool!GetExisting, GetExisting,
                    Pool!GetNew, GetNew
<1>2. Pool!SourcePut(b) <=> SourcePut(b)
  BY DEF Pool!SourcePut, SourcePut, Pool!timerVars, timerVars
<1>3. /\ Pool!SinkPut(b) <=> SinkPut(b)
      /\ Pool!SinkPutAtHead(b) <=> SinkPutAtHead(b)
  BY DEF Pool!SinkPut, SinkPut, Pool!SinkPutAtHead, SinkPutAtHead,
         Pool!SinkPutIn, SinkPutIn
<1>4. Pool!SinkGet(b) <=> SinkGet(b)
  BY ListsAreLists DEF Pool!SinkGet, SinkGet, Pool!IsNext, IsNext, Pool!CanStop, CanStop,
     Pool!SinkRemove, SinkRemove, Pool!StopTimer, StopTimer
<1> QED BY <1>1, <1>2, <1>3, <1>4

\* No buffer ever has a timer.
PoolsInv == Pool!PoolInv /\ expirationCallback = {}

LEMMA PoolsAreTyped ==
    ASSUME PoolsInv
    PROVE  /\ sink \in Seq(Buffers) /\ held \subseteq Buffers /\ InSink \subseteq Buffers
           /\ InSink \cap held = {} /\ Len(sink) \in Nat
<1>1. sink \in Seq(Buffers)
  BY DEF PoolsInv, Pool!PoolInv, Pool!PoolTypes
<1>2. InSink \subseteq Buffers
  BY <1>1 DEF InSink, ToSet
<1> QED BY <1>1, <1>2, PoolIsPool DEF PoolsInv, Pool!PoolInv, Pool!PoolTypes, Pool!Apart

LEMMA PoolsInitInv ==
    ASSUME PoolInit
    PROVE  PoolsInv /\ InSink = {} /\ sink = <<>> /\ held = {}
<1>1. Pool!PoolInv
  BY PoolIsPool, PoolAssumption, Pool!PoolInitInv
<1> QED BY <1>1 DEF PoolsInv, PoolInit, InSink, ToSet

LEMMA PoolsStay ==
    ASSUME PoolsInv, UNCHANGED poolVars
    PROVE  PoolsInv' /\ UNCHANGED <<sink, held, InSink>>
<1>1. UNCHANGED Pool!poolVars
  BY DEF poolVars, Pool!poolVars, lists, Pool!lists, timerVars, Pool!timerVars
<1>2. Pool!PoolInv'
  BY <1>1, PoolAssumption, Pool!PoolStays DEF PoolsInv
<1> QED BY <1>2 DEF PoolsInv, poolVars, lists, timerVars, InSink

LEMMA SourceGives ==
    ASSUME PoolsInv, NEW b \in Buffers, SourceGet(b)
    PROVE  /\ PoolsInv' /\ b \notin held /\ b \notin InSink
           /\ held' = held \cup {b} /\ UNCHANGED <<sink, InSink>>
<1>1. /\ Pool!PoolInv' /\ b \notin held /\ b \notin InSink
      /\ held' = held \cup {b} /\ UNCHANGED InSink
  BY MovesAreMoves, PoolIsPool, PoolAssumption, Pool!SourceGetMoves DEF PoolsInv
<1> QED BY <1>1 DEF PoolsInv, SourceGet, GetExisting, GetNew

LEMMA SourceTakes ==
    ASSUME PoolsInv, NEW b \in Buffers, SourcePut(b)
    PROVE  /\ PoolsInv' /\ b \in held /\ b \notin InSink
           /\ held' = held \ {b} /\ UNCHANGED <<sink, InSink>>
<1>1. /\ Pool!PoolInv' /\ b \in held /\ b \notin InSink
      /\ held' = held \ {b} /\ UNCHANGED InSink
  BY MovesAreMoves, PoolIsPool, PoolAssumption, Pool!SourcePutMoves DEF PoolsInv
<1> QED BY <1>1 DEF PoolsInv, SourcePut, timerVars

LEMMA SinkTakes ==
    ASSUME PoolsInv, NEW b \in Buffers, SinkPut(b) \/ SinkPutAtHead(b)
    PROVE  /\ PoolsInv' /\ b \in held /\ b \notin InSink
           /\ held' = held \ {b} /\ InSink' = InSink \cup {b} /\ Len(sink') = Len(sink) + 1
<1>1. /\ Pool!PoolInv' /\ b \in held /\ b \notin InSink
      /\ held' = held \ {b} /\ InSink' = InSink \cup {b}
  BY MovesAreMoves, PoolIsPool, PoolAssumption, Pool!SinkPutMoves DEF PoolsInv
<1>2. Len(sink') = Len(sink) + 1
  BY PoolsAreTyped DEF SinkPut, SinkPutAtHead, SinkPutIn
<1>3. expirationCallback' = expirationCallback
  BY DEF SinkPut, SinkPutAtHead
<1> QED BY <1>1, <1>2, <1>3 DEF PoolsInv

LEMMA SinkGives ==
    ASSUME PoolsInv, NEW b \in Buffers, SinkGet(b)
    PROVE  /\ PoolsInv' /\ b \in InSink /\ b \notin held
           /\ held' = held \cup {b} /\ InSink' = InSink \ {b} /\ Len(sink') = Len(sink) - 1
<1>1. /\ Pool!PoolInv' /\ b \in InSink /\ b \notin held
      /\ held' = held \cup {b} /\ InSink' = InSink \ {b}
  BY MovesAreMoves, PoolIsPool, PoolAssumption, Pool!SinkGetMoves DEF PoolsInv
<1>2. sink' = RemoveFirst(sink, b) /\ expirationCallback' = expirationCallback \ {b}
  BY DEF SinkGet, SinkRemove, StopTimer
<1>3. b \in ToSet(sink) /\ IsInjective(sink)
  BY <1>1, ListsAreLists DEF InSink, PoolsInv, Pool!PoolInv, Pool!Apart
<1>4. Len(RemoveFirst(sink, b)) = Len(sink) - 1
  BY <1>3, PoolsAreTyped, ListMoves
<1> QED BY <1>1, <1>2, <1>4 DEF PoolsInv

\* The queue for data has none only when it is empty.
LEMMA NoneToGetIsEmpty ==
    ASSUME PoolsInv, NoneToGet
    PROVE  Len(sink) = 0
<1>1. InSink = {}
  BY DEF NoneToGet, CanStop, PoolsInv
<1>2. \A i \in 1 .. Len(sink) : sink[i] \in InSink
  BY PoolsAreTyped DEF InSink, ToSet
<1> QED BY <1>1, <1>2, PoolsAreTyped

-----------------------------------------------------------------------------
(* The threads.                                                             *)

Places == {"store", "forward", "takeBack", "complete", "retrieve", "count", "answer",
           "putBack", "reuse", "return"}

\* What a thread that runs a Method has at hand.
Frames == [at : Places, buffer : Buffers \cup {NULL}, request : Requests \cup {NULL}, left : Int]

\* It has data, a buffer, a request.
HasData(f) == f.at \in {"store", "retrieve", "count", "answer", "putBack"} /\ f.buffer # NULL
HasInHand(f) == HasData(f) \/ f.at = "reuse"
HasRequest(f) == f.at \in {"takeBack", "forward", "count", "answer"}

\* Where a thread must have a buffer, must have none, and must have a request.
FrameFits(f) ==
    /\ f.at \in {"store", "putBack", "reuse"} => f.buffer # NULL
    /\ f.at \in {"takeBack", "forward", "complete", "return"} => f.buffer = NULL
    /\ HasRequest(f) => f.request \in Requests

ThreadsInv ==
    /\ thread \in [AllThreads -> {Idle} \cup Frames]
    /\ \A t \in AllThreads : FrameFits(thread[t])

Frame(place, b, r, n) == [at |-> place, buffer |-> b, request |-> r, left |-> n]

\* A thread goes on.
Becomes(t, f) ==
    /\ thread'[t] = f
    /\ \A u \in AllThreads \ {t} : thread'[u] = thread[u]
    /\ thread' \in [AllThreads -> {Idle} \cup Frames]

\* What a thread that is not idle has.
LEMMA FrameOf ==
    ASSUME ThreadsInv, NEW t \in AllThreads, ~At(t, "idle")
    PROVE  /\ thread[t] \in Frames
           /\ thread[t].at \in Places
           /\ thread[t].buffer \in Buffers \cup {NULL}
           /\ thread[t].request \in Requests \cup {NULL}
           /\ thread[t].left \in Int
           /\ FrameFits(thread[t])
<1>1. thread[t] \in {Idle} \cup Frames /\ FrameFits(thread[t])
  BY DEF ThreadsInv
<1>2. thread[t] # Idle
  BY DEF At, Idle
<1>3. thread[t] \in Frames
  BY <1>1, <1>2
<1> QED BY <1>1, <1>3 DEF Frames

\* A Method starts, or ends.
LEMMA EnterBecomes ==
    ASSUME ThreadsInv, NEW t \in AllThreads, NEW f \in {Idle} \cup Frames,
           thread' = [thread EXCEPT ![t] = f]
    PROVE  Becomes(t, f)
BY DEF ThreadsInv, Becomes

\* The other assignments to what a thread has at hand.
LEMMA StepBecomes ==
    ASSUME ThreadsInv, NEW t \in AllThreads, ~At(t, "idle"), NEW p \in Places,
           NEW b \in Buffers \cup {NULL}, NEW r \in Requests \cup {NULL}, NEW n \in Int
    PROVE  /\ thread' = [thread EXCEPT ![t].at = p] =>
                 Becomes(t, Frame(p, thread[t].buffer, thread[t].request, thread[t].left))
           /\ thread' = [thread EXCEPT ![t].at = p, ![t].buffer = b] =>
                 Becomes(t, Frame(p, b, thread[t].request, thread[t].left))
           /\ thread' = [thread EXCEPT ![t].at = p, ![t].request = r] =>
                 Becomes(t, Frame(p, thread[t].buffer, r, thread[t].left))
           /\ thread' = [thread EXCEPT ![t].at = p, ![t].left = n] =>
                 Becomes(t, Frame(p, thread[t].buffer, thread[t].request, n))
<1> DEFINE a == thread[t].at
           x == thread[t].buffer
           y == thread[t].request
           z == thread[t].left
<1>1. thread[t] = Frame(a, x, y, z) /\ thread \in [AllThreads -> {Idle} \cup Frames]
  BY FrameOf DEF Frames, Frame, ThreadsInv
<1>2. /\ Frame(p, x, y, z) \in Frames /\ Frame(p, b, y, z) \in Frames
      /\ Frame(p, x, r, z) \in Frames /\ Frame(p, x, y, n) \in Frames
  BY FrameOf DEF Frames, Frame
<1> HIDE DEF a, x, y, z
<1>3. ASSUME NEW f
      PROVE  /\ f = [Frame(a, x, y, z) EXCEPT !.at = p] => f = Frame(p, x, y, z)
             /\ f = [Frame(a, x, y, z) EXCEPT !.at = p, !.buffer = b] => f = Frame(p, b, y, z)
             /\ f = [Frame(a, x, y, z) EXCEPT !.at = p, !.request = r] => f = Frame(p, x, r, z)
             /\ f = [Frame(a, x, y, z) EXCEPT !.at = p, !.left = n] => f = Frame(p, x, y, n)
  BY DEF Frame
<1>4. ASSUME thread' = [thread EXCEPT ![t].at = p]
      PROVE  Becomes(t, Frame(p, x, y, z))
  BY <1>1, <1>2, <1>3, <1>4 DEF Becomes
<1>5. ASSUME thread' = [thread EXCEPT ![t].at = p, ![t].buffer = b]
      PROVE  Becomes(t, Frame(p, b, y, z))
  BY <1>1, <1>2, <1>3, <1>5 DEF Becomes
<1>6. ASSUME thread' = [thread EXCEPT ![t].at = p, ![t].request = r]
      PROVE  Becomes(t, Frame(p, x, r, z))
  BY <1>1, <1>2, <1>3, <1>6 DEF Becomes
<1>7. ASSUME thread' = [thread EXCEPT ![t].at = p, ![t].left = n]
      PROVE  Becomes(t, Frame(p, x, y, n))
  BY <1>1, <1>2, <1>3, <1>7 DEF Becomes
<1> QED BY <1>4, <1>5, <1>6, <1>7 DEF x, y, z

-----------------------------------------------------------------------------
(* Buffers in hand.                                                         *)

HandsInv ==
    /\ \A t \in AllThreads : HasInHand(thread[t]) => thread[t].buffer \in held
    /\ \A t, u \in AllThreads :
          HasInHand(thread[t]) /\ HasInHand(thread[u]) /\ thread[t].buffer = thread[u].buffer
              => t = u

\* The hand of a thread stays as it is, is filled, or is emptied.
LEMMA HandsMove ==
    ASSUME HandsInv, NEW t \in AllThreads, NEW f, Becomes(t, f),
           \/ /\ held' = held
              /\ HasInHand(f) => HasInHand(thread[t]) /\ f.buffer = thread[t].buffer
           \/ /\ f.buffer \notin held /\ held' = held \cup {f.buffer}
              /\ HasInHand(f) /\ ~HasInHand(thread[t])
           \/ /\ HasInHand(thread[t]) /\ ~HasInHand(f)
              /\ held' = held \ {thread[t].buffer}
    PROVE  HandsInv'
<1>1. ASSUME NEW u \in AllThreads, HasInHand(thread'[u])
      PROVE  thread'[u].buffer \in held'
  BY <1>1 DEF HandsInv, Becomes
<1>2. ASSUME NEW u \in AllThreads, NEW v \in AllThreads, HasInHand(thread'[u]),
             HasInHand(thread'[v]), thread'[u].buffer = thread'[v].buffer
      PROVE  u = v
  BY <1>2 DEF HandsInv, Becomes
<1> QED BY <1>1, <1>2 DEF HandsInv

\* Which buffers the threads have data in.
LEMMA InWithThread ==
    /\ \A b : b \in WithThread <=>
           \E t \in AllThreads : HasData(thread[t]) /\ thread[t].buffer = b
    /\ \A b : b \in WithThread' <=>
           \E t \in AllThreads : HasData(thread'[t]) /\ thread'[t].buffer = b
BY DEF WithThread, HasData, At, HasBuffer

LEMMA WithThreadIsHeld ==
    ASSUME HandsInv
    PROVE  WithThread \subseteq held
BY InWithThread DEF HandsInv, HasInHand

\* How they change.
LEMMA WithThreadStays ==
    ASSUME NEW t \in AllThreads, NEW f, Becomes(t, f),
           HasData(f) <=> HasData(thread[t]), HasData(f) => f.buffer = thread[t].buffer
    PROVE  UNCHANGED WithThread
<1>1. \A b : b \in WithThread' <=> b \in WithThread
  BY InWithThread DEF Becomes
<1> QED BY <1>1

LEMMA WithThreadTakes ==
    ASSUME NEW t \in AllThreads, NEW f, Becomes(t, f), ~HasData(thread[t]), HasData(f)
    PROVE  WithThread' = WithThread \cup {f.buffer}
<1>1. \A b : b \in WithThread' <=> b \in WithThread \/ b = f.buffer
  BY InWithThread DEF Becomes
<1> QED BY <1>1

LEMMA WithThreadGives ==
    ASSUME HandsInv, NEW t \in AllThreads, NEW f, Becomes(t, f), HasData(thread[t]), ~HasData(f)
    PROVE  WithThread' = WithThread \ {thread[t].buffer} /\ thread[t].buffer \in WithThread
<1>1. \A b : b \in WithThread' <=> b \in WithThread /\ b # thread[t].buffer
  BY InWithThread DEF Becomes, HandsInv, HasInHand
<1> QED BY <1>1, InWithThread

-----------------------------------------------------------------------------
(* Data.                                                                    *)

\* Where data waits.
Live == InSink \cup WithThread

Gone == delivered \cup overwritten \cup refused

\* DataIsDeliveredOnce, buffer by buffer: what waits in one has not gone
\* anywhere and is in no other.
DataInv ==
    /\ produced \in Nat
    /\ data \in [Buffers -> Nat]
    /\ \A b \in Live : data[b] \in 1 .. produced /\ data[b] \notin Gone
    /\ \A b, c \in Live : data[b] = data[c] => b = c
    /\ delivered \cap overwritten = {} /\ delivered \cap refused = {}
    /\ overwritten \cap refused = {}
    /\ Gone \subseteq 1 .. produced
    /\ \A d \in 1 .. produced : d \in Gone \/ \E b \in Live : data[b] = d

LEMMA DataStays ==
    ASSUME DataInv, UNCHANGED Live, UNCHANGED dataVars
    PROVE  DataInv'
BY DEF DataInv, dataVars, Gone

\* What is written in a buffer waits in it.
LEMMA DataComes ==
    ASSUME DataInv, NEW b \in Buffers,
           \/ /\ b \notin Live /\ overwritten' = overwritten
           \/ /\ b \in Live /\ overwritten' = overwritten \cup {data[b]},
           Live' = Live \cup {b},
           produced' = produced + 1, data' = [data EXCEPT ![b] = produced + 1],
           UNCHANGED <<delivered, refused>>
    PROVE  DataInv'
<1> DEFINE new == produced + 1
<1>1. /\ produced \in Nat /\ new \in Nat /\ 1 .. new = 1 .. produced \cup {new}
      /\ new \notin 1 .. produced
  BY DEF DataInv
<1>2. /\ data' \in [Buffers -> Nat] /\ data'[b] = new
      /\ \A c \in Live \ {b} : data'[c] = data[c]
  BY <1>1 DEF DataInv
<1> HIDE DEF new
<1>3. b \in Live => data[b] \in 1 .. produced /\ data[b] \notin Gone
  BY DEF DataInv
<1>4. Gone' = IF b \in Live THEN Gone \cup {data[b]} ELSE Gone
  BY DEF Gone
<1>5. Gone' \subseteq 1 .. produced
  BY <1>3, <1>4 DEF DataInv
<1>6. \A c \in Live' : data'[c] \in 1 .. new /\ data'[c] \notin Gone'
  BY <1>1, <1>2, <1>4, <1>5 DEF DataInv
<1>7. \A c, d \in Live' : data'[c] = data'[d] => c = d
  BY <1>1, <1>2 DEF DataInv
<1>8. \A d \in 1 .. new : d \in Gone' \/ \E c \in Live' : data'[c] = d
  BY <1>1, <1>2, <1>4 DEF DataInv
<1>9. /\ delivered' \cap overwritten' = {} /\ delivered' \cap refused' = {}
      /\ overwritten' \cap refused' = {}
  BY <1>3 DEF DataInv, Gone
<1> QED BY <1>1, <1>2, <1>5, <1>6, <1>7, <1>8, <1>9 DEF DataInv, new

\* What leaves its buffer goes to a request.
LEMMA DataGoes ==
    ASSUME DataInv, NEW b \in Live, Live' = Live \ {b}, delivered' = delivered \cup {data[b]},
           UNCHANGED <<data, produced, overwritten, refused>>
    PROVE  DataInv'
<1>1. data[b] \in 1 .. produced /\ data[b] \notin Gone
  BY DEF DataInv
<1>2. Gone' = Gone \cup {data[b]}
  BY DEF Gone
<1>3. \A c \in Live' : data'[c] \in 1 .. produced /\ data'[c] \notin Gone'
  BY <1>2 DEF DataInv
<1>4. \A d \in 1 .. produced : d \in Gone' \/ \E c \in Live' : data'[c] = d
  BY <1>2 DEF DataInv
<1>5. /\ delivered' \cap overwritten' = {} /\ delivered' \cap refused' = {}
      /\ overwritten' \cap refused' = {}
  BY <1>1 DEF DataInv, Gone
<1> QED BY <1>1, <1>2, <1>3, <1>4, <1>5 DEF DataInv

\* Data for which there is no buffer is refused.
LEMMA DataIsTurnedAway ==
    ASSUME DataInv, UNCHANGED Live, produced' = produced + 1,
           refused' = refused \cup {produced + 1}, UNCHANGED <<data, delivered, overwritten>>
    PROVE  DataInv'
<1> DEFINE new == produced + 1
<1>1. /\ produced \in Nat /\ new \in Nat /\ 1 .. new = 1 .. produced \cup {new}
      /\ new \notin 1 .. produced
  BY DEF DataInv
<1> HIDE DEF new
<1>2. Gone' = Gone \cup {new} /\ produced' = new /\ refused' = refused \cup {new}
  BY DEF Gone, new
<1>3. /\ delivered' \cap overwritten' = {} /\ delivered' \cap refused' = {}
      /\ overwritten' \cap refused' = {}
  BY <1>1, <1>2 DEF DataInv, Gone
<1>4. \A c \in Live' : data'[c] \in 1 .. new /\ data'[c] \notin Gone'
  BY <1>1, <1>2 DEF DataInv
<1>5. \A d \in 1 .. new : d \in Gone' \/ \E c \in Live' : data'[c] = d
  BY <1>1, <1>2 DEF DataInv
<1>6. Gone' \subseteq 1 .. new
  BY <1>1, <1>2 DEF DataInv
<1> QED BY <1>1, <1>2, <1>3, <1>4, <1>5, <1>6 DEF DataInv

\* What the property says.
LEMMA DataInvIsEnough ==
    ASSUME PoolsInv, DataInv
    PROVE  DataIsDeliveredOnce
<1> DEFINE waiting == {data[b] : b \in InSink \cup WithThread}
           fate == <<waiting, delivered, overwritten, refused>>
<1>1. OneOwner
  BY PoolIsPool, PoolAssumption, Pool!ApartIsOneOwner DEF PoolsInv, Pool!PoolInv
<1>2. \A d : d \in waiting <=> \E b \in Live : data[b] = d
  BY DEF Live
<1> HIDE DEF waiting
<1>3. /\ waiting \cap Gone = {} /\ waiting \cup Gone = 1 .. produced
  <2>1. \A d \in waiting : d \in 1 .. produced /\ d \notin Gone
    BY <1>2 DEF DataInv
  <2>2. Gone \subseteq 1 .. produced /\ \A d \in 1 .. produced : d \in Gone \/ d \in waiting
    BY <1>2 DEF DataInv
  <2> QED BY <2>1, <2>2
<1>4. 1 .. produced = UNION {fate[i] : i \in DOMAIN fate}
  <2>1. UNION {fate[i] : i \in DOMAIN fate} = waiting \cup Gone
    BY DEF Gone
  <2> QED BY <1>3, <2>1
<1>5. ASSUME NEW i \in 1 .. 4, NEW j \in 1 .. 4, i # j PROVE fate[i] \cap fate[j] = {}
  <2>1. (i = 1 \/ i = 2 \/ i = 3 \/ i = 4) /\ (j = 1 \/ j = 2 \/ j = 3 \/ j = 4)
    OBVIOUS
  <2>2. fate[1] = waiting /\ fate[2] = delivered /\ fate[3] = overwritten /\ fate[4] = refused
    OBVIOUS
  <2> HIDE DEF fate
  <2> QED BY <1>3, <1>5, <2>1, <2>2 DEF DataInv, Gone
<1>6. DOMAIN fate = 1 .. 4
  OBVIOUS
<1> QED BY <1>1, <1>4, <1>5, <1>6 DEF DataIsDeliveredOnce, waiting

-----------------------------------------------------------------------------
(* Requests.                                                                *)

\* Where a request is that a thread has.
WithStatus(place) == IF place \in {"takeBack", "forward"} THEN "adding" ELSE "retrieved"

QueueInv ==
    /\ request \in [Requests -> {"application", "adding", "queued", "retrieved", "cancelled"}]
    /\ EventRequestQueue \in Seq(Requests) /\ IsInjective(EventRequestQueue)
    /\ ToSet(EventRequestQueue) = {r \in Requests : request[r] = "queued"}

HoldersInv ==
    /\ \A t \in AllThreads : HasRequest(thread[t]) =>
          request[thread[t].request] = WithStatus(thread[t].at)
    /\ \A t, u \in AllThreads :
          HasRequest(thread[t]) /\ HasRequest(thread[u]) /\ thread[t].request = thread[u].request
              => t = u

RequestsInv == QueueInv /\ HoldersInv

\* A thread's step changes where its own request is, or one that no thread has.
LEMMA HoldersMove ==
    ASSUME ThreadsInv, HoldersInv, NEW t \in AllThreads, NEW f, Becomes(t, f),
           \A r \in Requests :
              \/ request'[r] = request[r]
              \/ HasRequest(thread[t]) /\ r = thread[t].request
              \/ request[r] \in {"application", "queued", "cancelled"},
           HasRequest(f) =>
              /\ request'[f.request] = WithStatus(f.at)
              /\ \/ HasRequest(thread[t]) /\ f.request = thread[t].request
                 \/ request[f.request] \in {"application", "queued", "cancelled"}
    PROVE  HoldersInv'
<1>1. \A u \in AllThreads : HasRequest(thread[u]) =>
         thread[u].request \in Requests /\ request[thread[u].request] \in {"adding", "retrieved"}
  BY DEF ThreadsInv, FrameFits, HoldersInv, WithStatus
<1>2. ASSUME NEW u \in AllThreads, HasRequest(thread'[u])
      PROVE  request'[thread'[u].request] = WithStatus(thread'[u].at)
  <2>1. CASE u = t
    BY <1>2, <2>1 DEF Becomes
  <2>2. CASE u # t
    <3>1. thread'[u] = thread[u] /\ HasRequest(thread[u])
      BY <1>2, <2>2 DEF Becomes
    <3>2. request'[thread[u].request] = request[thread[u].request]
      BY <1>1, <2>2, <3>1 DEF HoldersInv
    <3> QED BY <3>1, <3>2 DEF HoldersInv
  <2> QED BY <2>1, <2>2
<1>3. ASSUME NEW u \in AllThreads, NEW v \in AllThreads, HasRequest(thread'[u]),
             HasRequest(thread'[v]), thread'[u].request = thread'[v].request
      PROVE  u = v
  BY <1>1, <1>3 DEF HoldersInv, Becomes
<1> QED BY <1>2, <1>3 DEF HoldersInv

\* No thread takes part.
LEMMA HoldersStay ==
    ASSUME ThreadsInv, HoldersInv, UNCHANGED thread,
           \A r \in Requests : \/ request'[r] = request[r]
                               \/ request[r] \in {"application", "queued", "cancelled"}
    PROVE  HoldersInv'
<1>1. \A u \in AllThreads : HasRequest(thread[u]) =>
         thread[u].request \in Requests /\ request[thread[u].request] \in {"adding", "retrieved"}
  BY DEF ThreadsInv, FrameFits, HoldersInv, WithStatus
<1> QED BY <1>1 DEF HoldersInv

\* The elements of the queue of requests.
LEMMA QueueIsTyped ==
    ASSUME QueueInv
    PROVE  /\ Len(EventRequestQueue) \in Nat
           /\ EventRequestQueue = <<>> <=> Len(EventRequestQueue) = 0
           /\ EventRequestQueue # <<>> =>
                 /\ Head(EventRequestQueue) \in Requests
                 /\ request[Head(EventRequestQueue)] = "queued"
<1>1. EventRequestQueue \in Seq(Requests)
  BY DEF QueueInv
<1>2. EventRequestQueue # <<>> => Head(EventRequestQueue) \in ToSet(EventRequestQueue)
  BY <1>1 DEF ToSet
<1> QED BY <1>1, <1>2 DEF QueueInv

\* How it changes.
LEMMA QueueStays ==
    ASSUME QueueInv, UNCHANGED EventRequestQueue,
           request' \in [Requests -> {"application", "adding", "queued", "retrieved", "cancelled"}],
           \A r \in Requests : request'[r] = "queued" <=> request[r] = "queued"
    PROVE  QueueInv'
BY DEF QueueInv

LEMMA QueueTakes ==
    ASSUME QueueInv, NEW r \in Requests, request[r] # "queued",
           request' = [request EXCEPT ![r] = "queued"],
           EventRequestQueue' = Append(EventRequestQueue, r)
    PROVE  QueueInv' /\ Len(EventRequestQueue') = Len(EventRequestQueue) + 1
<1>1. r \notin ToSet(EventRequestQueue)
  BY DEF QueueInv
<1>2. /\ EventRequestQueue' \in Seq(Requests) /\ IsInjective(EventRequestQueue')
      /\ ToSet(EventRequestQueue') = ToSet(EventRequestQueue) \cup {r}
      /\ Len(EventRequestQueue') = Len(EventRequestQueue) + 1
  BY <1>1, ListMoves DEF QueueInv
<1> QED BY <1>2 DEF QueueInv

LEMMA QueueGives ==
    ASSUME QueueInv, NEW r \in Requests, request[r] = "queued",
           NEW place \in {"retrieved", "cancelled"},
           request' = [request EXCEPT ![r] = place],
           \/ EventRequestQueue' = RemoveFirst(EventRequestQueue, r)
           \/ /\ EventRequestQueue # <<>> /\ r = Head(EventRequestQueue)
              /\ EventRequestQueue' = Tail(EventRequestQueue)
    PROVE  QueueInv' /\ Len(EventRequestQueue') = Len(EventRequestQueue) - 1
<1>1. r \in ToSet(EventRequestQueue)
  BY DEF QueueInv
<1>2. /\ EventRequestQueue' \in Seq(Requests) /\ IsInjective(EventRequestQueue')
      /\ ToSet(EventRequestQueue') = ToSet(EventRequestQueue) \ {r}
      /\ Len(EventRequestQueue') = Len(EventRequestQueue) - 1
  <2> DEFINE q == EventRequestQueue
  <2>1. q \in Seq(Requests) /\ IsInjective(q)
    BY DEF QueueInv
  <2>2. /\ RemoveFirst(q, r) \in Seq(Requests) /\ IsInjective(RemoveFirst(q, r))
        /\ ToSet(RemoveFirst(q, r)) = ToSet(q) \ {r}
        /\ Len(RemoveFirst(q, r)) = Len(q) - 1
    BY <1>1, <2>1, ListMoves
  <2>3. q # <<>> => /\ Tail(q) \in Seq(Requests) /\ IsInjective(Tail(q))
                    /\ ToSet(Tail(q)) = ToSet(q) \ {Head(q)}
                    /\ Len(Tail(q)) = Len(q) - 1
    BY <2>1, ListMoves
  <2>4. \/ EventRequestQueue' = RemoveFirst(q, r)
        \/ q # <<>> /\ r = Head(q) /\ EventRequestQueue' = Tail(q)
    OBVIOUS
  <2> HIDE DEF q
  <2>5. CASE EventRequestQueue' = RemoveFirst(q, r)
    BY <2>2, <2>5 DEF q
  <2>6. CASE q # <<>> /\ r = Head(q) /\ EventRequestQueue' = Tail(q)
    BY <2>3, <2>6 DEF q
  <2> QED BY <2>4, <2>5, <2>6
<1> QED BY <1>2 DEF QueueInv

-----------------------------------------------------------------------------
(* Counts.                                                                  *)

\* The requests that are queued or will be.
Forwarded == {r \in Requests : \/ request[r] = "queued"
                               \/ \E t \in AllThreads : At(t, "forward") /\ thread[t].request = r}

CountInv ==
    /\ leaked \in Nat
    /\ IsFiniteSet(Counted) /\ EventCountHeld = Cardinality(Counted) + leaked
    /\ IsFiniteSet(Forwarded) /\ Cardinality(Forwarded) <= MaximumNumberOfPendingRequests

LEMMA InCounted ==
    /\ \A r : r \in Counted <=>
           /\ r \in Requests /\ request[r] # "application"
           /\ \A t \in AllThreads : thread[t].at = "answer" => thread[t].request # r
    /\ \A r : r \in Counted' <=>
           /\ r \in Requests /\ request'[r] # "application"
           /\ \A t \in AllThreads : thread'[t].at = "answer" => thread'[t].request # r
BY DEF Counted, At

LEMMA InForwarded ==
    /\ \A r : r \in Forwarded <=>
           /\ r \in Requests
           /\ \/ request[r] = "queued"
              \/ \E t \in AllThreads : thread[t].at = "forward" /\ thread[t].request = r
    /\ \A r : r \in Forwarded' <=>
           /\ r \in Requests
           /\ \/ request'[r] = "queued"
              \/ \E t \in AllThreads : thread'[t].at = "forward" /\ thread'[t].request = r
BY DEF Forwarded, At

\* What is forwarded is counted.
LEMMA ForwardedIsCounted ==
    ASSUME RequestsInv
    PROVE  Forwarded \subseteq Counted
<1> SUFFICES ASSUME NEW r \in Forwarded PROVE r \in Counted
  OBVIOUS
<1>1. r \in Requests /\ request[r] \in {"queued", "adding"}
  BY InForwarded DEF RequestsInv, HoldersInv, HasRequest, WithStatus
<1>2. \A t \in AllThreads : thread[t].at = "answer" => request[thread[t].request] = "retrieved"
  BY DEF RequestsInv, HoldersInv, HasRequest, WithStatus
<1> QED BY <1>1, <1>2, InCounted

LEMMA HeldIsTyped ==
    ASSUME CountInv
    PROVE  EventCountHeld \in Nat
BY FS_CardinalityType DEF CountInv

\* The count, as far as the set does not change.
LEMMA CountStays ==
    ASSUME CountInv, \A x \in Requests : x \in Counted' <=> x \in Counted,
           Forwarded' \subseteq Forwarded, UNCHANGED countVars
    PROVE  CountInv'
<1>1. /\ IsFiniteSet(Forwarded') /\ Cardinality(Forwarded') <= Cardinality(Forwarded)
      /\ Cardinality(Forwarded') \in Nat /\ Cardinality(Forwarded) \in Nat
  BY FS_Subset, FS_CardinalityType DEF CountInv
<1>2. MaximumNumberOfPendingRequests \in Nat
  BY NotifyAssumption DEF NotifyAssumption
<1>3. Counted' = Counted
  BY DEF Counted
<1> QED BY <1>1, <1>2, <1>3 DEF CountInv, countVars

\* A request less: it was taken off the count, or leaks.
LEMMA CountFalls ==
    ASSUME CountInv, NEW r \in Counted, Counted' = Counted \ {r}, Forwarded' \subseteq Forwarded,
           \/ EventCountHeld' = EventCountHeld - 1 /\ leaked' = leaked
           \/ EventCountHeld' = EventCountHeld /\ leaked' = leaked + 1
    PROVE  CountInv'
<1>1. /\ IsFiniteSet(Counted') /\ Cardinality(Counted') = Cardinality(Counted) - 1
      /\ Cardinality(Counted') \in Nat /\ Cardinality(Counted) \in Nat
  BY FS_RemoveElement, FS_CardinalityType DEF CountInv
<1>2. /\ IsFiniteSet(Forwarded') /\ Cardinality(Forwarded') <= Cardinality(Forwarded)
      /\ Cardinality(Forwarded') \in Nat /\ Cardinality(Forwarded) \in Nat
  BY FS_Subset, FS_CardinalityType DEF CountInv
<1>3. MaximumNumberOfPendingRequests \in Nat
  BY NotifyAssumption DEF NotifyAssumption
<1> QED BY <1>1, <1>2, <1>3 DEF CountInv

\* A request more: it is to be forwarded only below the limit.
LEMMA CountRises ==
    ASSUME CountInv, NEW r, r \notin Counted, Counted' = Counted \cup {r},
           Forwarded' \subseteq Counted',
           EventCountHeld' = EventCountHeld + 1, leaked' = leaked,
           IsOverLimit => Forwarded' \subseteq Forwarded
    PROVE  CountInv'
<1>1. /\ IsFiniteSet(Counted') /\ Cardinality(Counted') = Cardinality(Counted) + 1
      /\ Cardinality(Counted') \in Nat /\ Cardinality(Counted) \in Nat
  <2>1. IsFiniteSet(Counted) /\ Cardinality(Counted) \in Nat
    BY FS_CardinalityType DEF CountInv
  <2> QED BY <2>1, FS_AddElement
<1>2. /\ IsFiniteSet(Forwarded') /\ Cardinality(Forwarded') <= Cardinality(Counted')
      /\ Cardinality(Forwarded') \in Nat
  BY <1>1, FS_Subset, FS_CardinalityType
<1>3. IsOverLimit => Cardinality(Forwarded') <= Cardinality(Forwarded)
                     /\ Cardinality(Forwarded) \in Nat
  BY FS_Subset, FS_CardinalityType DEF CountInv
<1>4. MaximumNumberOfPendingRequests \in Nat
  BY NotifyAssumption DEF NotifyAssumption
<1> QED BY <1>1, <1>2, <1>3, <1>4 DEF CountInv, IsOverLimit

\* A list without duplicates is as long as the set of its elements is large.
LEMMA QueueIsForwarded ==
    ASSUME QueueInv, CountInv
    PROVE  Len(EventRequestQueue) <= Cardinality(Forwarded)
<1> DEFINE q == EventRequestQueue
<1>1. q \in Seq(Requests) /\ Len(q) \in Nat /\ IsInjective(q)
  BY DEF QueueInv
<1>2. ToSet(q) \subseteq Forwarded
  BY InForwarded DEF QueueInv
<1>3. ExistsBijection(1 .. Len(q), ToSet(q))
  <2> DEFINE g == [i \in 1 .. Len(q) |-> q[i]]
  <2>1. \A i \in 1 .. Len(q) : q[i] \in ToSet(q)
    BY <1>1 DEF ToSet
  <2>2. \A e \in ToSet(q) : \E i \in 1 .. Len(q) : q[i] = e
    BY <1>1 DEF ToSet
  <2>3. \A i, j \in 1 .. Len(q) : q[i] = q[j] => i = j
    BY <1>1 DEF IsInjective
  <2>4. g \in [1 .. Len(q) -> ToSet(q)] /\ \A i \in 1 .. Len(q) : g[i] = q[i]
    BY <2>1
  <2> HIDE DEF g
  <2>5. IsInjective(g)
    BY <2>3, <2>4 DEF IsInjective
  <2>6. g \in Bijection(1 .. Len(q), ToSet(q))
    BY <2>2, <2>4, <2>5 DEF Bijection, Injection, Surjection
  <2> QED BY <2>6 DEF ExistsBijection
<1>4. IsFiniteSet(1 .. Len(q)) /\ Cardinality(1 .. Len(q)) = Len(q)
  BY <1>1, FS_Interval
<1>5. IsFiniteSet(ToSet(q)) /\ Cardinality(ToSet(q)) = Len(q)
  BY <1>3, <1>4, FS_Bijection
<1>6. Cardinality(ToSet(q)) <= Cardinality(Forwarded)
  BY <1>2, FS_Subset DEF CountInv
<1> QED BY <1>5, <1>6

-----------------------------------------------------------------------------
(* The references and the close.                                            *)

\* Who runs a Method.
Active == {t \in Threads : ~At(t, "idle")}

ActiveInv == IsFiniteSet(Active) /\ references = Cardinality(Active)

\* The thread that closes has nothing but requests, starts when no Method runs,
\* and is to return at least as many requests as wait.
CloserInv ==
    /\ closing \in {"open", "closing", "returning", "closed"}
    /\ thread[Closer].at \in {"idle", "retrieve", "count", "answer", "return"}
    /\ At(Closer, "idle") <=> closing \in {"open", "closing"}
    /\ ~At(Closer, "idle") => Active = {} /\ ~HasBuffer(Closer)
    /\ At(Closer, "retrieve") => Len(EventRequestQueue) <= thread[Closer].left
    /\ At(Closer, "count") \/ At(Closer, "answer") =>
           Len(EventRequestQueue) <= thread[Closer].left - 1
    /\ At(Closer, "return") => Len(EventRequestQueue) = 0
    /\ closing = "closed" => At(Closer, "return")

LifecycleInv == ActiveInv /\ CloserInv

LEMMA CloserIsApart ==
    Closer \in AllThreads /\ Closer \notin Threads /\ Threads \subseteq AllThreads
BY NotifyAssumption DEF NotifyAssumption, AllThreads

LEMMA ThreadsMove ==
    ASSUME ThreadsInv, NEW t \in AllThreads, NEW f, FrameFits(f), Becomes(t, f)
    PROVE  ThreadsInv'
BY DEF ThreadsInv, Becomes

\* A thread goes on, the others and the references stay.
LEMMA LifecycleMoves ==
    ASSUME LifecycleInv, NEW t \in AllThreads, NEW f, Becomes(t, f),
           ~At(t, "idle"), f.at # "idle", UNCHANGED moduleVars,
           t = Closer =>
               /\ f.buffer = NULL
               /\ \/ f.at = "retrieve" /\ Len(EventRequestQueue') <= f.left
                  \/ f.at \in {"count", "answer"} /\ Len(EventRequestQueue') <= f.left - 1
                  \/ f.at = "return" /\ Len(EventRequestQueue') = 0
               /\ closing # "closed"
    PROVE  LifecycleInv'
<1>1. Active' = Active
  BY CloserIsApart DEF Active, At, Becomes
<1>2. CASE t = Closer
  <2>1. thread'[Closer] = f
    BY <1>2 DEF Becomes
  <2> QED BY <1>1, <1>2, <2>1
          DEF LifecycleInv, ActiveInv, CloserInv, At, HasBuffer, moduleVars
<1>3. CASE t # Closer
  <2>1. t \in Active /\ thread'[Closer] = thread[Closer]
    BY <1>3, CloserIsApart DEF Active, Becomes, AllThreads
  <2>2. At(Closer, "idle")
    BY <2>1 DEF LifecycleInv, CloserInv
  <2> QED BY <1>1, <2>1, <2>2 DEF LifecycleInv, ActiveInv, CloserInv, At, moduleVars
<1> QED BY <1>2, <1>3

\* A thread starts a Method.
LEMMA MethodEnters ==
    ASSUME LifecycleInv, NEW t \in Threads, NEW f, Becomes(t, f), f.at # "idle",
           At(t, "idle"), closing = "open", UNCHANGED closing, references' = references + 1
    PROVE  LifecycleInv'
<1>1. Active' = Active \cup {t} /\ t \notin Active
  BY CloserIsApart DEF Active, At, Becomes
<1>2. ActiveInv'
  BY <1>1, FS_AddElement DEF LifecycleInv, ActiveInv
<1>3. thread'[Closer] = thread[Closer]
  BY CloserIsApart DEF Becomes
<1> QED BY <1>2, <1>3 DEF LifecycleInv, CloserInv, At

\* A Method returns.
LEMMA MethodLeaves ==
    ASSUME LifecycleInv, NEW t \in Threads, NEW f, Becomes(t, f), f.at = "idle",
           ~At(t, "idle"), UNCHANGED closing, references' = references - 1
    PROVE  LifecycleInv'
<1>1. Active' = Active \ {t} /\ t \in Active
  BY CloserIsApart DEF Active, At, Becomes
<1>2. ActiveInv'
  BY <1>1, FS_RemoveElement DEF LifecycleInv, ActiveInv
<1>3. thread'[Closer] = thread[Closer]
  BY CloserIsApart DEF Becomes
<1> QED BY <1>1, <1>2, <1>3 DEF LifecycleInv, CloserInv, At

-----------------------------------------------------------------------------
(* Data and requests on their way to each other.                            *)

\* Threads that will look for both, and that have data and will look for a
\* request.
Completing == {t \in Threads : At(t, "complete")}
Taking == {t \in Threads : At(t, "retrieve") /\ HasBuffer(t)}

\* Every request that waits, or every datum, has such a thread coming.
PairInv ==
    /\ raced \in BOOLEAN
    /\ \A t \in Threads : At(t, "putBack") => raced
    /\ \/ raced
       \/ Len(EventRequestQueue) <= Cardinality(Taking) + Cardinality(Completing)
       \/ Len(sink) <= Cardinality(Completing)

\* How many there are.
LEMMA NumbersAreTyped ==
    ASSUME LifecycleInv
    PROVE  /\ IsFiniteSet(Completing) /\ IsFiniteSet(Taking)
           /\ Cardinality(Completing) \in Nat /\ Cardinality(Taking) \in Nat
<1>1. Completing \subseteq Active /\ Taking \subseteq Active
  BY DEF Completing, Taking, Active, At
<1> QED BY <1>1, FS_Subset, FS_CardinalityType DEF LifecycleInv, ActiveInv

LEMMA CompletingMoves ==
    ASSUME LifecycleInv, NEW t \in Threads, NEW f, Becomes(t, f)
    PROVE  /\ f.at = "complete" /\ ~At(t, "complete") =>
                  Cardinality(Completing') = Cardinality(Completing) + 1
           /\ f.at # "complete" /\ At(t, "complete") =>
                  Cardinality(Completing') = Cardinality(Completing) - 1
           /\ f.at = "complete" <=> At(t, "complete") => UNCHANGED Completing
<1>1. f.at = "complete" /\ ~At(t, "complete") =>
          Completing' = Completing \cup {t} /\ t \notin Completing
  BY CloserIsApart DEF Completing, At, Becomes
<1>2. f.at # "complete" /\ At(t, "complete") =>
          Completing' = Completing \ {t} /\ t \in Completing
  BY CloserIsApart DEF Completing, At, Becomes
<1>3. f.at = "complete" <=> At(t, "complete") => UNCHANGED Completing
  BY CloserIsApart DEF Completing, At, Becomes
<1> QED BY <1>1, <1>2, <1>3, NumbersAreTyped, FS_AddElement, FS_RemoveElement

LEMMA TakingMoves ==
    ASSUME LifecycleInv, NEW t \in Threads, NEW f, Becomes(t, f)
    PROVE  /\ f.at = "retrieve" /\ f.buffer # NULL /\ ~(At(t, "retrieve") /\ HasBuffer(t)) =>
                  Cardinality(Taking') = Cardinality(Taking) + 1
           /\ ~(f.at = "retrieve" /\ f.buffer # NULL) /\ At(t, "retrieve") /\ HasBuffer(t) =>
                  Cardinality(Taking') = Cardinality(Taking) - 1
           /\ f.at = "retrieve" /\ f.buffer # NULL <=> At(t, "retrieve") /\ HasBuffer(t) =>
                  UNCHANGED Taking
<1>1. f.at = "retrieve" /\ f.buffer # NULL /\ ~(At(t, "retrieve") /\ HasBuffer(t)) =>
          Taking' = Taking \cup {t} /\ t \notin Taking
  BY CloserIsApart DEF Taking, At, HasBuffer, Becomes
<1>2. ~(f.at = "retrieve" /\ f.buffer # NULL) /\ At(t, "retrieve") /\ HasBuffer(t) =>
          Taking' = Taking \ {t} /\ t \in Taking
  BY CloserIsApart DEF Taking, At, HasBuffer, Becomes
<1>3. f.at = "retrieve" /\ f.buffer # NULL <=> At(t, "retrieve") /\ HasBuffer(t) =>
          UNCHANGED Taking
  BY CloserIsApart DEF Taking, At, HasBuffer, Becomes
<1> QED BY <1>1, <1>2, <1>3, NumbersAreTyped, FS_AddElement, FS_RemoveElement

\* The close is not one of them.
LEMMA NumbersStay ==
    ASSUME (\E f : Becomes(Closer, f)) \/ UNCHANGED thread
    PROVE  /\ UNCHANGED <<Completing, Taking>>
           /\ \A t \in Threads : At(t, "putBack")' => At(t, "putBack")
BY CloserIsApart DEF Completing, Taking, At, HasBuffer, Becomes

\* Where a thread goes that neither has been nor will be one of them.
LEMMA PairStays ==
    ASSUME LifecycleInv, PairInv, NEW t \in AllThreads, NEW f, Becomes(t, f),
           t \in Threads => /\ f.at = "complete" <=> At(t, "complete")
                            /\ f.at = "retrieve" /\ f.buffer # NULL
                                  <=> At(t, "retrieve") /\ HasBuffer(t)
                            /\ f.at # "putBack",
           UNCHANGED raced,
           Len(EventRequestQueue') <= Len(EventRequestQueue), Len(sink') <= Len(sink),
           Len(EventRequestQueue) \in Nat, Len(EventRequestQueue') \in Nat,
           Len(sink) \in Nat, Len(sink') \in Nat
    PROVE  PairInv'
<1>1. UNCHANGED <<Completing, Taking>>
  <2>1. CASE t \in Threads
    BY <2>1, CompletingMoves, TakingMoves
  <2>2. CASE t = Closer
    BY <2>2, NumbersStay
  <2> QED BY <2>1, <2>2 DEF AllThreads
<1>2. \A u \in Threads : At(u, "putBack")' => raced
  BY CloserIsApart DEF PairInv, Becomes, At
<1> QED BY <1>1, <1>2, NumbersAreTyped DEF PairInv

-----------------------------------------------------------------------------
(* The invariant, one action at a time.                                     *)

BuffersInv == PoolsInv /\ HandsInv /\ DataInv
CountsInv == RequestsInv /\ CountInv

NotifyInv == ThreadsInv /\ BuffersInv /\ CountsInv /\ LifecycleInv /\ PairInv

LEMMA LengthsAreTyped ==
    ASSUME BuffersInv, CountsInv
    PROVE  Len(sink) \in Nat /\ Len(EventRequestQueue) \in Nat
BY PoolsAreTyped, QueueIsTyped DEF BuffersInv, CountsInv, RequestsInv

\* A thread goes on with the buffer that it had, if any.
LEMMA BuffersRest ==
    ASSUME BuffersInv, NEW t \in AllThreads, NEW f, Becomes(t, f),
           UNCHANGED <<poolVars, dataVars>>,
           HasData(f) <=> HasData(thread[t]),
           HasInHand(f) => HasInHand(thread[t]) /\ f.buffer = thread[t].buffer
    PROVE  BuffersInv' /\ UNCHANGED sink
<1>1. PoolsInv' /\ UNCHANGED <<sink, held, InSink>>
  BY PoolsStay DEF BuffersInv
<1>2. HandsInv'
  BY <1>1, HandsMove DEF BuffersInv
<1>3. UNCHANGED WithThread
  BY WithThreadStays DEF HasInHand
<1>4. DataInv'
  BY <1>1, <1>3, DataStays DEF BuffersInv, Live
<1> QED BY <1>1, <1>2, <1>4 DEF BuffersInv

\* A thread goes on that has no request.
LEMMA CountsRest ==
    ASSUME ThreadsInv, CountsInv, NEW t \in AllThreads, NEW f, Becomes(t, f),
           UNCHANGED queueVars, ~HasRequest(thread[t]), ~HasRequest(f)
    PROVE  CountsInv' /\ UNCHANGED EventRequestQueue
<1>1. UNCHANGED <<EventRequestQueue, countVars, request>>
  BY DEF queueVars
<1>2. HoldersInv'
  BY <1>1, HoldersMove DEF CountsInv, RequestsInv
<1>3. QueueInv'
  BY <1>1 DEF CountsInv, RequestsInv, QueueInv
<1>4. \A x \in Requests : x \in Counted' <=> x \in Counted
  BY <1>1, InCounted DEF Becomes, HasRequest
<1>5. Forwarded' \subseteq Forwarded
  BY <1>1, InForwarded DEF Becomes, HasRequest
<1>6. CountInv'
  BY <1>1, <1>4, <1>5, CountStays DEF CountsInv
<1> QED BY <1>1, <1>2, <1>3, <1>6 DEF CountsInv, RequestsInv

\* No thread goes on.
LEMMA BuffersSleep ==
    ASSUME BuffersInv, UNCHANGED <<poolVars, thread, dataVars>>
    PROVE  BuffersInv' /\ UNCHANGED sink
<1>1. PoolsInv' /\ UNCHANGED <<sink, held, InSink>>
  BY PoolsStay DEF BuffersInv
<1>2. HandsInv'
  BY <1>1 DEF BuffersInv, HandsInv
<1>3. UNCHANGED Live
  <2>1. \A b : b \in WithThread' <=> b \in WithThread
    BY InWithThread
  <2> QED BY <1>1, <2>1 DEF Live
<1>4. DataInv'
  BY <1>3, DataStays DEF BuffersInv
<1> QED BY <1>1, <1>2, <1>4 DEF BuffersInv

LEMMA OthersSleep ==
    ASSUME NotifyInv, UNCHANGED <<thread, moduleVars, raced, sink>>,
           Len(EventRequestQueue') <= Len(EventRequestQueue),
           Len(EventRequestQueue) \in Nat, Len(EventRequestQueue') \in Nat
    PROVE  LifecycleInv' /\ PairInv'
<1>1. UNCHANGED Active
  BY DEF Active, At
<1>2. ActiveInv'
  BY <1>1 DEF NotifyInv, LifecycleInv, ActiveInv, moduleVars
<1>3. CloserInv'
  <2>1. ~At(Closer, "idle") => thread[Closer].left \in Int
    BY CloserIsApart, FrameOf DEF NotifyInv
  <2> QED BY <1>1, <2>1 DEF NotifyInv, LifecycleInv, CloserInv, At, HasBuffer, moduleVars
<1>4. PairInv'
  <2>1. /\ UNCHANGED <<Completing, Taking>>
        /\ \A u \in Threads : At(u, "putBack")' => At(u, "putBack")
    BY NumbersStay
  <2>2. Len(sink) \in Nat
    BY LengthsAreTyped DEF NotifyInv
  <2> QED BY <2>1, <2>2, NumbersAreTyped DEF NotifyInv, PairInv
<1> QED BY <1>2, <1>3, <1>4 DEF LifecycleInv

\* Nothing but the lock changes.
LEMMA UnlockedSleeps ==
    ASSUME NotifyInv,
           UNCHANGED <<poolVars, EventRequestQueue, countVars, request, thread, dataVars, raced,
                       moduleVars>>
    PROVE  NotifyInv'
<1>1. ThreadsInv' /\ CountsInv'
  <2>1. HoldersInv' /\ QueueInv'
    BY DEF NotifyInv, CountsInv, RequestsInv, HoldersInv, QueueInv
  <2>2. /\ \A x \in Requests : x \in Counted' <=> x \in Counted
        /\ Forwarded' \subseteq Forwarded
    BY InCounted, InForwarded
  <2>3. CountInv'
    BY <2>2, CountStays DEF NotifyInv, CountsInv
  <2> QED BY <2>1, <2>3 DEF NotifyInv, ThreadsInv, CountsInv, RequestsInv
<1>2. BuffersInv' /\ UNCHANGED sink
  BY BuffersSleep DEF NotifyInv
<1>3. LifecycleInv' /\ PairInv'
  BY <1>2, LengthsAreTyped, OthersSleep DEF NotifyInv
<1> QED BY <1>1, <1>2, <1>3 DEF NotifyInv

\* DMF_NotifyUserWithRequest_DataProcess.
LEMMA DataProcessKeeps ==
    ASSUME NotifyInv, NEW t \in Threads, NEW b \in Buffers, DataProcess(t, b)
    PROVE  NotifyInv'
<1> DEFINE f == Frame("store", b, NULL, 1)
<1>1. /\ At(t, "idle") /\ closing = "open" /\ closing' = closing /\ references' = references + 1
      /\ thread' = [thread EXCEPT ![t] = f]
      /\ \/ SourceGet(b) /\ UNCHANGED overwritten
         \/ SinkGet(b) /\ overwritten' = overwritten \cup {data[b]}
      /\ produced' = produced + 1 /\ data' = [data EXCEPT ![b] = produced + 1]
      /\ UNCHANGED <<delivered, refused, raced>> /\ UNCHANGED queueVars
  BY DEF DataProcess, Enter, Frame
<1>2. b # NULL /\ f \in Frames /\ FrameFits(f) /\ t \in AllThreads
  BY NotifyAssumption, CloserIsApart
     DEF NotifyAssumption, Frame, Frames, Places, FrameFits, HasRequest
<1>3. Becomes(t, f)
  BY <1>1, <1>2, EnterBecomes DEF NotifyInv
<1>4. /\ f.at = "store" /\ f.buffer = b /\ HasData(f) /\ HasInHand(f) /\ ~HasRequest(f)
      /\ ~HasData(thread[t]) /\ ~HasInHand(thread[t]) /\ ~HasRequest(thread[t])
  BY <1>1, <1>2 DEF Frame, HasData, HasInHand, HasRequest, At
<1> HIDE DEF f
<1>5. ThreadsInv'
  BY <1>2, <1>3, ThreadsMove DEF NotifyInv
<1>6. /\ PoolsInv' /\ b \notin held /\ held' = held \cup {b}
      /\ \/ b \notin InSink /\ UNCHANGED <<sink, InSink, overwritten>>
         \/ /\ b \in InSink /\ InSink' = InSink \ {b} /\ Len(sink') = Len(sink) - 1
            /\ overwritten' = overwritten \cup {data[b]}
  BY <1>1, SourceGives, SinkGives DEF NotifyInv, BuffersInv
<1>7. HandsInv'
  BY <1>2, <1>3, <1>4, <1>6, HandsMove DEF NotifyInv, BuffersInv
<1>8. WithThread' = WithThread \cup {b} /\ b \notin WithThread
  BY <1>2, <1>3, <1>4, <1>6, WithThreadTakes, WithThreadIsHeld DEF NotifyInv, BuffersInv
<1>9. /\ Live' = Live \cup {b}
      /\ \/ b \notin Live /\ overwritten' = overwritten
         \/ b \in Live /\ overwritten' = overwritten \cup {data[b]}
  BY <1>6, <1>8 DEF Live
<1>10. DataInv'
  BY <1>1, <1>9, DataComes DEF NotifyInv, BuffersInv
<1>11. CountsInv' /\ UNCHANGED EventRequestQueue
  BY <1>1, <1>2, <1>3, <1>4, CountsRest DEF NotifyInv
<1>12. LifecycleInv'
  BY <1>1, <1>3, <1>4, MethodEnters DEF NotifyInv
<1>13. BuffersInv'
  BY <1>6, <1>7, <1>10 DEF BuffersInv
<1>14. Len(sink') <= Len(sink) /\ Len(sink) \in Nat /\ Len(sink') \in Nat
  BY <1>6, <1>11, <1>13, LengthsAreTyped, PoolsAreTyped DEF NotifyInv, BuffersInv
<1>15. PairInv'
  BY <1>1, <1>2, <1>3, <1>4, <1>11, <1>14, LengthsAreTyped, PairStays DEF NotifyInv, At
<1> QED BY <1>5, <1>11, <1>12, <1>13, <1>15 DEF NotifyInv

LEMMA DataIsStoredKeeps ==
    ASSUME NotifyInv, NEW t \in AllThreads, DataIsStored(t)
    PROVE  NotifyInv'
<1> DEFINE b == thread[t].buffer
           f == Frame("complete", NULL, thread[t].request, thread[t].left)
<1>1. /\ At(t, "store") /\ SinkPut(b) /\ UNCHANGED <<queueVars, dataVars, raced, moduleVars>>
      /\ thread' = [thread EXCEPT ![t].at = "complete", ![t].buffer = NULL]
  BY DEF DataIsStored
<1>2. /\ ~At(t, "idle") /\ b \in Buffers /\ t \in Threads
      /\ HasData(thread[t]) /\ HasInHand(thread[t]) /\ ~HasRequest(thread[t])
  BY <1>1, FrameOf
     DEF NotifyInv, At, FrameFits, HasData, HasInHand, HasRequest, LifecycleInv, CloserInv,
         AllThreads
<1>3. Becomes(t, f)
  BY <1>1, <1>2, FrameOf, StepBecomes DEF NotifyInv, Places
<1>4. /\ f.at = "complete" /\ f.buffer = NULL /\ FrameFits(f)
      /\ ~HasData(f) /\ ~HasInHand(f) /\ ~HasRequest(f)
  BY DEF Frame, FrameFits, HasData, HasInHand, HasRequest
<1>5. PoolsInv' /\ held' = held \ {b} /\ InSink' = InSink \cup {b} /\ Len(sink') = Len(sink) + 1
  BY <1>1, <1>2, SinkTakes DEF NotifyInv, BuffersInv
<1> HIDE DEF f
<1>6. ThreadsInv'
  BY <1>3, <1>4, ThreadsMove DEF NotifyInv
<1>7. HandsInv'
  BY <1>2, <1>3, <1>4, <1>5, HandsMove DEF NotifyInv, BuffersInv
<1>8. WithThread' = WithThread \ {b} /\ b \in WithThread
  BY <1>2, <1>3, <1>4, WithThreadGives DEF NotifyInv, BuffersInv
<1>9. UNCHANGED Live
  BY <1>5, <1>8 DEF Live
<1>10. DataInv'
  BY <1>1, <1>9, DataStays DEF NotifyInv, BuffersInv
<1>11. CountsInv' /\ UNCHANGED EventRequestQueue
  BY <1>1, <1>2, <1>3, <1>4, CountsRest DEF NotifyInv
<1>12. LifecycleInv'
  BY <1>1, <1>2, <1>3, <1>4, CloserIsApart, LifecycleMoves DEF NotifyInv, At
<1>13. PairInv'
  <2>1. Cardinality(Completing') = Cardinality(Completing) + 1 /\ UNCHANGED <<Taking, raced>>
    BY <1>1, <1>2, <1>3, <1>4, CompletingMoves, TakingMoves DEF NotifyInv, At
  <2>2. \A u \in Threads : At(u, "putBack")' => At(u, "putBack")
    BY <1>3, <1>4, CloserIsApart DEF Becomes, At
  <2> QED BY <1>5, <1>11, <2>1, <2>2, NumbersAreTyped, LengthsAreTyped DEF NotifyInv, PairInv
<1> QED BY <1>5, <1>6, <1>7, <1>10, <1>11, <1>12, <1>13 DEF NotifyInv, BuffersInv

LEMMA DataIsRefusedKeeps ==
    ASSUME NotifyInv, NEW t \in Threads, DataIsRefused(t)
    PROVE  NotifyInv'
<1> DEFINE f == Frame("return", NULL, NULL, 1)
<1>1. /\ At(t, "idle") /\ closing = "open" /\ closing' = closing /\ references' = references + 1
      /\ thread' = [thread EXCEPT ![t] = f]
      /\ produced' = produced + 1 /\ refused' = refused \cup {produced + 1}
      /\ UNCHANGED <<poolVars, queueVars, data, delivered, overwritten, raced>>
  BY DEF DataIsRefused, Enter, Frame
<1>2. f \in Frames /\ FrameFits(f) /\ t \in AllThreads
  BY CloserIsApart DEF Frame, Frames, Places, FrameFits, HasRequest
<1>3. Becomes(t, f)
  BY <1>1, <1>2, EnterBecomes DEF NotifyInv
<1>4. /\ f.at = "return" /\ ~HasData(f) /\ ~HasInHand(f) /\ ~HasRequest(f)
      /\ ~HasData(thread[t]) /\ ~HasInHand(thread[t]) /\ ~HasRequest(thread[t])
  BY <1>1, <1>2 DEF Frame, HasData, HasInHand, HasRequest, At
<1> HIDE DEF f
<1>5. ThreadsInv'
  BY <1>2, <1>3, ThreadsMove DEF NotifyInv
<1>6. PoolsInv' /\ UNCHANGED <<sink, held, InSink>>
  BY <1>1, PoolsStay DEF NotifyInv, BuffersInv
<1>7. HandsInv'
  BY <1>2, <1>3, <1>4, <1>6, HandsMove DEF NotifyInv, BuffersInv
<1>8. UNCHANGED Live
  BY <1>2, <1>3, <1>4, <1>6, WithThreadStays DEF Live
<1>9. DataInv'
  BY <1>1, <1>8, DataIsTurnedAway DEF NotifyInv, BuffersInv
<1>10. CountsInv' /\ UNCHANGED EventRequestQueue
  BY <1>1, <1>2, <1>3, <1>4, CountsRest DEF NotifyInv
<1>11. LifecycleInv'
  BY <1>1, <1>3, <1>4, MethodEnters DEF NotifyInv
<1>12. PairInv'
  BY <1>1, <1>2, <1>3, <1>4, <1>6, <1>10, LengthsAreTyped, PairStays DEF NotifyInv, At
<1> QED BY <1>5, <1>6, <1>7, <1>9, <1>10, <1>11, <1>12 DEF NotifyInv, BuffersInv

\* A Method that only enters: _EventRequestReturn and _EventRequestReturnAll.
LEMMA ReturnEntersKeeps ==
    ASSUME NotifyInv, NEW t \in Threads, NEW n \in Int, Enter(t, "retrieve", NULL, NULL, n),
           UNCHANGED <<poolVars, queueVars, lock, dataVars, raced>>
    PROVE  NotifyInv'
<1> DEFINE f == Frame("retrieve", NULL, NULL, n)
<1>1. /\ At(t, "idle") /\ closing = "open" /\ closing' = closing /\ references' = references + 1
      /\ thread' = [thread EXCEPT ![t] = f]
  BY DEF Enter, Frame
<1>2. f \in Frames /\ FrameFits(f) /\ t \in AllThreads
  BY CloserIsApart DEF Frame, Frames, Places, FrameFits, HasRequest
<1>3. Becomes(t, f)
  BY <1>1, <1>2, EnterBecomes DEF NotifyInv
<1>4. /\ f.at = "retrieve" /\ f.buffer = NULL /\ ~HasData(f) /\ ~HasInHand(f) /\ ~HasRequest(f)
      /\ ~HasData(thread[t]) /\ ~HasInHand(thread[t]) /\ ~HasRequest(thread[t])
  BY <1>1, <1>2 DEF Frame, HasData, HasInHand, HasRequest, At
<1> HIDE DEF f
<1>5. ThreadsInv'
  BY <1>2, <1>3, ThreadsMove DEF NotifyInv
<1>6. BuffersInv' /\ UNCHANGED sink
  BY <1>2, <1>3, <1>4, BuffersRest DEF NotifyInv
<1>7. CountsInv' /\ UNCHANGED EventRequestQueue
  BY <1>1, <1>2, <1>3, <1>4, CountsRest DEF NotifyInv
<1>8. LifecycleInv'
  BY <1>1, <1>3, <1>4, MethodEnters DEF NotifyInv
<1>9. PairInv'
  BY <1>1, <1>2, <1>3, <1>4, <1>6, <1>7, LengthsAreTyped, PairStays DEF NotifyInv, At
<1> QED BY <1>5, <1>6, <1>7, <1>8, <1>9 DEF NotifyInv

LEMMA MethodReturnsKeeps ==
    ASSUME NotifyInv, NEW t \in AllThreads, MethodReturns(t)
    PROVE  NotifyInv'
<1>1. /\ t \in Threads /\ At(t, "return") /\ references' = references - 1
      /\ thread' = [thread EXCEPT ![t] = Idle]
      /\ UNCHANGED <<poolVars, queueVars, lock, dataVars, raced, closing>>
  BY DEF MethodReturns, AllThreads
<1>2. Becomes(t, Idle) /\ FrameFits(Idle)
  BY <1>1, EnterBecomes DEF NotifyInv, FrameFits, HasRequest, Idle
<1>3. /\ Idle.at = "idle" /\ ~HasData(Idle) /\ ~HasInHand(Idle) /\ ~HasRequest(Idle)
      /\ ~HasData(thread[t]) /\ ~HasInHand(thread[t]) /\ ~HasRequest(thread[t])
      /\ ~At(t, "idle")
  BY <1>1 DEF Idle, HasData, HasInHand, HasRequest, At
<1>4. ThreadsInv'
  BY <1>2, ThreadsMove DEF NotifyInv
<1>5. BuffersInv' /\ UNCHANGED sink
  BY <1>1, <1>2, <1>3, BuffersRest DEF NotifyInv
<1>6. CountsInv' /\ UNCHANGED EventRequestQueue
  BY <1>1, <1>2, <1>3, CountsRest DEF NotifyInv
<1>7. LifecycleInv'
  BY <1>1, <1>2, <1>3, MethodLeaves DEF NotifyInv
<1>8. PairInv'
  BY <1>1, <1>2, <1>3, <1>5, <1>6, LengthsAreTyped, PairStays DEF NotifyInv, At
<1> QED BY <1>4, <1>5, <1>6, <1>7, <1>8 DEF NotifyInv

\* The lock that a thread without a buffer for its data still had.
LEMMA RefusedUnlocksKeeps ==
    ASSUME NotifyInv, NEW t \in AllThreads, RefusedUnlocks(t)
    PROVE  NotifyInv'
<1>1. UNCHANGED <<poolVars, EventRequestQueue, countVars, request, thread, dataVars, raced,
                  moduleVars>>
  BY DEF RefusedUnlocks, queueVars
<1> QED BY <1>1, UnlockedSleeps

\* NotifyUserWithRequest_CompleteRequestWithEventData.
LEMMA TakesDataKeeps ==
    ASSUME NotifyInv, NEW t \in AllThreads, NEW b \in Buffers, TakesData(t, b)
    PROVE  NotifyInv'
<1> DEFINE f == Frame("retrieve", b, thread[t].request, thread[t].left)
<1>1. /\ At(t, "complete") /\ SinkGet(b) /\ UNCHANGED <<queueVars, dataVars, raced, moduleVars>>
      /\ thread' = [thread EXCEPT ![t].at = "retrieve", ![t].buffer = b]
  BY DEF TakesData
<1>2. /\ ~At(t, "idle") /\ t \in Threads /\ b # NULL
      /\ ~HasData(thread[t]) /\ ~HasInHand(thread[t]) /\ ~HasRequest(thread[t])
  BY <1>1, NotifyAssumption
     DEF NotifyInv, At, HasData, HasInHand, HasRequest, LifecycleInv, CloserInv, AllThreads,
         NotifyAssumption
<1>3. Becomes(t, f)
  BY <1>1, <1>2, FrameOf, StepBecomes DEF NotifyInv, Places
<1>4. /\ f.at = "retrieve" /\ f.buffer = b /\ FrameFits(f)
      /\ HasData(f) /\ HasInHand(f) /\ ~HasRequest(f)
  BY <1>2 DEF Frame, FrameFits, HasData, HasInHand, HasRequest
<1>5. /\ PoolsInv' /\ b \in InSink /\ b \notin held /\ held' = held \cup {b}
      /\ InSink' = InSink \ {b} /\ Len(sink') = Len(sink) - 1
  BY <1>1, SinkGives DEF NotifyInv, BuffersInv
<1> HIDE DEF f
<1>6. ThreadsInv'
  BY <1>3, <1>4, ThreadsMove DEF NotifyInv
<1>7. HandsInv'
  BY <1>2, <1>3, <1>4, <1>5, HandsMove DEF NotifyInv, BuffersInv
<1>8. WithThread' = WithThread \cup {b}
  BY <1>2, <1>3, <1>4, WithThreadTakes
<1>9. UNCHANGED Live
  BY <1>5, <1>8 DEF Live
<1>10. DataInv'
  BY <1>1, <1>9, DataStays DEF NotifyInv, BuffersInv
<1>11. CountsInv' /\ UNCHANGED EventRequestQueue
  BY <1>1, <1>2, <1>3, <1>4, CountsRest DEF NotifyInv
<1>12. LifecycleInv'
  BY <1>1, <1>2, <1>3, <1>4, CloserIsApart, LifecycleMoves DEF NotifyInv, At
<1>13. PairInv'
  <2>1. /\ Cardinality(Completing') = Cardinality(Completing) - 1
        /\ Cardinality(Taking') = Cardinality(Taking) + 1 /\ UNCHANGED raced
    BY <1>1, <1>2, <1>3, <1>4, CompletingMoves, TakingMoves DEF NotifyInv, At
  <2>2. \A u \in Threads : At(u, "putBack")' => At(u, "putBack")
    BY <1>3, <1>4, CloserIsApart DEF Becomes, At
  <2> QED BY <1>5, <1>11, <2>1, <2>2, NumbersAreTyped, LengthsAreTyped DEF NotifyInv, PairInv
<1> QED BY <1>5, <1>6, <1>7, <1>10, <1>11, <1>12, <1>13 DEF NotifyInv, BuffersInv

LEMMA FindsNothingKeeps ==
    ASSUME NotifyInv, NEW t \in AllThreads, FindsNothing(t)
    PROVE  NotifyInv'
<1> DEFINE f == Frame("return", thread[t].buffer, thread[t].request, thread[t].left)
<1>1. /\ At(t, "complete") /\ UNCHANGED <<poolVars, queueVars, dataVars, raced, moduleVars>>
      /\ thread' = [thread EXCEPT ![t].at = "return"]
      /\ EventRequestQueue = <<>> \/ NoneToGet
  BY DEF FindsNothing, Goto
<1>2. /\ ~At(t, "idle") /\ t \in Threads /\ thread[t].buffer = NULL
      /\ ~HasData(thread[t]) /\ ~HasInHand(thread[t]) /\ ~HasRequest(thread[t])
  BY <1>1, FrameOf
     DEF NotifyInv, At, FrameFits, HasData, HasInHand, HasRequest, LifecycleInv, CloserInv,
         AllThreads
<1>3. Becomes(t, f)
  BY <1>1, <1>2, FrameOf, StepBecomes DEF NotifyInv, Places
<1>4. /\ f.at = "return" /\ f.buffer = NULL /\ FrameFits(f)
      /\ ~HasData(f) /\ ~HasInHand(f) /\ ~HasRequest(f)
  BY <1>2 DEF Frame, FrameFits, HasData, HasInHand, HasRequest
<1> HIDE DEF f
<1>5. ThreadsInv'
  BY <1>3, <1>4, ThreadsMove DEF NotifyInv
<1>6. BuffersInv' /\ UNCHANGED sink
  BY <1>1, <1>2, <1>3, <1>4, BuffersRest DEF NotifyInv
<1>7. CountsInv' /\ UNCHANGED EventRequestQueue
  BY <1>1, <1>2, <1>3, <1>4, CountsRest DEF NotifyInv
<1>8. LifecycleInv'
  BY <1>1, <1>2, <1>3, <1>4, CloserIsApart, LifecycleMoves DEF NotifyInv, At
<1>9. PairInv'
  <2>1. /\ Cardinality(Completing') = Cardinality(Completing) - 1 /\ UNCHANGED <<Taking, raced>>
    BY <1>1, <1>2, <1>3, <1>4, CompletingMoves, TakingMoves DEF NotifyInv, At
  <2>2. \A u \in Threads : At(u, "putBack")' => At(u, "putBack")
    BY <1>3, <1>4, CloserIsApart DEF Becomes, At
  <2>3. Len(EventRequestQueue) = 0 \/ Len(sink) = 0
    BY <1>1, NoneToGetIsEmpty, QueueIsTyped
       DEF NotifyInv, BuffersInv, CountsInv, RequestsInv
  <2>4. Cardinality(Completing') \in Nat
    <3>1. Completing' \subseteq Active'
      BY DEF Completing, Active, At
    <3> QED BY <1>8, <3>1, FS_Subset, FS_CardinalityType DEF LifecycleInv, ActiveInv
  <2> QED BY <1>6, <1>7, <2>1, <2>2, <2>3, <2>4, NumbersAreTyped DEF NotifyInv, PairInv
<1> QED BY <1>5, <1>6, <1>7, <1>8, <1>9 DEF NotifyInv

\* The data goes back to the head of its queue.
LEMMA PutsBackKeeps ==
    ASSUME NotifyInv, NEW t \in AllThreads, PutsBack(t)
    PROVE  NotifyInv'
<1> DEFINE b == thread[t].buffer
           f == Frame("return", NULL, thread[t].request, thread[t].left)
<1>1. /\ At(t, "putBack") /\ SinkPutAtHead(b)
      /\ UNCHANGED <<queueVars, dataVars, raced, moduleVars>>
      /\ thread' = [thread EXCEPT ![t].at = "return", ![t].buffer = NULL]
  BY DEF PutsBack
<1>2. /\ ~At(t, "idle") /\ b \in Buffers /\ t \in Threads
      /\ HasData(thread[t]) /\ HasInHand(thread[t]) /\ ~HasRequest(thread[t])
  BY <1>1, FrameOf
     DEF NotifyInv, At, FrameFits, HasData, HasInHand, HasRequest, LifecycleInv, CloserInv,
         AllThreads
<1>3. Becomes(t, f)
  BY <1>1, <1>2, FrameOf, StepBecomes DEF NotifyInv, Places
<1>4. /\ f.at = "return" /\ f.buffer = NULL /\ FrameFits(f)
      /\ ~HasData(f) /\ ~HasInHand(f) /\ ~HasRequest(f)
  BY DEF Frame, FrameFits, HasData, HasInHand, HasRequest
<1>5. PoolsInv' /\ held' = held \ {b} /\ InSink' = InSink \cup {b}
  BY <1>1, <1>2, SinkTakes DEF NotifyInv, BuffersInv
<1> HIDE DEF f
<1>6. ThreadsInv'
  BY <1>3, <1>4, ThreadsMove DEF NotifyInv
<1>7. HandsInv'
  BY <1>2, <1>3, <1>4, <1>5, HandsMove DEF NotifyInv, BuffersInv
<1>8. WithThread' = WithThread \ {b} /\ b \in WithThread
  BY <1>2, <1>3, <1>4, WithThreadGives DEF NotifyInv, BuffersInv
<1>9. UNCHANGED Live
  BY <1>5, <1>8 DEF Live
<1>10. DataInv'
  BY <1>1, <1>9, DataStays DEF NotifyInv, BuffersInv
<1>11. CountsInv' /\ UNCHANGED EventRequestQueue
  BY <1>1, <1>2, <1>3, <1>4, CountsRest DEF NotifyInv
<1>12. LifecycleInv'
  BY <1>1, <1>2, <1>3, <1>4, CloserIsApart, LifecycleMoves DEF NotifyInv, At
<1>13. PairInv'
  BY <1>1, <1>2 DEF NotifyInv, PairInv
<1> QED BY <1>5, <1>6, <1>7, <1>10, <1>11, <1>12, <1>13 DEF NotifyInv, BuffersInv

\* The buffer of data that was delivered is emptied.
LEMMA ReusesKeeps ==
    ASSUME NotifyInv, NEW t \in AllThreads, Reuses(t)
    PROVE  NotifyInv'
<1> DEFINE b == thread[t].buffer
           f == Frame("return", NULL, thread[t].request, thread[t].left)
<1>1. /\ At(t, "reuse") /\ SourcePut(b)
      /\ UNCHANGED <<queueVars, dataVars, raced, moduleVars>>
      /\ thread' = [thread EXCEPT ![t].at = "return", ![t].buffer = NULL]
  BY DEF Reuses
<1>2. /\ ~At(t, "idle") /\ b \in Buffers /\ t \in Threads
      /\ ~HasData(thread[t]) /\ HasInHand(thread[t]) /\ ~HasRequest(thread[t])
  BY <1>1, FrameOf
     DEF NotifyInv, At, FrameFits, HasData, HasInHand, HasRequest, LifecycleInv, CloserInv,
         AllThreads
<1>3. Becomes(t, f)
  BY <1>1, <1>2, FrameOf, StepBecomes DEF NotifyInv, Places
<1>4. /\ f.at = "return" /\ f.buffer = NULL /\ FrameFits(f)
      /\ ~HasData(f) /\ ~HasInHand(f) /\ ~HasRequest(f)
  BY DEF Frame, FrameFits, HasData, HasInHand, HasRequest
<1>5. PoolsInv' /\ held' = held \ {b} /\ UNCHANGED <<sink, InSink>>
  BY <1>1, <1>2, SourceTakes DEF NotifyInv, BuffersInv
<1> HIDE DEF f
<1>6. ThreadsInv'
  BY <1>3, <1>4, ThreadsMove DEF NotifyInv
<1>7. HandsInv'
  BY <1>2, <1>3, <1>4, <1>5, HandsMove DEF NotifyInv, BuffersInv
<1>8. UNCHANGED Live
  BY <1>2, <1>3, <1>4, <1>5, WithThreadStays DEF Live
<1>9. DataInv'
  BY <1>1, <1>8, DataStays DEF NotifyInv, BuffersInv
<1>10. CountsInv' /\ UNCHANGED EventRequestQueue
  BY <1>1, <1>2, <1>3, <1>4, CountsRest DEF NotifyInv
<1>11. LifecycleInv'
  BY <1>1, <1>2, <1>3, <1>4, CloserIsApart, LifecycleMoves DEF NotifyInv, At
<1>12. PairInv'
  BY <1>1, <1>2, <1>3, <1>4, <1>5, <1>10, LengthsAreTyped, PairStays DEF NotifyInv, At
<1> QED BY <1>5, <1>6, <1>7, <1>9, <1>10, <1>11, <1>12 DEF NotifyInv, BuffersInv

-----------------------------------------------------------------------------
(* DMF_NotifyUserWithRequest_RequestProcess.                                *)

LEMMA EventRequestAddKeeps ==
    ASSUME NotifyInv, NEW t \in Threads, NEW r \in Requests, EventRequestAdd(t, r)
    PROVE  NotifyInv'
<1> DEFINE f == Frame(IF IsOverLimit THEN "takeBack" ELSE "forward", NULL, r, 1)
<1>1. /\ At(t, "idle") /\ closing = "open" /\ closing' = closing /\ references' = references + 1
      /\ thread' = [thread EXCEPT ![t] = f]
      /\ request[r] = "application" /\ request' = [request EXCEPT ![r] = "adding"]
      /\ EventCountHeld' = EventCountHeld + 1
      /\ UNCHANGED <<poolVars, EventRequestQueue, leaked, dataVars, raced>>
  BY DEF EventRequestAdd, Enter, Frame
<1>2. f \in Frames /\ FrameFits(f) /\ t \in AllThreads
  BY CloserIsApart DEF Frame, Frames, Places, FrameFits, HasRequest
<1>3. Becomes(t, f)
  BY <1>1, <1>2, EnterBecomes DEF NotifyInv
<1>4. /\ f.at = IF IsOverLimit THEN "takeBack" ELSE "forward"
      /\ ~HasData(f) /\ ~HasInHand(f) /\ HasRequest(f) /\ f.request = r /\ f.buffer = NULL
      /\ ~HasData(thread[t]) /\ ~HasInHand(thread[t]) /\ ~HasRequest(thread[t])
  BY <1>1, <1>2 DEF Frame, HasData, HasInHand, HasRequest, At
<1> HIDE DEF f
<1>5. ThreadsInv'
  BY <1>2, <1>3, ThreadsMove DEF NotifyInv
<1>6. BuffersInv' /\ UNCHANGED sink
  BY <1>2, <1>3, <1>4, <1>1, BuffersRest DEF NotifyInv
<1>7. RequestsInv'
  <2>1. /\ request' \in [Requests -> {"application", "adding", "queued", "retrieved", "cancelled"}]
        /\ request'[r] = "adding" /\ \A x \in Requests \ {r} : request'[x] = request[x]
    BY <1>1 DEF NotifyInv, CountsInv, RequestsInv, QueueInv
  <2>2. HoldersInv'
    BY <1>1, <1>2, <1>3, <1>4, <2>1, HoldersMove
       DEF NotifyInv, CountsInv, RequestsInv, WithStatus
  <2>3. QueueInv'
    BY <1>1, <2>1, QueueStays DEF NotifyInv, CountsInv, RequestsInv
  <2> QED BY <2>2, <2>3 DEF RequestsInv
<1>8. CountInv'
  <2>1. /\ request'[r] = "adding" /\ \A x \in Requests \ {r} : request'[x] = request[x]
        /\ \A x \in Requests : request'[x] = "queued" <=> request[x] = "queued"
    BY <1>1 DEF NotifyInv, CountsInv, RequestsInv, QueueInv
  <2>2. Counted' \subseteq Counted \cup {r} /\ r \notin Counted
    BY <1>1, <1>3, <1>4, <2>1, InCounted DEF Becomes, HasRequest
  <2>3. Forwarded' \subseteq Forwarded \cup {r} /\ (IsOverLimit => Forwarded' \subseteq Forwarded)
    BY <1>3, <1>4, <2>1, InForwarded DEF Becomes
  <2>4. Forwarded \subseteq Counted
    BY ForwardedIsCounted DEF NotifyInv, CountsInv
  <2>5. Counted \cup {r} \subseteq Counted'
    <3>1. \A u \in AllThreads : thread[u].at = "answer" => thread[u].request # r
      BY <1>1 DEF NotifyInv, CountsInv, RequestsInv, HoldersInv, HasRequest, WithStatus
    <3>2. \A u \in AllThreads : thread'[u].at = "answer" =>
             thread[u].at = "answer" /\ thread'[u].request = thread[u].request
      BY <1>3, <1>4 DEF Becomes
    <3> QED BY <2>1, <3>1, <3>2, InCounted
  <2> QED BY <1>1, <2>2, <2>3, <2>4, <2>5, CountRises DEF NotifyInv, CountsInv
<1>9. LifecycleInv'
  BY <1>1, <1>3, <1>4, MethodEnters DEF NotifyInv
<1>10. PairInv'
  BY <1>1, <1>2, <1>3, <1>4, <1>6, LengthsAreTyped, PairStays DEF NotifyInv, At
<1> QED BY <1>5, <1>6, <1>7, <1>8, <1>9, <1>10 DEF NotifyInv, CountsInv

\* The limit is reached: the request is taken back.
LEMMA AddIsRefusedKeeps ==
    ASSUME NotifyInv, NEW t \in AllThreads, AddIsRefused(t)
    PROVE  NotifyInv'
<1> DEFINE r == thread[t].request
           f == Frame("return", thread[t].buffer, r, thread[t].left)
<1>1. /\ At(t, "takeBack") /\ EventCountHeld' = EventCountHeld - 1
      /\ request' = [request EXCEPT ![r] = "application"]
      /\ thread' = [thread EXCEPT ![t].at = "return"]
      /\ UNCHANGED <<poolVars, EventRequestQueue, leaked, dataVars, raced, moduleVars>>
  BY DEF AddIsRefused, Goto
<1>2. /\ ~At(t, "idle") /\ t \in Threads /\ thread[t].buffer = NULL /\ r \in Requests
      /\ ~HasData(thread[t]) /\ ~HasInHand(thread[t]) /\ HasRequest(thread[t])
      /\ request[r] = "adding"
  BY <1>1, FrameOf
     DEF NotifyInv, At, FrameFits, HasData, HasInHand, HasRequest, LifecycleInv, CloserInv,
         AllThreads, CountsInv, RequestsInv, HoldersInv, WithStatus
<1>3. Becomes(t, f)
  BY <1>1, <1>2, FrameOf, StepBecomes DEF NotifyInv, Places
<1>4. /\ f.at = "return" /\ f.buffer = NULL /\ FrameFits(f)
      /\ ~HasData(f) /\ ~HasInHand(f) /\ ~HasRequest(f)
  BY <1>2 DEF Frame, FrameFits, HasData, HasInHand, HasRequest
<1>5. /\ request' \in [Requests -> {"application", "adding", "queued", "retrieved", "cancelled"}]
      /\ request'[r] = "application" /\ \A x \in Requests \ {r} : request'[x] = request[x]
  BY <1>1, <1>2 DEF NotifyInv, CountsInv, RequestsInv, QueueInv
<1> HIDE DEF f
<1>6. ThreadsInv'
  BY <1>3, <1>4, ThreadsMove DEF NotifyInv
<1>7. BuffersInv' /\ UNCHANGED sink
  BY <1>1, <1>2, <1>3, <1>4, BuffersRest DEF NotifyInv
<1>8. RequestsInv'
  <2>1. HoldersInv'
    BY <1>2, <1>3, <1>4, <1>5, HoldersMove DEF NotifyInv, CountsInv, RequestsInv
  <2>2. QueueInv'
    BY <1>1, <1>2, <1>5, QueueStays DEF NotifyInv, CountsInv, RequestsInv
  <2> QED BY <2>1, <2>2 DEF RequestsInv
<1>9. CountInv'
  <2>1. r \in Counted
    BY <1>1, <1>2, InCounted DEF NotifyInv, CountsInv, RequestsInv, HoldersInv, At, HasRequest
  <2>2. Counted' = Counted \ {r}
    BY <1>1, <1>2, <1>3, <1>4, <1>5, InCounted DEF Becomes, At
  <2>3. Forwarded' \subseteq Forwarded
    BY <1>2, <1>3, <1>4, <1>5, InForwarded DEF Becomes
  <2> QED BY <1>1, <2>1, <2>2, <2>3, CountFalls DEF NotifyInv, CountsInv
<1>10. LifecycleInv'
  BY <1>1, <1>2, <1>3, <1>4, CloserIsApart, LifecycleMoves DEF NotifyInv, At
<1>11. PairInv'
  BY <1>1, <1>2, <1>3, <1>4, <1>7, LengthsAreTyped, PairStays DEF NotifyInv, At
<1> QED BY <1>6, <1>7, <1>8, <1>9, <1>10, <1>11 DEF NotifyInv, CountsInv

\* The request enters the queue.
LEMMA AddForwardsKeeps ==
    ASSUME NotifyInv, NEW t \in AllThreads, AddForwards(t)
    PROVE  NotifyInv'
<1> DEFINE r == thread[t].request
           f == Frame("complete", thread[t].buffer, r, thread[t].left)
<1>1. /\ At(t, "forward") /\ EventRequestQueue' = Append(EventRequestQueue, r)
      /\ request' = [request EXCEPT ![r] = "queued"]
      /\ thread' = [thread EXCEPT ![t].at = "complete"]
      /\ UNCHANGED <<poolVars, countVars, dataVars, raced, moduleVars>>
  BY DEF AddForwards, Goto
<1>2. /\ ~At(t, "idle") /\ t \in Threads /\ thread[t].buffer = NULL /\ r \in Requests
      /\ ~HasData(thread[t]) /\ ~HasInHand(thread[t]) /\ HasRequest(thread[t])
      /\ request[r] = "adding"
  BY <1>1, FrameOf
     DEF NotifyInv, At, FrameFits, HasData, HasInHand, HasRequest, LifecycleInv, CloserInv,
         AllThreads, CountsInv, RequestsInv, HoldersInv, WithStatus
<1>3. Becomes(t, f)
  BY <1>1, <1>2, FrameOf, StepBecomes DEF NotifyInv, Places
<1>4. /\ f.at = "complete" /\ f.buffer = NULL /\ FrameFits(f)
      /\ ~HasData(f) /\ ~HasInHand(f) /\ ~HasRequest(f)
  BY <1>2 DEF Frame, FrameFits, HasData, HasInHand, HasRequest
<1>5. /\ request' \in [Requests -> {"application", "adding", "queued", "retrieved", "cancelled"}]
      /\ request'[r] = "queued" /\ \A x \in Requests \ {r} : request'[x] = request[x]
  BY <1>1, <1>2 DEF NotifyInv, CountsInv, RequestsInv, QueueInv
<1> HIDE DEF f
<1>6. ThreadsInv'
  BY <1>3, <1>4, ThreadsMove DEF NotifyInv
<1>7. BuffersInv' /\ UNCHANGED sink
  BY <1>1, <1>2, <1>3, <1>4, BuffersRest DEF NotifyInv
<1>8. RequestsInv' /\ Len(EventRequestQueue') = Len(EventRequestQueue) + 1
  <2>1. HoldersInv'
    BY <1>2, <1>3, <1>4, <1>5, HoldersMove DEF NotifyInv, CountsInv, RequestsInv
  <2>2. QueueInv' /\ Len(EventRequestQueue') = Len(EventRequestQueue) + 1
    BY <1>1, <1>2, QueueTakes DEF NotifyInv, CountsInv, RequestsInv
  <2> QED BY <2>1, <2>2 DEF RequestsInv
<1>9. CountInv'
  <2>1. \A x \in Requests : x \in Counted' <=> x \in Counted
    <3>1. r \in Counted
      BY <1>1, <1>2, InCounted DEF NotifyInv, CountsInv, RequestsInv, HoldersInv, At, HasRequest
    <3> QED BY <1>1, <1>3, <1>4, <1>5, <3>1, InCounted DEF Becomes, At
  <2>2. Forwarded' \subseteq Forwarded
    BY <1>1, <1>2, <1>3, <1>4, <1>5, InForwarded DEF Becomes, At
  <2> QED BY <1>1, <2>1, <2>2, CountStays DEF NotifyInv, CountsInv
<1>10. LifecycleInv'
  BY <1>1, <1>2, <1>3, <1>4, CloserIsApart, LifecycleMoves DEF NotifyInv, At
<1>11. PairInv'
  <2>1. Cardinality(Completing') = Cardinality(Completing) + 1 /\ UNCHANGED <<Taking, raced>>
    BY <1>1, <1>2, <1>3, <1>4, CompletingMoves, TakingMoves DEF NotifyInv, At
  <2>2. \A u \in Threads : At(u, "putBack")' => At(u, "putBack")
    BY <1>3, <1>4, CloserIsApart DEF Becomes, At
  <2> QED BY <1>7, <1>8, <2>1, <2>2, NumbersAreTyped, LengthsAreTyped DEF NotifyInv, PairInv
<1> QED BY <1>6, <1>7, <1>8, <1>9, <1>10, <1>11 DEF NotifyInv, CountsInv

\* It does not, and stays counted.
LEMMA AddFailsKeeps ==
    ASSUME NotifyInv, NEW t \in AllThreads, AddFails(t)
    PROVE  NotifyInv'
<1> DEFINE r == thread[t].request
           f == Frame("return", thread[t].buffer, r, thread[t].left)
<1>1. /\ At(t, "forward") /\ request' = [request EXCEPT ![r] = "application"]
      /\ thread' = [thread EXCEPT ![t].at = "return"]
      /\ leaked' = leaked + 1
      /\ UNCHANGED <<poolVars, EventRequestQueue, EventCountHeld, dataVars, raced, moduleVars>>
  BY DEF AddFails, Goto
<1>2. /\ ~At(t, "idle") /\ t \in Threads /\ thread[t].buffer = NULL /\ r \in Requests
      /\ ~HasData(thread[t]) /\ ~HasInHand(thread[t]) /\ HasRequest(thread[t])
      /\ request[r] = "adding"
  BY <1>1, FrameOf
     DEF NotifyInv, At, FrameFits, HasData, HasInHand, HasRequest, LifecycleInv, CloserInv,
         AllThreads, CountsInv, RequestsInv, HoldersInv, WithStatus
<1>3. Becomes(t, f)
  BY <1>1, <1>2, FrameOf, StepBecomes DEF NotifyInv, Places
<1>4. /\ f.at = "return" /\ f.buffer = NULL /\ FrameFits(f)
      /\ ~HasData(f) /\ ~HasInHand(f) /\ ~HasRequest(f)
  BY <1>2 DEF Frame, FrameFits, HasData, HasInHand, HasRequest
<1>5. /\ request' \in [Requests -> {"application", "adding", "queued", "retrieved", "cancelled"}]
      /\ request'[r] = "application" /\ \A x \in Requests \ {r} : request'[x] = request[x]
  BY <1>1, <1>2 DEF NotifyInv, CountsInv, RequestsInv, QueueInv
<1> HIDE DEF f
<1>6. ThreadsInv'
  BY <1>3, <1>4, ThreadsMove DEF NotifyInv
<1>7. BuffersInv' /\ UNCHANGED sink
  BY <1>1, <1>2, <1>3, <1>4, BuffersRest DEF NotifyInv
<1>8. RequestsInv'
  <2>1. HoldersInv'
    BY <1>2, <1>3, <1>4, <1>5, HoldersMove DEF NotifyInv, CountsInv, RequestsInv
  <2>2. QueueInv'
    BY <1>1, <1>2, <1>5, QueueStays DEF NotifyInv, CountsInv, RequestsInv
  <2> QED BY <2>1, <2>2 DEF RequestsInv
<1>9. CountInv'
  <2>1. r \in Counted
    BY <1>1, <1>2, InCounted DEF NotifyInv, CountsInv, RequestsInv, HoldersInv, At, HasRequest
  <2>2. Counted' = Counted \ {r}
    BY <1>1, <1>2, <1>3, <1>4, <1>5, InCounted DEF Becomes, At
  <2>3. Forwarded' \subseteq Forwarded
    BY <1>2, <1>3, <1>4, <1>5, InForwarded DEF Becomes
  <2> QED BY <1>1, <2>1, <2>2, <2>3, CountFalls DEF NotifyInv, CountsInv
<1>10. LifecycleInv'
  BY <1>1, <1>2, <1>3, <1>4, CloserIsApart, LifecycleMoves DEF NotifyInv, At
<1>11. PairInv'
  BY <1>1, <1>2, <1>3, <1>4, <1>7, LengthsAreTyped, PairStays DEF NotifyInv, At
<1> QED BY <1>6, <1>7, <1>8, <1>9, <1>10, <1>11 DEF NotifyInv, CountsInv

-----------------------------------------------------------------------------
(* NotifyUserWithRequest_EventRequestReturn and _EventRequestReturnAll.     *)

\* The first request, for whoever comes for one.
LEMMA RetrievesKeeps ==
    ASSUME NotifyInv, NEW t \in AllThreads, Retrieves(t)
    PROVE  NotifyInv'
<1> DEFINE r == Head(EventRequestQueue)
           b == thread[t].buffer
           f == Frame("count", b, r, thread[t].left)
<1>1. /\ At(t, "retrieve") /\ EventRequestQueue # <<>>
      /\ EventRequestQueue' = Tail(EventRequestQueue)
      /\ request' = [request EXCEPT ![r] = "retrieved"]
      /\ thread' = [thread EXCEPT ![t].at = "count", ![t].request = r]
      /\ UNCHANGED <<poolVars, countVars, dataVars, raced, moduleVars>>
  BY DEF Retrieves
<1>2. /\ ~At(t, "idle") /\ r \in Requests /\ request[r] = "queued" /\ ~HasRequest(thread[t])
      /\ HasData(thread[t]) <=> b # NULL
      /\ HasInHand(thread[t]) <=> b # NULL
  BY <1>1, QueueIsTyped
     DEF NotifyInv, At, HasData, HasInHand, HasRequest, CountsInv, RequestsInv
<1>3. Becomes(t, f)
  BY <1>1, <1>2, FrameOf, StepBecomes DEF NotifyInv, Places
<1>4. /\ f.at = "count" /\ f.buffer = b /\ f.request = r /\ f.left = thread[t].left
      /\ FrameFits(f) /\ HasRequest(f)
      /\ HasData(f) <=> b # NULL
      /\ HasInHand(f) <=> b # NULL
  BY <1>2 DEF Frame, FrameFits, HasData, HasInHand, HasRequest
<1>5. /\ request' \in [Requests -> {"application", "adding", "queued", "retrieved", "cancelled"}]
      /\ request'[r] = "retrieved" /\ \A x \in Requests \ {r} : request'[x] = request[x]
  BY <1>1, <1>2 DEF NotifyInv, CountsInv, RequestsInv, QueueInv
<1> HIDE DEF f
<1>6. ThreadsInv'
  BY <1>3, <1>4, ThreadsMove DEF NotifyInv
<1>7. BuffersInv' /\ UNCHANGED sink
  BY <1>1, <1>2, <1>3, <1>4, BuffersRest DEF NotifyInv
<1>8. RequestsInv' /\ Len(EventRequestQueue') = Len(EventRequestQueue) - 1
  <2>1. HoldersInv'
    BY <1>2, <1>3, <1>4, <1>5, HoldersMove DEF NotifyInv, CountsInv, RequestsInv, WithStatus
  <2>2. QueueInv' /\ Len(EventRequestQueue') = Len(EventRequestQueue) - 1
    BY <1>1, <1>2, QueueGives DEF NotifyInv, CountsInv, RequestsInv
  <2> QED BY <2>1, <2>2 DEF RequestsInv
<1>9. CountInv'
  <2>1. \A x \in Requests : x \in Counted' <=> x \in Counted
    <3>1. r \in Counted
      <4>1. \A u \in AllThreads : thread[u].at = "answer" => thread[u].request # r
        BY <1>2 DEF NotifyInv, CountsInv, RequestsInv, HoldersInv, HasRequest, WithStatus
      <4> QED BY <1>2, <4>1, InCounted
    <3> QED BY <1>1, <1>3, <1>4, <1>5, <3>1, InCounted DEF Becomes, At
  <2>2. Forwarded' \subseteq Forwarded
    BY <1>2, <1>3, <1>4, <1>5, InForwarded DEF Becomes
  <2> QED BY <1>1, <2>1, <2>2, CountStays DEF NotifyInv, CountsInv
<1>10. LifecycleInv'
  <2>1. t = Closer => /\ b = NULL /\ closing # "closed"
                      /\ Len(EventRequestQueue') <= thread[t].left - 1
    <3>1. Len(EventRequestQueue) \in Nat /\ thread[t].left \in Int
      BY <1>2, LengthsAreTyped, FrameOf DEF NotifyInv
    <3> QED BY <1>1, <1>8, <3>1 DEF NotifyInv, LifecycleInv, CloserInv, At, HasBuffer
  <2> QED BY <1>1, <1>2, <1>3, <1>4, <2>1, LifecycleMoves DEF NotifyInv
<1>11. PairInv'
  <2>1. Len(EventRequestQueue) \in Nat /\ Len(EventRequestQueue') \in Nat /\ Len(sink) \in Nat
    BY <1>1, <1>8, LengthsAreTyped, QueueIsTyped
       DEF NotifyInv, CountsInv, RequestsInv
  <2>2. CASE t \in Threads /\ b # NULL
    <3>1. Cardinality(Taking') = Cardinality(Taking) - 1 /\ UNCHANGED <<Completing, raced>>
      BY <1>1, <1>3, <1>4, <2>2, CompletingMoves, TakingMoves DEF NotifyInv, At, HasBuffer
    <3>2. \A u \in Threads : At(u, "putBack")' => At(u, "putBack")
      BY <1>3, <1>4, CloserIsApart DEF Becomes, At
    <3> QED BY <1>7, <1>8, <2>1, <3>1, <3>2, NumbersAreTyped DEF NotifyInv, PairInv
  <2>3. CASE t \notin Threads \/ b = NULL
    BY <1>1, <1>3, <1>4, <1>7, <1>8, <2>1, <2>3, PairStays DEF NotifyInv, At, HasBuffer
  <2> QED BY <2>2, <2>3
<1> QED BY <1>6, <1>7, <1>8, <1>9, <1>10, <1>11 DEF NotifyInv, CountsInv

\* There is none: the data, if any, is to be put back.
LEMMA RetrievesNoneKeeps ==
    ASSUME NotifyInv, NEW t \in AllThreads, RetrievesNone(t)
    PROVE  NotifyInv'
<1> DEFINE b == thread[t].buffer
           place == IF b # NULL THEN "putBack" ELSE "return"
           f == Frame(place, b, thread[t].request, thread[t].left)
<1>1. /\ At(t, "retrieve") /\ EventRequestQueue = <<>>
      /\ thread' = [thread EXCEPT ![t].at = place] /\ raced' = (raced \/ b # NULL)
      /\ UNCHANGED <<poolVars, queueVars, dataVars, moduleVars>>
  BY DEF RetrievesNone, Goto, HasBuffer
<1>2. /\ ~At(t, "idle") /\ ~HasRequest(thread[t])
      /\ HasData(thread[t]) <=> b # NULL
      /\ HasInHand(thread[t]) <=> b # NULL
  BY <1>1 DEF At, HasData, HasInHand, HasRequest
<1>3. Becomes(t, f)
  <2>1. place \in Places
    BY DEF Places
  <2> HIDE DEF place
  <2> QED BY <1>1, <1>2, <2>1, FrameOf, StepBecomes DEF NotifyInv
<1>4. /\ f.at = place /\ f.buffer = b /\ FrameFits(f) /\ ~HasRequest(f)
      /\ HasData(f) <=> b # NULL
      /\ HasInHand(f) <=> b # NULL
  BY DEF Frame, FrameFits, HasData, HasInHand, HasRequest
<1> HIDE DEF f
<1>5. ThreadsInv'
  BY <1>3, <1>4, ThreadsMove DEF NotifyInv
<1>6. BuffersInv' /\ UNCHANGED sink
  BY <1>1, <1>2, <1>3, <1>4, BuffersRest DEF NotifyInv
<1>7. CountsInv' /\ UNCHANGED EventRequestQueue
  BY <1>1, <1>2, <1>3, <1>4, CountsRest DEF NotifyInv
<1>8. LifecycleInv'
  <2>1. t = Closer => b = NULL /\ closing # "closed"
    BY <1>1 DEF NotifyInv, LifecycleInv, CloserInv, At, HasBuffer
  <2>2. Len(EventRequestQueue') = 0
    BY <1>1, <1>7
  <2> QED BY <1>1, <1>2, <1>3, <1>4, <2>1, <2>2, LifecycleMoves DEF NotifyInv
<1>9. PairInv'
  <2>1. CASE b # NULL
    BY <1>1, <2>1 DEF NotifyInv, PairInv
  <2>2. CASE b = NULL
    <3>1. UNCHANGED raced
      BY <1>1, <2>2 DEF NotifyInv, PairInv
    <3> QED BY <1>1, <1>3, <1>4, <1>6, <1>7, <2>2, <3>1, LengthsAreTyped, PairStays
            DEF NotifyInv, At, HasBuffer
  <2> QED BY <2>1, <2>2
<1> QED BY <1>5, <1>6, <1>7, <1>8, <1>9 DEF NotifyInv

LEMMA CountsKeeps ==
    ASSUME NotifyInv, NEW t \in AllThreads, Counts(t)
    PROVE  NotifyInv'
<1> DEFINE r == thread[t].request
           b == thread[t].buffer
           f == Frame("answer", b, r, thread[t].left)
<1>1. /\ At(t, "count") /\ EventCountHeld' = EventCountHeld - 1
      /\ thread' = [thread EXCEPT ![t].at = "answer"]
      /\ UNCHANGED <<poolVars, EventRequestQueue, leaked, request, dataVars, raced, moduleVars>>
  BY DEF Counts, Goto
<1>2. /\ ~At(t, "idle") /\ r \in Requests /\ HasRequest(thread[t]) /\ request[r] = "retrieved"
      /\ HasData(thread[t]) <=> b # NULL
      /\ HasInHand(thread[t]) <=> b # NULL
  BY <1>1, FrameOf DEF NotifyInv, At, FrameFits, HasData, HasInHand, HasRequest,
                       CountsInv, RequestsInv, HoldersInv, WithStatus
<1>3. Becomes(t, f)
  BY <1>1, <1>2, FrameOf, StepBecomes DEF NotifyInv, Places
<1>4. /\ f.at = "answer" /\ f.buffer = b /\ f.request = r /\ f.left = thread[t].left
      /\ FrameFits(f) /\ HasRequest(f)
      /\ HasData(f) <=> b # NULL
      /\ HasInHand(f) <=> b # NULL
  BY <1>2 DEF Frame, FrameFits, HasData, HasInHand, HasRequest
<1> HIDE DEF f
<1>5. ThreadsInv'
  BY <1>3, <1>4, ThreadsMove DEF NotifyInv
<1>6. BuffersInv' /\ UNCHANGED sink
  BY <1>1, <1>2, <1>3, <1>4, BuffersRest DEF NotifyInv
<1>7. RequestsInv'
  <2>1. HoldersInv'
    BY <1>1, <1>2, <1>3, <1>4, HoldersMove DEF NotifyInv, CountsInv, RequestsInv, WithStatus
  <2>2. QueueInv'
    BY <1>1 DEF NotifyInv, CountsInv, RequestsInv, QueueInv
  <2> QED BY <2>1, <2>2 DEF RequestsInv
<1>8. CountInv'
  <2>1. r \in Counted
    BY <1>1, <1>2, InCounted DEF NotifyInv, CountsInv, RequestsInv, HoldersInv, At, HasRequest
  <2>2. Counted' = Counted \ {r}
    BY <1>1, <1>3, <1>4, InCounted DEF Becomes, At
  <2>3. Forwarded' \subseteq Forwarded
    BY <1>1, <1>3, <1>4, InForwarded DEF Becomes
  <2> QED BY <1>1, <2>1, <2>2, <2>3, CountFalls DEF NotifyInv, CountsInv
<1>9. LifecycleInv'
  <2>1. t = Closer => /\ b = NULL /\ closing # "closed"
                      /\ Len(EventRequestQueue') <= thread[t].left - 1
    BY <1>1 DEF NotifyInv, LifecycleInv, CloserInv, At, HasBuffer
  <2> QED BY <1>1, <1>2, <1>3, <1>4, <2>1, LifecycleMoves DEF NotifyInv
<1>10. PairInv'
  BY <1>1, <1>3, <1>4, <1>6, LengthsAreTyped, PairStays DEF NotifyInv, At
<1> QED BY <1>5, <1>6, <1>7, <1>8, <1>9, <1>10 DEF NotifyInv, CountsInv

\* The request is completed, with the data if there is any.
LEMMA AnswersKeeps ==
    ASSUME NotifyInv, NEW t \in AllThreads, Answers(t)
    PROVE  NotifyInv'
<1> DEFINE r == thread[t].request
           b == thread[t].buffer
           place == IF b # NULL THEN "reuse"
                    ELSE IF thread[t].left > 1 THEN "retrieve" ELSE "return"
           f == Frame(place, b, r, thread[t].left - 1)
<1>1. /\ At(t, "answer") /\ request' = [request EXCEPT ![r] = "application"]
      /\ delivered' = IF b # NULL THEN delivered \cup {data[b]} ELSE delivered
      /\ thread' = [thread EXCEPT ![t].at = place, ![t].left = thread[t].left - 1]
      /\ UNCHANGED <<poolVars, EventRequestQueue, countVars, data, produced, overwritten,
                     refused, raced, moduleVars>>
  BY DEF Answers, HasBuffer
<1>2. /\ ~At(t, "idle") /\ r \in Requests /\ HasRequest(thread[t]) /\ request[r] = "retrieved"
      /\ HasData(thread[t]) <=> b # NULL
      /\ HasInHand(thread[t]) <=> b # NULL
      /\ thread[t].left \in Int
  BY <1>1, FrameOf DEF NotifyInv, At, FrameFits, HasData, HasInHand, HasRequest,
                       CountsInv, RequestsInv, HoldersInv, WithStatus
<1>3. Becomes(t, f)
  <2>1. place \in Places /\ thread[t].left - 1 \in Int
    BY <1>2 DEF Places
  <2> HIDE DEF place
  <2> QED BY <1>1, <1>2, <2>1, FrameOf, StepBecomes DEF NotifyInv
<1>4. /\ f.at = place /\ f.buffer = b /\ f.left = thread[t].left - 1
      /\ FrameFits(f) /\ ~HasRequest(f) /\ ~HasData(f)
      /\ HasInHand(f) <=> b # NULL
  BY DEF Frame, FrameFits, HasData, HasInHand, HasRequest
<1>5. /\ request' \in [Requests -> {"application", "adding", "queued", "retrieved", "cancelled"}]
      /\ request'[r] = "application" /\ \A x \in Requests \ {r} : request'[x] = request[x]
  BY <1>1, <1>2 DEF NotifyInv, CountsInv, RequestsInv, QueueInv
<1> HIDE DEF f
<1>6. ThreadsInv'
  BY <1>3, <1>4, ThreadsMove DEF NotifyInv
<1>7. PoolsInv' /\ UNCHANGED <<sink, held, InSink>>
  BY <1>1, PoolsStay DEF NotifyInv, BuffersInv
<1>8. HandsInv'
  BY <1>2, <1>3, <1>4, <1>7, HandsMove DEF NotifyInv, BuffersInv
<1>9. DataInv'
  <2>1. CASE b # NULL
    <3>1. WithThread' = WithThread \ {b} /\ b \in WithThread
      BY <1>2, <1>3, <1>4, <2>1, WithThreadGives DEF NotifyInv, BuffersInv
    <3>2. b \notin InSink
      BY <3>1, WithThreadIsHeld, PoolsAreTyped DEF NotifyInv, BuffersInv
    <3>3. b \in Live /\ Live' = Live \ {b}
      BY <1>7, <3>1, <3>2 DEF Live
    <3> QED BY <1>1, <2>1, <3>3, DataGoes DEF NotifyInv, BuffersInv
  <2>2. CASE b = NULL
    <3>1. UNCHANGED Live
      BY <1>2, <1>3, <1>4, <1>7, <2>2, WithThreadStays DEF Live
    <3> QED BY <1>1, <2>2, <3>1, DataStays DEF NotifyInv, BuffersInv, dataVars
  <2> QED BY <2>1, <2>2
<1>10. RequestsInv'
  <2>1. HoldersInv'
    BY <1>2, <1>3, <1>4, <1>5, HoldersMove DEF NotifyInv, CountsInv, RequestsInv
  <2>2. QueueInv'
    BY <1>1, <1>2, <1>5, QueueStays DEF NotifyInv, CountsInv, RequestsInv
  <2> QED BY <2>1, <2>2 DEF RequestsInv
<1>11. CountInv'
  <2>1. \A u \in AllThreads : thread'[u].at = "answer" =>
           u # t /\ thread'[u] = thread[u]
    BY <1>3, <1>4 DEF Becomes
  <2>2. \A u \in AllThreads : thread'[u].at = "forward" =>
           u # t /\ thread'[u] = thread[u]
    BY <1>3, <1>4 DEF Becomes
  <2>3. \A u \in AllThreads : u # t /\ thread[u].at = "answer" => thread'[u] = thread[u]
    BY <1>3 DEF Becomes
  <2>4. \A x \in Requests : x \in Counted' <=> x \in Counted
    <3>1. r \notin Counted /\ r \notin Counted'
      BY <1>1, <1>5, InCounted DEF At
    <3>2. ASSUME NEW x \in Requests, x # r PROVE x \in Counted' => x \in Counted
      <4>1. \A u \in AllThreads : thread[u].at = "answer" /\ thread[u].request = x =>
               thread'[u].at = "answer" /\ thread'[u].request = x
        BY <2>3, <3>2
      <4> QED BY <1>5, <3>2, <4>1, InCounted
    <3>3. ASSUME NEW x \in Requests, x # r PROVE x \in Counted => x \in Counted'
      <4>1. \A u \in AllThreads : thread'[u].at = "answer" /\ thread'[u].request = x =>
               thread[u].at = "answer" /\ thread[u].request = x
        BY <2>1, <3>3
      <4> QED BY <1>5, <3>3, <4>1, InCounted
    <3> QED BY <3>1, <3>2, <3>3
  <2>5. Forwarded' \subseteq Forwarded
    BY <1>2, <1>5, <2>2, InForwarded
  <2> QED BY <1>1, <2>4, <2>5, CountStays DEF NotifyInv, CountsInv
<1>12. LifecycleInv'
  <2>1. t = Closer => /\ b = NULL /\ closing # "closed"
                      /\ Len(EventRequestQueue') <= thread[t].left - 1
    BY <1>1 DEF NotifyInv, LifecycleInv, CloserInv, At, HasBuffer
  <2>2. Len(EventRequestQueue') \in Nat
    BY <1>1, LengthsAreTyped DEF NotifyInv
  <2>3. f.at # "idle"
    BY <1>4
  <2>4. t = Closer => \/ f.at = "retrieve" /\ Len(EventRequestQueue') <= f.left
                      \/ f.at = "return" /\ Len(EventRequestQueue') = 0
    BY <1>2, <1>4, <2>1, <2>2
  <2> QED BY <1>1, <1>2, <1>3, <1>4, <2>1, <2>3, <2>4, LifecycleMoves DEF NotifyInv
<1>13. PairInv'
  BY <1>1, <1>3, <1>4, <1>7, LengthsAreTyped, PairStays DEF NotifyInv, At
<1> QED BY <1>6, <1>7, <1>8, <1>9, <1>10, <1>11, <1>12, <1>13
        DEF NotifyInv, BuffersInv, CountsInv

-----------------------------------------------------------------------------
(* The application cancels.                                                 *)

LEMMA CancelKeeps ==
    ASSUME NotifyInv, NEW r \in Requests, Cancel(r)
    PROVE  NotifyInv'
<1>1. /\ request[r] = "queued" /\ EventRequestQueue' = RemoveFirst(EventRequestQueue, r)
      /\ request' = [request EXCEPT ![r] = "cancelled"]
      /\ UNCHANGED <<poolVars, countVars, thread, dataVars, raced, moduleVars>>
  BY DEF Cancel
<1>2. /\ request'[r] = "cancelled" /\ \A x \in Requests \ {r} : request'[x] = request[x]
  BY <1>1 DEF NotifyInv, CountsInv, RequestsInv, QueueInv
<1>3. ThreadsInv'
  BY <1>1 DEF NotifyInv, ThreadsInv
<1>4. BuffersInv' /\ UNCHANGED sink
  BY <1>1, BuffersSleep DEF NotifyInv
<1>5. RequestsInv' /\ Len(EventRequestQueue') = Len(EventRequestQueue) - 1
  BY <1>1, <1>2, HoldersStay, QueueGives DEF NotifyInv, CountsInv, RequestsInv
<1>6. CountInv'
  <2>1. r \in Counted
    <3>1. \A u \in AllThreads : thread[u].at = "answer" => thread[u].request # r
      BY <1>1 DEF NotifyInv, CountsInv, RequestsInv, HoldersInv, HasRequest, WithStatus
    <3> QED BY <1>1, <3>1, InCounted
  <2>2. \A x \in Requests : x \in Counted' <=> x \in Counted
    BY <1>1, <1>2, <2>1, InCounted
  <2>3. Forwarded' \subseteq Forwarded
    BY <1>1, <1>2, InForwarded
  <2> QED BY <1>1, <2>2, <2>3, CountStays DEF NotifyInv, CountsInv
<1>7. Len(EventRequestQueue') <= Len(EventRequestQueue)
      /\ Len(EventRequestQueue) \in Nat /\ Len(EventRequestQueue') \in Nat
  BY <1>5, LengthsAreTyped, QueueIsTyped DEF NotifyInv, CountsInv, RequestsInv
<1> QED BY <1>1, <1>3, <1>4, <1>5, <1>6, <1>7, OthersSleep DEF NotifyInv, CountsInv

LEMMA CanceledKeeps ==
    ASSUME NotifyInv, NEW r \in Requests, EvtIoCanceledOnQueue(r)
    PROVE  NotifyInv'
<1>1. /\ request[r] = "cancelled" /\ EventCountHeld' = EventCountHeld - 1
      /\ request' = [request EXCEPT ![r] = "application"]
      /\ UNCHANGED <<poolVars, EventRequestQueue, leaked, thread, dataVars, raced, moduleVars>>
  BY DEF EvtIoCanceledOnQueue
<1>2. /\ request' \in [Requests -> {"application", "adding", "queued", "retrieved", "cancelled"}]
      /\ request'[r] = "application" /\ \A x \in Requests \ {r} : request'[x] = request[x]
  BY <1>1 DEF NotifyInv, CountsInv, RequestsInv, QueueInv
<1>3. ThreadsInv'
  BY <1>1 DEF NotifyInv, ThreadsInv
<1>4. BuffersInv' /\ UNCHANGED sink
  BY <1>1, BuffersSleep DEF NotifyInv
<1>5. RequestsInv'
  BY <1>1, <1>2, HoldersStay, QueueStays DEF NotifyInv, CountsInv, RequestsInv
<1>6. CountInv'
  <2>1. r \in Counted
    <3>1. \A u \in AllThreads : thread[u].at = "answer" => thread[u].request # r
      BY <1>1 DEF NotifyInv, CountsInv, RequestsInv, HoldersInv, HasRequest, WithStatus
    <3> QED BY <1>1, <3>1, InCounted
  <2>2. Counted' = Counted \ {r}
    BY <1>1, <1>2, InCounted
  <2>3. Forwarded' \subseteq Forwarded
    BY <1>1, <1>2, InForwarded
  <2> QED BY <1>1, <2>1, <2>2, <2>3, CountFalls DEF NotifyInv, CountsInv
<1>7. Len(EventRequestQueue') <= Len(EventRequestQueue)
      /\ Len(EventRequestQueue) \in Nat /\ Len(EventRequestQueue') \in Nat
  BY <1>1, LengthsAreTyped DEF NotifyInv
<1> QED BY <1>1, <1>3, <1>4, <1>5, <1>6, <1>7, OthersSleep DEF NotifyInv, CountsInv

-----------------------------------------------------------------------------
(* The close.                                                               *)

LEMMA CloseBeginsKeeps ==
    ASSUME NotifyInv, CloseBegins
    PROVE  NotifyInv'
<1>1. /\ closing = "open" /\ closing' = "closing"
      /\ UNCHANGED <<poolVars, EventRequestQueue, countVars, request, thread, dataVars,
                     raced, references>>
  BY DEF CloseBegins, queueVars
<1>2. ThreadsInv' /\ CountsInv'
  <2>1. HoldersInv' /\ QueueInv'
    BY <1>1 DEF NotifyInv, CountsInv, RequestsInv, HoldersInv, QueueInv
  <2>2. /\ \A x \in Requests : x \in Counted' <=> x \in Counted
        /\ Forwarded' \subseteq Forwarded
    BY <1>1, InCounted, InForwarded
  <2>3. CountInv'
    BY <1>1, <2>2, CountStays DEF NotifyInv, CountsInv
  <2> QED BY <1>1, <2>1, <2>3 DEF NotifyInv, ThreadsInv, CountsInv, RequestsInv
<1>3. BuffersInv' /\ UNCHANGED sink
  BY <1>1, BuffersSleep DEF NotifyInv
<1>4. LifecycleInv'
  <2>1. UNCHANGED Active
    BY <1>1 DEF Active, At
  <2> QED BY <1>1, <2>1 DEF NotifyInv, LifecycleInv, ActiveInv, CloserInv, At
<1>5. PairInv'
  <2>1. /\ UNCHANGED <<Completing, Taking>>
        /\ \A u \in Threads : At(u, "putBack")' => At(u, "putBack")
    BY <1>1, NumbersStay
  <2> QED BY <1>1, <1>3, <2>1 DEF NotifyInv, PairInv
<1> QED BY <1>2, <1>3, <1>4, <1>5 DEF NotifyInv

\* No Method runs: every request that waits is counted.
LEMMA CloseReturnsAllKeeps ==
    ASSUME NotifyInv, CloseReturnsAll
    PROVE  NotifyInv'
<1> DEFINE t == Closer
           f == Frame("retrieve", NULL, NULL, EventCountHeld)
<1>1. /\ closing = "closing" /\ references = 0 /\ closing' = "returning"
      /\ thread' = [thread EXCEPT ![t] = f]
      /\ UNCHANGED <<poolVars, queueVars, dataVars, raced, references>>
  BY DEF CloseReturnsAll, Frame
<1>2. f \in Frames /\ FrameFits(f) /\ t \in AllThreads /\ EventCountHeld \in Nat
  BY CloserIsApart, HeldIsTyped
     DEF Frame, Frames, Places, FrameFits, HasRequest, NotifyInv, CountsInv, CountInv
<1>3. Becomes(t, f)
  BY <1>1, <1>2, EnterBecomes DEF NotifyInv
<1>4. /\ f.at = "retrieve" /\ f.buffer = NULL /\ f.left = EventCountHeld
      /\ ~HasData(f) /\ ~HasInHand(f) /\ ~HasRequest(f)
  BY DEF Frame, HasData, HasInHand, HasRequest
<1>5. /\ At(t, "idle")
      /\ ~HasData(thread[t]) /\ ~HasInHand(thread[t]) /\ ~HasRequest(thread[t])
  BY <1>1 DEF NotifyInv, LifecycleInv, CloserInv, HasData, HasInHand, HasRequest, At
<1> HIDE DEF f
<1>6. ThreadsInv'
  BY <1>2, <1>3, ThreadsMove DEF NotifyInv
<1>7. BuffersInv' /\ UNCHANGED sink
  BY <1>1, <1>2, <1>3, <1>4, <1>5, BuffersRest DEF NotifyInv
<1>8. CountsInv' /\ UNCHANGED EventRequestQueue
  BY <1>1, <1>2, <1>3, <1>4, <1>5, CountsRest DEF NotifyInv
<1>9. LifecycleInv'
  <2>1. Active = {} /\ Active' = {}
    <3>1. Active = {}
      BY <1>1, FS_EmptySet DEF NotifyInv, LifecycleInv, ActiveInv
    <3> QED BY <1>3, <3>1, CloserIsApart DEF Active, At, Becomes
  <2>2. Len(EventRequestQueue) <= EventCountHeld
    <3>1. Forwarded \subseteq Counted
      BY ForwardedIsCounted DEF NotifyInv, CountsInv
    <3>2. /\ Cardinality(Forwarded) <= Cardinality(Counted)
          /\ Cardinality(Forwarded) \in Nat /\ Cardinality(Counted) \in Nat
      BY <3>1, FS_Subset, FS_CardinalityType DEF NotifyInv, CountsInv, CountInv
    <3>3. Len(EventRequestQueue) <= Cardinality(Forwarded)
      BY QueueIsForwarded DEF NotifyInv, CountsInv, RequestsInv
    <3> QED BY <3>2, <3>3, LengthsAreTyped DEF NotifyInv, CountsInv, CountInv
  <2>3. thread'[Closer] = f
    BY <1>3 DEF Becomes
  <2>4. ActiveInv'
    BY <1>1, <2>1 DEF NotifyInv, LifecycleInv, ActiveInv
  <2>5. CloserInv'
    BY <1>1, <1>4, <1>8, <2>1, <2>2, <2>3 DEF CloserInv, At, HasBuffer
  <2> QED BY <2>4, <2>5 DEF LifecycleInv
<1>10. PairInv'
  BY <1>1, <1>2, <1>3, <1>7, <1>8, CloserIsApart, LengthsAreTyped, PairStays DEF NotifyInv
<1> QED BY <1>6, <1>7, <1>8, <1>9, <1>10 DEF NotifyInv

LEMMA CloseEndsKeeps ==
    ASSUME NotifyInv, CloseEnds
    PROVE  NotifyInv'
<1>1. /\ closing = "returning" /\ At(Closer, "return") /\ closing' = "closed"
      /\ UNCHANGED <<poolVars, EventRequestQueue, countVars, request, thread, dataVars,
                     raced, references>>
  BY DEF CloseEnds, queueVars
<1>2. ThreadsInv' /\ CountsInv'
  <2>1. HoldersInv' /\ QueueInv'
    BY <1>1 DEF NotifyInv, CountsInv, RequestsInv, HoldersInv, QueueInv
  <2>2. /\ \A x \in Requests : x \in Counted' <=> x \in Counted
        /\ Forwarded' \subseteq Forwarded
    BY <1>1, InCounted, InForwarded
  <2>3. CountInv'
    BY <1>1, <2>2, CountStays DEF NotifyInv, CountsInv
  <2> QED BY <1>1, <2>1, <2>3 DEF NotifyInv, ThreadsInv, CountsInv, RequestsInv
<1>3. BuffersInv' /\ UNCHANGED sink
  BY <1>1, BuffersSleep DEF NotifyInv
<1>4. LifecycleInv'
  <2>1. UNCHANGED Active
    BY <1>1 DEF Active, At
  <2> QED BY <1>1, <2>1 DEF NotifyInv, LifecycleInv, ActiveInv, CloserInv, At, HasBuffer
<1>5. PairInv'
  <2>1. /\ UNCHANGED <<Completing, Taking>>
        /\ \A u \in Threads : At(u, "putBack")' => At(u, "putBack")
    BY <1>1, NumbersStay
  <2> QED BY <1>1, <1>3, <2>1 DEF NotifyInv, PairInv
<1> QED BY <1>2, <1>3, <1>4, <1>5 DEF NotifyInv

-----------------------------------------------------------------------------
(* The invariant.                                                           *)

LEMMA NotifyInitInv == Init => NotifyInv
<1> SUFFICES ASSUME Init PROVE NotifyInv
  OBVIOUS
<1>1. /\ PoolInit /\ EventRequestQueue = <<>> /\ EventCountHeld = 0 /\ leaked = 0
      /\ request = [r \in Requests |-> "application"]
      /\ thread = [t \in AllThreads |-> Idle] /\ data = [b \in Buffers |-> 0]
      /\ produced = 0 /\ delivered = {} /\ overwritten = {} /\ refused = {}
      /\ raced = FALSE /\ references = 0 /\ closing = "open"
  BY DEF Init
<1>2. \A t \in AllThreads : thread[t] = Idle /\ thread[t].at = "idle"
  BY <1>1 DEF Idle
<1>3. ThreadsInv
  BY <1>1, <1>2 DEF ThreadsInv, FrameFits, HasRequest
<1>4. PoolsInv /\ InSink = {} /\ sink = <<>>
  BY <1>1, PoolsInitInv
<1>5. HandsInv /\ WithThread = {}
  <2>1. \A b : b \notin WithThread
    BY <1>2, InWithThread DEF HasData
  <2> QED BY <1>2, <2>1 DEF HandsInv, HasInHand, HasData
<1>6. DataInv
  BY <1>1, <1>4, <1>5 DEF DataInv, Live, Gone
<1>7. RequestsInv
  <2>1. ToSet(EventRequestQueue) = {} /\ IsInjective(EventRequestQueue)
    BY <1>1 DEF ToSet, IsInjective
  <2>2. EventRequestQueue \in Seq(Requests)
    BY <1>1
  <2> QED BY <1>1, <1>2, <2>1, <2>2 DEF RequestsInv, QueueInv, HoldersInv, HasRequest
<1>8. CountInv
  <2>1. Counted = {} /\ Forwarded = {}
    BY <1>1, <1>2, InCounted, InForwarded
  <2> QED BY <1>1, <2>1, FS_EmptySet, NotifyAssumption DEF CountInv, NotifyAssumption
<1>9. LifecycleInv
  <2>1. Active = {}
    BY <1>2, CloserIsApart DEF Active, At
  <2> QED BY <1>1, <1>2, <2>1, FS_EmptySet, CloserIsApart
          DEF LifecycleInv, ActiveInv, CloserInv, At
<1>10. PairInv
  <2>1. Len(sink) = 0 /\ Cardinality(Completing) \in Nat
    BY <1>4, <1>9, NumbersAreTyped
  <2>2. \A t \in Threads : ~At(t, "putBack")
    BY <1>2, CloserIsApart DEF At
  <2>3. raced \in BOOLEAN
    BY <1>1
  <2>4. Len(sink) <= Cardinality(Completing)
    BY <2>1
  <2> QED BY <2>2, <2>3, <2>4, Zenon DEF PairInv
<1> QED BY <1>3, <1>4, <1>5, <1>6, <1>7, <1>8, <1>9, <1>10 DEF NotifyInv, BuffersInv, CountsInv

LEMMA NotifyNextInv == NotifyInv /\ [Next]_vars => NotifyInv'
<1> SUFFICES ASSUME NotifyInv, [Next]_vars PROVE NotifyInv'
  OBVIOUS
<1>1. ASSUME NEW t \in AllThreads, ThreadStep(t) PROVE NotifyInv'
  <2>1. CASE DataIsStored(t) \/ AddIsRefused(t) \/ AddForwards(t) \/ AddFails(t)
    BY <2>1, DataIsStoredKeeps, AddIsRefusedKeeps, AddForwardsKeeps, AddFailsKeeps
  <2>2. CASE \E b \in Buffers : TakesData(t, b)
    BY <2>2, TakesDataKeeps
  <2>3. CASE FindsNothing(t) \/ Retrieves(t) \/ RetrievesNone(t) \/ Counts(t)
    BY <2>3, FindsNothingKeeps, RetrievesKeeps, RetrievesNoneKeeps, CountsKeeps
  <2>4. CASE Answers(t) \/ PutsBack(t) \/ Reuses(t) \/ MethodReturns(t) \/ RefusedUnlocks(t)
    BY <2>4, AnswersKeeps, PutsBackKeeps, ReusesKeeps, MethodReturnsKeeps, RefusedUnlocksKeeps
  <2> QED BY <1>1, <2>1, <2>2, <2>3, <2>4 DEF ThreadStep
<1>2. ASSUME NEW t \in Threads,
             \/ \E b \in Buffers : DataProcess(t, b)
             \/ DataIsRefused(t) \/ \E r \in Requests : EventRequestAdd(t, r)
             \/ RequestReturn(t) \/ RequestReturnAll(t)
      PROVE  NotifyInv'
  <2>1. CASE \E b \in Buffers : DataProcess(t, b)
    BY <2>1, DataProcessKeeps
  <2>2. CASE DataIsRefused(t) \/ \E r \in Requests : EventRequestAdd(t, r)
    BY <2>2, DataIsRefusedKeeps, EventRequestAddKeeps
  <2>3. CASE RequestReturn(t)
    BY <2>3, ReturnEntersKeeps DEF RequestReturn
  <2>4. CASE RequestReturnAll(t)
    <3>1. EventCountHeld \in Int
      BY DEF NotifyInv, CountsInv, CountInv
    <3> QED BY <2>4, <3>1, ReturnEntersKeeps DEF RequestReturnAll
  <2> QED BY <1>2, <2>1, <2>2, <2>3, <2>4
<1>3. ASSUME NEW r \in Requests, Cancel(r) \/ EvtIoCanceledOnQueue(r) PROVE NotifyInv'
  BY <1>3, CancelKeeps, CanceledKeeps
<1>4. CASE CloseBegins \/ CloseReturnsAll \/ CloseEnds
  BY <1>4, CloseBeginsKeeps, CloseReturnsAllKeeps, CloseEndsKeeps
<1>5. CASE UNCHANGED vars
  BY <1>5, UnlockedSleeps DEF vars, queueVars
<1> QED BY <1>1, <1>2, <1>3, <1>4, <1>5 DEF Next

LEMMA NotifySpecInv == Spec => []NotifyInv
BY NotifyInitInv, NotifyNextInv, PTL DEF Spec

-----------------------------------------------------------------------------

\* EventCountHeld is the number of the requests that have to be counted and of
\* those that leaked, so that the decrement of a request that leaves never finds
\* it at 0; the limit holds; and the close deletes no request with the queue.
THEOREM CountsAreKept == Spec => []RequestsAreCounted
<1>1. NotifyInv => RequestsAreCounted
  <2> SUFFICES ASSUME NotifyInv PROVE RequestsAreCounted
    OBVIOUS
  <2>1. /\ IsFiniteSet(Counted) /\ IsFiniteSet(Forwarded)
        /\ leaked \in Nat /\ EventCountHeld = Cardinality(Counted) + leaked
        /\ Cardinality(Forwarded) <= MaximumNumberOfPendingRequests
    BY DEF NotifyInv, CountsInv, CountInv
  <2>2. /\ Len(EventRequestQueue) <= Cardinality(Forwarded)
        /\ EventRequestQueue = <<>> <=> Len(EventRequestQueue) = 0
        /\ Len(EventRequestQueue) \in Nat
    BY QueueIsForwarded, QueueIsTyped DEF NotifyInv, CountsInv, RequestsInv
  <2>3. /\ Cardinality(Counted) \in Nat /\ Cardinality(Forwarded) \in Nat
        /\ MaximumNumberOfPendingRequests \in Nat
    BY <2>1, FS_CardinalityType, NotifyAssumption DEF NotifyAssumption
  <2>4. closing = "closed" => Len(EventRequestQueue) = 0
    BY DEF NotifyInv, LifecycleInv, CloserInv
  <2> QED BY <2>1, <2>2, <2>3, <2>4 DEF RequestsAreCounted
<1> QED BY <1>1, NotifySpecInv, PTL

\* Every datum that found a buffer has exactly one fate: it waits in one buffer or
\* was delivered or replaced, however the threads interleave between the lock, the
\* queue of requests and the pools.
THEOREM DataIsNeverLost == Spec => []DataIsDeliveredOnce
<1>1. NotifyInv => DataIsDeliveredOnce
  BY DataInvIsEnough DEF NotifyInv, BuffersInv
<1> QED BY <1>1, NotifySpecInv, PTL

\* As long as no thread that had data found its request gone, data and a
\* request do not both wait when no Method runs.
THEOREM DataMeetsRequests == Spec => []PairsMeet
<1>1. NotifyInv => PairsMeet
  <2> SUFFICES ASSUME NotifyInv, ~raced, \A t \in Threads : At(t, "idle")
               PROVE  EventRequestQueue = <<>> \/ sink = <<>>
    BY DEF PairsMeet
  <2>1. Completing = {} /\ Taking = {}
    BY DEF Completing, Taking, At
  <2>2. Len(EventRequestQueue) <= 0 \/ Len(sink) <= 0
    BY <2>1, FS_EmptySet DEF NotifyInv, PairInv
  <2>3. sink = <<>> <=> Len(sink) = 0
    BY PoolsAreTyped DEF NotifyInv, BuffersInv
  <2>4. EventRequestQueue = <<>> <=> Len(EventRequestQueue) = 0
    BY QueueIsTyped DEF NotifyInv, CountsInv, RequestsInv
  <2> QED BY <2>2, <2>3, <2>4, LengthsAreTyped DEF NotifyInv
<1> QED BY <1>1, NotifySpecInv, PTL
=============================================================================
