------------------------ MODULE ListenerThreadsProofs ------------------------
(***************************************************************************)
(* For any number of tasks, threads, lists, calls and crashes: every       *)
(* thread of the manager can be stopped, as long as no two starts run into *)
(* each other (Stoppable); the settings are clean, load as they were saved *)
(* (EntriesApply, LoadedAsSaved) and are not forgotten (NothingForgotten); *)
(* a refresh that has no company finds its ports free (ProbesUndisturbed); *)
(* and a start that has none leaves a thread for each endpoint, with the   *)
(* settings of then (ServesSettings).                                      *)
(***************************************************************************)
EXTENDS ListenerThreads, FiniteSetTheorems, TLAPS

USE ThreadsAssumption

-----------------------------------------------------------------------------
(* What is left of a command: each "stop" and "start" is followed by its   *)
(* "join", each "spawn" by its "store", and there is a "start" between any *)
(* two stores.                                                             *)

StoreFirst(s) ==
    \E k \in 1 .. Len(s) : s[k] = "store" /\ \A j \in 1 .. k - 1 : s[j] # "start"

Followed(s) ==
    \A k \in 1 .. Len(s) :
        /\ s[k] \in {"stop", "start"} => k < Len(s) /\ s[k + 1] = "join"
        /\ s[k] = "spawn" => k < Len(s) /\ s[k + 1] = "store"

StoresApart(s) ==
    \A j, k \in 1 .. Len(s) :
        j < k /\ s[j] = "store" /\ s[k] = "store"
        => \E i \in j + 1 .. k - 1 : s[i] = "start"

LoadsFirst(s) == \A k \in 2 .. Len(s) : s[k] # "load"

Program(s) ==
    s \in Seq(Steps) /\ Followed(s) /\ StoresApart(s) /\ LoadsFirst(s)

\* A command before its first step.
Complete(s) ==
    /\ Program(s) /\ ~StoreFirst(s)
    /\ \A k \in 1 .. Len(s) : s[k] # "load"

(* One step less of a program is a program, whose first store is not new   *)
(* unless a "start" was taken.                                             *)
LEMMA TailOfProgram ==
    ASSUME NEW s, Program(s), s # <<>>
    PROVE  /\ Program(Tail(s))
           /\ s[1] # "start" /\ StoreFirst(Tail(s)) => StoreFirst(s)
           /\ s[1] = "store" => ~StoreFirst(Tail(s))
           /\ s[1] \in {"stop", "start"} => Tail(s) # <<>> /\ Tail(s)[1] = "join"
           /\ s[1] = "spawn" => Tail(s) # <<>> /\ Tail(s)[1] = "store"
<1> DEFINE t == Tail(s)
<1>1. /\ t \in Seq(Steps) /\ Len(t) = Len(s) - 1 /\ Len(s) \in Nat /\ Len(s) > 0
      /\ \A k \in 1 .. Len(t) : t[k] = s[k + 1]
  BY DEF Program
<1>2. Followed(t)
  BY <1>1 DEF Program, Followed
<1>3. StoresApart(t)
  <2> SUFFICES ASSUME NEW j \in 1 .. Len(t), NEW k \in 1 .. Len(t),
                      j < k, t[j] = "store", t[k] = "store"
               PROVE  \E i \in j + 1 .. k - 1 : t[i] = "start"
    BY DEF StoresApart
  <2>1. PICK i \in j + 2 .. k : s[i] = "start"
    BY <1>1 DEF Program, StoresApart
  <2>2. i - 1 \in j + 1 .. k - 1 /\ t[i - 1] = "start"
    BY <1>1, <2>1
  <2> QED BY <2>2
<1>4. LoadsFirst(t)
  BY <1>1 DEF Program, LoadsFirst
<1>5. ASSUME s[1] # "start", StoreFirst(t) PROVE StoreFirst(s)
  <2>1. PICK k \in 1 .. Len(t) : t[k] = "store" /\ \A j \in 1 .. k - 1 : t[j] # "start"
    BY <1>5 DEF StoreFirst
  <2>2. \A j \in 1 .. k : s[j] # "start"
    <3> TAKE j \in 1 .. k
    <3>1. CASE j = 1
      BY <1>5, <3>1
    <3>2. CASE j > 1
      BY <1>1, <2>1, <3>2
    <3> QED BY <3>1, <3>2
  <2>3. k + 1 \in 1 .. Len(s) /\ s[k + 1] = "store"
    BY <1>1, <2>1
  <2> QED BY <2>2, <2>3 DEF StoreFirst
<1>6. ASSUME s[1] = "store" PROVE ~StoreFirst(t)
  <2> SUFFICES ASSUME NEW k \in 1 .. Len(t), t[k] = "store"
               PROVE  \E j \in 1 .. k - 1 : t[j] = "start"
    BY DEF StoreFirst
  <2>0. 1 \in 1 .. Len(s) /\ k + 1 \in 1 .. Len(s) /\ 1 < k + 1 /\ s[k + 1] = "store"
    BY <1>1
  <2>1. PICK i \in 1 + 1 .. (k + 1) - 1 : s[i] = "start"
    BY <1>6, <2>0 DEF Program, StoresApart
  <2>2. i - 1 \in 1 .. k - 1 /\ i - 1 \in 1 .. Len(t) /\ s[(i - 1) + 1] = "start"
    BY <1>1, <2>1
  <2>3. t[i - 1] = "start"
    BY <1>1, <2>2
  <2> QED BY <2>2, <2>3
<1>7. /\ s[1] \in {"stop", "start"} => 1 < Len(s) /\ s[1 + 1] = "join"
      /\ s[1] = "spawn" => 1 < Len(s) /\ s[1 + 1] = "store"
  <2>1. 1 \in 1 .. Len(s)
    BY <1>1
  <2> QED BY <2>1 DEF Program, Followed
<1>8. 1 < Len(s) => t # <<>> /\ t[1] = s[1 + 1]
  <2> HIDE DEF t
  <2> SUFFICES ASSUME 1 < Len(s) PROVE t # <<>> /\ t[1] = s[1 + 1]
    OBVIOUS
  <2>1. 1 \in 1 .. Len(t)
    BY <1>1
  <2>2. t[1] = s[1 + 1]
    BY <1>1, <2>1
  <2> QED BY <1>1, <2>1, <2>2
<1>9. Program(t)
  BY <1>1, <1>2, <1>3, <1>4 DEF Program
<1>10. /\ s[1] \in {"stop", "start"} => t # <<>> /\ t[1] = "join"
       /\ s[1] = "spawn" => t # <<>> /\ t[1] = "store"
  <2> HIDE DEF t
  <2> QED BY <1>7, <1>8
<1> HIDE DEF t
<1> QED BY <1>5, <1>6, <1>9, <1>10 DEF t

(* Two commands one after the other are a command.                         *)
LEMMA ConcatIsComplete ==
    ASSUME NEW s, NEW t, Complete(s), Complete(t)
    PROVE  Complete(s \o t)
<1> DEFINE u == s \o t
<1>1. /\ s \in Seq(Steps) /\ t \in Seq(Steps) /\ u \in Seq(Steps)
      /\ Len(u) = Len(s) + Len(t) /\ Len(s) \in Nat /\ Len(t) \in Nat
      /\ \A k \in 1 .. Len(u) : u[k] = IF k <= Len(s) THEN s[k] ELSE t[k - Len(s)]
  BY DEF Complete, Program
<1>2. Followed(u)
  BY <1>1 DEF Complete, Program, Followed
<1>3. \A k \in 1 .. Len(u) : u[k] = "store" =>
        \E i \in 1 .. k - 1 : u[i] = "start" /\ (k > Len(s) => i > Len(s))
  <2> TAKE k \in 1 .. Len(u)
  <2> HAVE u[k] = "store"
  <2>1. CASE k <= Len(s)
    <3>1. PICK i \in 1 .. k - 1 : s[i] = "start"
      BY <1>1, <2>1 DEF Complete, StoreFirst
    <3> QED BY <1>1, <2>1, <3>1
  <2>2. CASE k > Len(s)
    <3>1. k - Len(s) \in 1 .. Len(t) /\ t[k - Len(s)] = "store"
      BY <1>1, <2>2
    <3>2. PICK i \in 1 .. k - Len(s) - 1 : t[i] = "start"
      BY <3>1 DEF Complete, StoreFirst
    <3>3. i + Len(s) \in 1 .. k - 1 /\ u[i + Len(s)] = "start"
      BY <1>1, <2>2, <3>2
    <3> QED BY <1>1, <3>2, <3>3
  <2> QED BY <1>1, <2>1, <2>2
<1>4. ~StoreFirst(u)
  BY <1>3 DEF StoreFirst
<1>5. StoresApart(u)
  <2> SUFFICES ASSUME NEW j \in 1 .. Len(u), NEW k \in 1 .. Len(u),
                      j < k, u[j] = "store", u[k] = "store"
               PROVE  \E i \in j + 1 .. k - 1 : u[i] = "start"
    BY DEF StoresApart
  <2>1. CASE k <= Len(s)
    <3>1. j \in 1 .. Len(s) /\ k \in 1 .. Len(s) /\ s[j] = "store" /\ s[k] = "store"
      BY <1>1, <2>1
    <3>2. PICK i \in j + 1 .. k - 1 : s[i] = "start"
      BY <3>1 DEF Complete, Program, StoresApart
    <3> QED BY <1>1, <2>1, <3>2
  <2>2. CASE j <= Len(s) /\ k > Len(s)
    <3>1. PICK i \in 1 .. k - 1 : u[i] = "start" /\ i > Len(s)
      BY <1>3, <2>2
    <3>2. i \in j + 1 .. k - 1
      BY <1>1, <2>2, <3>1
    <3> QED BY <3>1, <3>2
  <2>3. CASE j > Len(s)
    <3> DEFINE a == j - Len(s)
               b == k - Len(s)
    <3>1. a \in 1 .. Len(t) /\ b \in 1 .. Len(t) /\ a < b /\ t[a] = "store" /\ t[b] = "store"
      BY <1>1, <2>3
    <3>2. PICK i \in a + 1 .. b - 1 : t[i] = "start"
      BY <3>1 DEF Complete, Program, StoresApart
    <3>3. i + Len(s) \in j + 1 .. k - 1 /\ u[i + Len(s)] = "start"
      BY <1>1, <2>3, <3>2
    <3> QED BY <3>3
  <2> QED BY <1>1, <2>1, <2>2, <2>3
<1>6. \A k \in 1 .. Len(u) : u[k] # "load"
  BY <1>1 DEF Complete
<1> QED BY <1>1, <1>2, <1>4, <1>5, <1>6 DEF Complete, Program, LoadsFirst

LEMMA CommandsAreComplete ==
    /\ Complete(<<>>) /\ Complete(Start) /\ Complete(Refresh)
    /\ \A part \in Part : Complete(Save(part))
<1>1. Complete(<<>>)
  BY DEF Complete, Program, Followed, StoresApart, LoadsFirst, StoreFirst
<1>2. Complete(Stop)
  BY DEF Stop, Steps, Complete, Program, Followed, StoresApart, LoadsFirst, StoreFirst
<1>3. Complete(Start)
  <2>1. /\ Start \in Seq(Steps) /\ Len(Start) = 6
        /\ Start[1] = "start" /\ Start[2] = "join" /\ Start[3] = "endpoints"
        /\ Start[4] = "assignments" /\ Start[5] = "spawn" /\ Start[6] = "store"
    BY DEF Start, Steps
  <2>2. \A k \in 1 .. Len(Start) : k \in {1, 2, 3, 4, 5, 6}
    BY <2>1
  <2>3. Followed(Start) /\ LoadsFirst(Start) /\ \A k \in 1 .. Len(Start) : Start[k] # "load"
    BY <2>1, <2>2 DEF Followed, LoadsFirst
  <2>4. \A k \in 1 .. Len(Start) : Start[k] = "store" => k = 6
    BY <2>1, <2>2
  <2>5. StoresApart(Start)
    BY <2>4 DEF StoresApart
  <2>6. ~StoreFirst(Start)
    <3>1. 1 \in 1 .. 6 - 1
      OBVIOUS
    <3> QED BY <2>1, <2>4, <3>1 DEF StoreFirst
  <2> QED BY <2>1, <2>3, <2>5, <2>6 DEF Complete, Program
<1>4. /\ Complete(<<"scan", "probe">>) /\ Complete(<<"list">>)
      /\ Complete(<<"truncate", "write">>) /\ Complete(<<"set">>)
  BY DEF Steps, Complete, Program, Followed, StoresApart, LoadsFirst, StoreFirst
<1>5. Complete(Refresh)
  BY <1>2, <1>3, <1>4, ConcatIsComplete DEF Refresh
<1>6. \A part \in Part : Complete(Save(part))
  BY <1>1, <1>2, <1>3, <1>4, ConcatIsComplete DEF Save
<1> QED BY <1>1, <1>3, <1>5, <1>6

-----------------------------------------------------------------------------
(* The inductive invariant.  Handles are in somebody's hands only between  *)
(* a step that takes or makes them and the one that joins or stores them,  *)
(* and unless two starts ran into each other there is nothing in the list  *)
(* that a store could overwrite.                                           *)

IsList(s) == s \in Seq(Elements(s))

Shapes ==
    /\ IsList(endpoint_listeners)
    /\ DOMAIN handles = Process /\ \A p \in Process : IsList(handles[p])
    /\ DOMAIN threads = Slot
    /\ DOMAIN todo = Process /\ \A p \in Process : Program(todo[p])

LoadsAlone ==
    At(Main, "load") => \A q \in Process \ {Main} : todo[q] = <<>>

HandsBusy ==
    \A p \in Process : handles[p] # <<>> =>
        todo[p] # <<>> /\ todo[p][1] \in {"join", "store"}

OneStart ==
    ~crossed => \A p \in Process : StoreFirst(todo[p]) =>
        /\ endpoint_listeners = <<>>
        /\ \A q \in Process \ {p} : ~StoreFirst(todo[q])

HandlesInv == Shapes /\ LoadsAlone /\ HandsBusy /\ OneStart /\ Stoppable

\* What the start of the process and its end leave.
Fresh ==
    /\ endpoint_listeners = <<>> /\ threads = NoThreads
    /\ todo = Setup /\ handles = Each(<<>>)

LEMMA FreshIsInv == Fresh => HandlesInv
<1> SUFFICES ASSUME Fresh PROVE HandlesInv
  OBVIOUS
<1>1. \A p \in Process : todo[p] \in {<<>>, <<"load">>} /\ handles[p] = <<>>
  BY DEF Fresh, Setup, Each
<1>2. /\ Program(<<>>) /\ ~StoreFirst(<<>>)
      /\ Program(<<"load">>) /\ ~StoreFirst(<<"load">>)
  BY DEF Steps, Program, Followed, StoresApart, LoadsFirst, StoreFirst
<1>3. IsList(<<>>)
  BY DEF IsList
<1>4. Shapes
  BY <1>1, <1>2, <1>3 DEF Fresh, Shapes, Setup, Each, NoThreads
<1>5. LoadsAlone
  BY DEF Fresh, LoadsAlone, Setup, At
<1>6. HandsBusy /\ OneStart
  BY <1>1, <1>2 DEF HandsBusy, OneStart
<1>7. Stoppable
  BY DEF Fresh, Stoppable, NoThreads
<1> QED BY <1>4, <1>5, <1>6, <1>7 DEF HandlesInv

(* The rest of the invariant after a step of p that is no "start".         *)
LEMMA StepKeepsPrograms ==
    ASSUME HandlesInv, NEW p \in Process, todo[p] # <<>>, todo[p][1] # "start",
           Proceed(p) \/ Fail(p),
           endpoint_listeners = <<>> => endpoint_listeners' = <<>>,
           crossed' = crossed
    PROVE  /\ DOMAIN todo' = Process /\ \A q \in Process : Program(todo'[q])
           /\ LoadsAlone' /\ OneStart'
           /\ \A q \in Process \ {p} : todo'[q] = todo[q]
<1>1. /\ DOMAIN todo' = Process
      /\ todo'[p] \in {Tail(todo[p]), <<>>}
      /\ \A q \in Process \ {p} : todo'[q] = todo[q]
  BY DEF HandlesInv, Shapes, Proceed, Fail
<1>2. Program(todo[p])
  BY DEF HandlesInv, Shapes
<1>3. Complete(<<>>)
  BY CommandsAreComplete
<1>4. Program(todo'[p]) /\ (StoreFirst(todo'[p]) => StoreFirst(todo[p]))
  <2>1. /\ Program(Tail(todo[p]))
        /\ StoreFirst(Tail(todo[p])) => StoreFirst(todo[p])
    BY <1>2, TailOfProgram
  <2>2. Program(<<>>) /\ ~StoreFirst(<<>>)
    BY <1>3 DEF Complete
  <2> QED BY <1>1, <2>1, <2>2
<1>5. \A q \in Process : Program(todo'[q])
  BY <1>1, <1>4 DEF HandlesInv, Shapes
<1>6. LoadsAlone'
  <2> SUFFICES ASSUME todo'[Main] # <<>>, Head(todo'[Main]) = "load" PROVE FALSE
    BY <1>1 DEF LoadsAlone, At
  <2>1. Main \in Process
    BY DEF Process
  <2>2. CASE p = Main
    <3>1. todo'[Main] = Tail(todo[Main])
      BY <1>1, <2>2
    <3>2. Head(Tail(todo[Main])) = todo[Main][2] /\ 2 \in 2 .. Len(todo[Main])
      BY <1>2, <2>2, <3>1 DEF Program
    <3> QED BY <1>2, <2>2, <3>1, <3>2 DEF Program, LoadsFirst
  <2>3. CASE p # Main
    BY <1>1, <2>1, <2>3 DEF HandlesInv, LoadsAlone, At
  <2> QED BY <2>2, <2>3
<1>7. OneStart'
  BY <1>1, <1>4 DEF HandlesInv, OneStart
<1> QED BY <1>1, <1>5, <1>6, <1>7

\* A process that is at a step other than these has nothing in its hands.
LEMMA EmptyHands ==
    ASSUME HandlesInv, NEW p \in Process, todo[p][1] \notin {"join", "store"}
    PROVE  handles[p] = <<>>
BY DEF HandlesInv, HandsBusy

LEMMA SeqOfOthers ==
    ASSUME NEW E, NEW F, NEW t \in Seq(E), \A k \in 1 .. Len(t) : t[k] \in F
    PROVE  t \in Seq(F)
OBVIOUS

LEMMA ElementsOfTail ==
    ASSUME NEW s, IsList(s), s # <<>>
    PROVE  /\ IsList(Tail(s)) /\ s[1] \in Elements(s)
           /\ Elements(s) = {s[1]} \cup Elements(Tail(s))
<1> DEFINE E == Elements(s)
<1>1. s \in Seq(E) /\ Len(s) \in Nat /\ Len(s) > 0
  BY DEF IsList
<1>2. /\ Tail(s) \in Seq(E) /\ Len(Tail(s)) = Len(s) - 1
      /\ DOMAIN Tail(s) = 1 .. Len(s) - 1
      /\ \A k \in 1 .. Len(s) - 1 : Tail(s)[k] = s[k + 1]
  BY <1>1
<1>3. DOMAIN s = 1 .. Len(s)
  BY <1>1
<1>4. \A x \in E : x = s[1] \/ x \in Elements(Tail(s))
  <2> TAKE x \in E
  <2>1. PICK k \in 1 .. Len(s) : x = s[k]
    BY <1>3 DEF Elements
  <2>2. CASE k # 1
    <3>1. k - 1 \in 1 .. Len(s) - 1 /\ Tail(s)[k - 1] = x
      BY <1>1, <1>2, <2>1, <2>2
    <3> QED BY <1>2, <3>1 DEF Elements
  <2> QED BY <2>1, <2>2
<1>5. \A x \in Elements(Tail(s)) : x \in E
  <2> TAKE x \in Elements(Tail(s))
  <2>1. PICK k \in 1 .. Len(s) - 1 : x = Tail(s)[k]
    BY <1>2 DEF Elements
  <2>2. k + 1 \in 1 .. Len(s) /\ x = s[k + 1]
    BY <1>1, <1>2, <2>1
  <2> QED BY <1>3, <2>2 DEF Elements
<1>6. s[1] \in E
  BY <1>1, <1>3 DEF Elements
<1>7. IsList(Tail(s))
  <2>1. \A k \in 1 .. Len(s) - 1 : Tail(s)[k] \in Elements(Tail(s))
    BY <1>2 DEF Elements
  <2>2. Tail(s) \in Seq(Elements(Tail(s)))
    BY <1>2, <2>1, SeqOfOthers
  <2> QED BY <2>2 DEF IsList
<1> QED BY <1>4, <1>5, <1>6, <1>7

-----------------------------------------------------------------------------
(* The steps.                                                              *)

LEMMA GoneOnly ==
    ASSUME NEW ts, NEW kept
    PROVE  /\ DOMAIN WithoutGone(ts, kept) = Slot
           /\ \A t \in Slot : WithoutGone(ts, kept)[t] # Nobody =>
                 /\ WithoutGone(ts, kept)[t] = ts[t]
                 /\ t \in kept \/ ts[t].state # "ended"
BY DEF WithoutGone

(* A step that has nothing to do with the handles.                         *)
LEMMA SilentStep ==
    ASSUME HandlesInv, NEW p \in Process, todo[p] # <<>>,
           todo[p][1] \notin {"start", "join", "store"},
           Proceed(p) \/ Fail(p),
           UNCHANGED <<endpoint_listeners, threads, handles, crossed>>
    PROVE  HandlesInv'
<1>1. /\ DOMAIN todo' = Process /\ \A q \in Process : Program(todo'[q])
      /\ LoadsAlone' /\ OneStart'
      /\ \A q \in Process \ {p} : todo'[q] = todo[q]
  BY StepKeepsPrograms
<1>2. handles[p] = <<>>
  BY EmptyHands
<1>3. Shapes'
  BY <1>1 DEF HandlesInv, Shapes, IsList, Elements
<1>4. HandsBusy'
  BY <1>1, <1>2 DEF HandlesInv, HandsBusy
<1>5. Stoppable'
  BY DEF HandlesInv, Stoppable, Kept, HandlesOf, Elements
<1> QED BY <1>1, <1>3, <1>4, <1>5 DEF HandlesInv

(* Idle processes are given complete commands.                             *)
LEMMA CommandsGiven ==
    ASSUME HandlesInv, DOMAIN todo' = Process,
           \A q \in Process : \/ Complete(todo'[q]) /\ handles[q] = <<>>
                              \/ todo'[q] = todo[q] /\ ~At(Main, "load"),
           UNCHANGED <<endpoint_listeners, threads, handles, crossed>>
    PROVE  HandlesInv'
<1>1. \A q \in Process : Program(todo'[q]) /\ (StoreFirst(todo'[q]) => todo'[q] = todo[q])
  BY DEF HandlesInv, Shapes, Complete
<1>2. Shapes'
  BY <1>1 DEF HandlesInv, Shapes, IsList, Elements
<1>3. LoadsAlone'
  <2> SUFFICES ASSUME todo'[Main] # <<>>, Head(todo'[Main]) = "load" PROVE FALSE
    BY DEF LoadsAlone, At
  <2>1. Main \in Process
    BY DEF Process
  <2>2. Complete(todo'[Main])
    BY <2>1 DEF At
  <2>3. 1 \in 1 .. Len(todo'[Main]) /\ todo'[Main][1] = "load"
    BY <2>2 DEF Complete, Program
  <2> QED BY <2>2, <2>3 DEF Complete
<1>4. HandsBusy'
  BY DEF HandlesInv, HandsBusy
<1>5. OneStart'
  BY <1>1 DEF HandlesInv, OneStart
<1>6. Stoppable'
  BY DEF HandlesInv, Stoppable, Kept, HandlesOf, Elements
<1> QED BY <1>2, <1>3, <1>4, <1>5, <1>6 DEF HandlesInv

LEMMA LoadStep ==
    ASSUME HandlesInv, Load PROVE HandlesInv'
<1>1. \A q \in Process : todo'[q] \in {Start, Refresh, todo[q]} /\ DOMAIN todo' = Process
  BY DEF Load
<1>2. \A q \in Process \ {Main} : todo[q] = <<>>
  BY DEF HandlesInv, LoadsAlone, Load
<1>3. Main \in Process /\ todo'[Main] = Start /\ todo[Main][1] = "load"
  BY DEF Process, Load, At
<1>4. \A q \in Process : handles[q] = <<>>
  BY <1>2, <1>3 DEF HandlesInv, HandsBusy
<1>5. \A q \in Process : Complete(todo'[q])
  BY <1>1, <1>2, <1>3, CommandsAreComplete
<1>6. UNCHANGED <<endpoint_listeners, threads, handles, crossed>>
  BY DEF Load, LoadUnchanged, threadVars
<1>7. DOMAIN todo' = Process
  BY <1>1, <1>3
<1>8. \A q \in Process : \/ Complete(todo'[q]) /\ handles[q] = <<>>
                         \/ todo'[q] = todo[q] /\ ~At(Main, "load")
  BY <1>4, <1>5
<1> QED BY <1>6, <1>7, <1>8, CommandsGiven

LEMMA CommandStep ==
    ASSUME HandlesInv, SavePart \/ update_dcsbios_config \/ list_devices
    PROVE  HandlesInv'
<1>1. \A r \in Request : Complete(Save(r.part))
  BY CommandsAreComplete, ThreadsAssumption
<1> DEFINE Given == {Start, Refresh} \cup {Save(r.part) : r \in Request}
<1>2. PICK p \in Process, s \in Given :
        /\ Complete(s) /\ todo[p] = <<>> /\ todo' = [todo EXCEPT ![p] = s]
        /\ ~At(Main, "load")
  <2>1. Main \in Process
    BY DEF Process
  <2>2. CASE SavePart
    BY <1>1, <2>1, <2>2 DEF SavePart, Command, At
  <2>3. CASE update_dcsbios_config
    BY CommandsAreComplete, <2>1, <2>3 DEF update_dcsbios_config, Command, At
  <2>4. CASE list_devices
    BY CommandsAreComplete, <2>4 DEF list_devices, Process
  <2> QED BY <2>2, <2>3, <2>4
<1>3. UNCHANGED <<endpoint_listeners, threads, handles, crossed>>
  BY DEF SavePart, update_dcsbios_config, list_devices, Command, SaveUnchanged,
         threadVars, historyVars
<1>4. handles[p] = <<>>
  BY <1>2 DEF HandlesInv, HandsBusy
<1>5. DOMAIN todo' = Process
  BY <1>2 DEF HandlesInv, Shapes
<1>6. \A q \in Process : \/ Complete(todo'[q]) /\ handles[q] = <<>>
                         \/ todo'[q] = todo[q] /\ ~At(Main, "load")
  BY <1>2, <1>4 DEF HandlesInv, Shapes
<1> QED BY <1>3, <1>5, <1>6, CommandsGiven

(* The steps that neither take, make nor drop a handle.                    *)
LEMMA OtherSteps ==
    ASSUME HandlesInv, NEW p \in Process,
           \/ LoadFails \/ Truncate \/ Write \/ SetPart
           \/ ReadSettings(p) \/ Scan(p) \/ ScanPanics(p) \/ ListDevices(p)
           \/ Probe(p) /\ Proceed(p)
    PROVE  HandlesInv'
<1>1. PICK q \in Process :
        /\ todo[q] # <<>> /\ todo[q][1] \notin {"start", "join", "store"}
        /\ Proceed(q) \/ Fail(q)
  <2>1. Main \in Process
    BY DEF Process
  <2>2. CASE LoadFails \/ Truncate \/ Write \/ SetPart
    BY <2>1, <2>2 DEF LoadFails, Truncate, Write, SetPart, At
  <2>3. CASE ReadSettings(p) \/ Scan(p) \/ ScanPanics(p) \/ ListDevices(p)
    BY <2>3 DEF ReadSettings, Scan, ScanPanics, ListDevices, At
  <2>4. CASE Probe(p) /\ Proceed(p)
    BY <2>4 DEF Probe, At
  <2> QED BY <2>2, <2>3, <2>4
<1>2. UNCHANGED <<endpoint_listeners, threads, handles, crossed>>
  BY DEF LoadFails, LoadUnchanged, Truncate, Write, SetPart, SaveUnchanged,
         ReadSettings, Scan, ScanPanics, ListDevices, Probe, ProbeUnchanged,
         StepUnchanged, threadVars, historyVars
<1> QED BY <1>1, <1>2, SilentStep

(* Nothing moves but the states of the threads, and an ended one may go.   *)
LEMMA ThreadStep ==
    ASSUME HandlesInv, UNCHANGED <<endpoint_listeners, todo, handles, crossed>>,
           DOMAIN threads' = Slot,
           \A t \in Slot : threads'[t] # Nobody => threads[t] # Nobody
    PROVE  HandlesInv'
<1>1. Shapes' /\ LoadsAlone' /\ HandsBusy' /\ OneStart'
  BY DEF HandlesInv, Shapes, LoadsAlone, HandsBusy, OneStart, At, IsList, Elements
<1>2. Stoppable'
  BY DEF HandlesInv, Stoppable, Kept, HandlesOf, Elements
<1> QED BY <1>1, <1>2 DEF HandlesInv

(* The handles move from the list into the hands of the one that takes it. *)
LEMMA TakeStep ==
    ASSUME HandlesInv, NEW p \in Process, Take(p) PROVE HandlesInv'
<1>1. /\ todo[p] # <<>> /\ todo[p][1] \in {"stop", "start"}
      /\ ~crossed' => /\ ~crossed
                      /\ todo[p][1] = "start" =>
                            \A q \in Process \ {p} : ~Starting(q)
  <2>1. PICK step \in {"stop", "start"} :
          /\ At(p, step)
          /\ crossed' = \/ crossed
                        \/ /\ step = "start"
                           /\ \E q \in Process \ {p} : Starting(q)
    BY Zenon DEF Take
  <2>2. todo[p] # <<>> /\ todo[p][1] = step
    BY <2>1 DEF At
  <2> QED BY <2>1, <2>2
<1>2. /\ handles' = [handles EXCEPT ![p] = endpoint_listeners]
      /\ endpoint_listeners' = <<>> /\ Proceed(p) /\ threads' = threads
  BY DEF Take
<1>3. handles[p] = <<>>
  BY <1>1, EmptyHands
<1>4. Program(todo[p])
  BY DEF HandlesInv, Shapes
<1>5. /\ Program(Tail(todo[p])) /\ Tail(todo[p]) # <<>> /\ Tail(todo[p])[1] = "join"
      /\ todo[p][1] # "start" /\ StoreFirst(Tail(todo[p])) => StoreFirst(todo[p])
  BY <1>1, <1>4, TailOfProgram
<1>6. /\ DOMAIN todo' = Process /\ todo'[p] = Tail(todo[p])
      /\ \A q \in Process \ {p} : todo'[q] = todo[q]
  BY <1>2 DEF HandlesInv, Shapes, Proceed
<1>7. /\ DOMAIN handles' = Process /\ handles'[p] = endpoint_listeners
      /\ \A q \in Process \ {p} : handles'[q] = handles[q]
  BY <1>2 DEF HandlesInv, Shapes
<1>8. Shapes'
  <2>1. IsList(<<>>)
    BY DEF IsList
  <2>2. \A q \in Process : IsList(handles'[q]) /\ Program(todo'[q])
    BY <1>5, <1>6, <1>7 DEF HandlesInv, Shapes
  <2>3. DOMAIN threads' = Slot
    BY <1>2 DEF HandlesInv, Shapes
  <2>4. IsList(endpoint_listeners')
    BY <1>2, <2>1
  <2> QED BY <1>6, <1>7, <2>2, <2>3, <2>4 DEF Shapes
<1>9. LoadsAlone'
  <2>1. CASE p = Main
    <3>1. todo'[Main] # <<>> /\ todo'[Main][1] = "join"
      BY <1>5, <1>6, <2>1
    <3> QED BY <3>1 DEF LoadsAlone, At
  <2>2. CASE p # Main
    <3>1. Main \in Process /\ ~At(Main, "load")
      BY <1>1, <2>2 DEF HandlesInv, LoadsAlone, Process
    <3> QED BY <1>6, <2>2, <3>1 DEF LoadsAlone, At
  <2> QED BY <2>1, <2>2
<1>10. HandsBusy'
  BY <1>5, <1>6, <1>7 DEF HandlesInv, HandsBusy
<1>11. OneStart'
  <2> SUFFICES ASSUME ~crossed',
                      NEW q \in Process, StoreFirst(todo'[q]),
                      NEW r \in Process \ {q}, StoreFirst(todo'[r])
               PROVE  FALSE
    BY <1>2 DEF OneStart
  <2>1. ~crossed /\ (todo[p][1] = "start" =>
                        \A x \in Process \ {p} : ~StoreFirst(todo[x]))
    BY <1>1 DEF Starting, StoreFirst
  <2>2. CASE todo[p][1] = "start"
    BY <1>6, <2>1, <2>2
  <2>3. CASE todo[p][1] # "start"
    BY <1>5, <1>6, <2>1, <2>3 DEF HandlesInv, OneStart
  <2> QED BY <2>2, <2>3
<1>12. Stoppable'
  <2> SUFFICES ASSUME ~crossed', NEW t \in Slot, threads'[t] # Nobody
               PROVE  t \in Kept'
    BY DEF Stoppable
  <2>1. t \in HandlesOf(endpoint_listeners, handles)
    BY <1>1, <1>2 DEF HandlesInv, Stoppable, Kept
  <2>2. CASE t \in Elements(endpoint_listeners)
    BY <1>7, <2>2 DEF Kept, HandlesOf
  <2>3. CASE \E q \in Process : t \in Elements(handles[q])
    <3>1. PICK q \in Process : t \in Elements(handles[q])
      BY <2>3
    <3>2. q # p
      BY <1>3, <3>1 DEF Elements
    <3> QED BY <1>7, <3>1, <3>2 DEF Kept, HandlesOf
  <2> QED BY <2>1, <2>2, <2>3 DEF HandlesOf
<1> QED BY <1>8, <1>9, <1>10, <1>11, <1>12 DEF HandlesInv

(* Only the flag of a thread whose handle is in p's hands is raised.       *)
LEMMA SignalStep ==
    ASSUME HandlesInv, NEW p \in Process, Signal(p) PROVE HandlesInv'
<1> DEFINE h == Head(handles[p])
<1>1. /\ handles[p] # <<>> /\ threads' = [threads EXCEPT ![h].stop = TRUE]
      /\ UNCHANGED <<endpoint_listeners, todo, handles, crossed>>
  BY DEF Signal
<1>2. IsList(handles[p]) /\ h \in Elements(handles[p])
  <2>1. IsList(handles[p])
    BY DEF HandlesInv, Shapes
  <2> QED BY <1>1, <2>1, ElementsOfTail
<1>3. DOMAIN threads' = Slot /\ \A t \in Slot \ {h} : threads'[t] = threads[t]
  BY <1>1 DEF HandlesInv, Shapes
<1>4. Shapes' /\ LoadsAlone' /\ HandsBusy' /\ OneStart'
  BY <1>1, <1>3 DEF HandlesInv, Shapes, LoadsAlone, HandsBusy, OneStart, At,
                    IsList, Elements
<1>5. Stoppable'
  <2> SUFFICES ASSUME ~crossed', NEW t \in Slot, threads'[t] # Nobody
               PROVE  t \in Kept
    BY <1>1 DEF Stoppable, Kept, HandlesOf, Elements
  <2>1. CASE t = h
    BY <1>2, <2>1 DEF Kept, HandlesOf
  <2>2. CASE t # h
    BY <1>1, <1>3, <2>2 DEF HandlesInv, Stoppable
  <2> QED BY <2>1, <2>2
<1> QED BY <1>4, <1>5 DEF HandlesInv

(* A handle is dropped once its thread has ended.                          *)
LEMMA JoinStep ==
    ASSUME HandlesInv, NEW p \in Process, Join(p) PROVE HandlesInv'
<1>1. /\ todo[p] # <<>> /\ todo[p][1] = "join"
      /\ UNCHANGED <<endpoint_listeners, crossed>>
  BY DEF Join, At
<1>2. CASE handles[p] = <<>> /\ Proceed(p) /\ UNCHANGED <<threads, handles>>
  <2>1. /\ DOMAIN todo' = Process /\ \A q \in Process : Program(todo'[q])
        /\ LoadsAlone' /\ OneStart'
        /\ \A q \in Process \ {p} : todo'[q] = todo[q]
    BY <1>1, <1>2, StepKeepsPrograms
  <2>2. Shapes'
    BY <1>1, <1>2, <2>1 DEF HandlesInv, Shapes, IsList, Elements
  <2>3. HandsBusy'
    BY <1>2, <2>1 DEF HandlesInv, HandsBusy
  <2>4. Stoppable'
    <3>1. Kept' = Kept
      BY <1>1, <1>2 DEF Kept, HandlesOf, Elements
    <3> QED BY <1>1, <1>2, <3>1 DEF HandlesInv, Stoppable
  <2> QED BY <2>1, <2>2, <2>3, <2>4 DEF HandlesInv
<1>3. CASE /\ handles[p] # <<>>
           /\ threads[Head(handles[p])].state = "ended"
           /\ handles' = [handles EXCEPT ![p] = Tail(@)]
           /\ threads' = WithoutGone(threads, HandlesOf(endpoint_listeners, handles'))
           /\ UNCHANGED todo
  <2> DEFINE h == handles[p][1]
  <2>1. IsList(handles[p])
    BY DEF HandlesInv, Shapes
  <2>2. /\ IsList(Tail(handles[p]))
        /\ Elements(handles[p]) = {h} \cup Elements(Tail(handles[p]))
    BY <1>3, <2>1, ElementsOfTail
  <2>3. /\ DOMAIN handles' = Process /\ handles'[p] = Tail(handles[p])
        /\ \A q \in Process \ {p} : handles'[q] = handles[q]
    BY <1>3 DEF HandlesInv, Shapes
  <2>4. /\ DOMAIN threads' = Slot
        /\ \A t \in Slot : threads'[t] # Nobody =>
              /\ threads'[t] = threads[t]
              /\ t \in HandlesOf(endpoint_listeners, handles') \/ threads[t].state # "ended"
    BY <1>3, GoneOnly
  <2>5. Shapes'
    <3>1. \A q \in Process : IsList(handles'[q])
      BY <2>2, <2>3 DEF HandlesInv, Shapes
    <3>2. IsList(endpoint_listeners)'
      BY <1>1 DEF HandlesInv, Shapes, IsList, Elements
    <3>3. \A q \in Process : IsList(handles[q])'
      BY <3>1 DEF IsList, Elements
    <3> QED BY <1>3, <2>3, <2>4, <3>2, <3>3 DEF HandlesInv, Shapes
  <2>6. LoadsAlone' /\ OneStart'
    BY <1>1, <1>3 DEF HandlesInv, LoadsAlone, OneStart, At
  <2>7. HandsBusy'
    BY <1>1, <1>3, <2>3 DEF HandlesInv, HandsBusy
  <2>8. Stoppable'
    <3> SUFFICES ASSUME ~crossed', NEW t \in Slot, threads'[t] # Nobody
                 PROVE  t \in HandlesOf(endpoint_listeners, handles')
      BY <1>1 DEF Stoppable, Kept, HandlesOf, Elements
    <3>1. t \in HandlesOf(endpoint_listeners, handles)
      BY <1>1, <2>4 DEF HandlesInv, Stoppable, Kept
    <3>2. CASE t = h
      <4>1. threads[t].state = "ended"
        BY <1>3, <3>2
      <4> QED BY <2>4, <4>1
    <3>3. CASE t # h
      <4>1. \A q \in Process : t \in Elements(handles[q]) => t \in Elements(handles'[q])
        BY <2>2, <2>3, <3>3
      <4> QED BY <3>1, <4>1 DEF HandlesOf
    <3> QED BY <3>2, <3>3
  <2> QED BY <2>5, <2>6, <2>7, <2>8 DEF HandlesInv
<1> QED BY <1>2, <1>3 DEF Join

LEMMA SlotsAreFree ==
    ASSUME NEW n \in 0 .. Cardinality(Free)
    PROVE  /\ FreeSlots(n) \in Seq(Free) /\ Len(FreeSlots(n)) = n
           /\ IsList(FreeSlots(n)) /\ Elements(FreeSlots(n)) \subseteq Free
           /\ \A j, k \in 1 .. n : FreeSlots(n)[j] = FreeSlots(n)[k] => j = k
<1> DEFINE S == {s \in [1 .. n -> Free] : \A j, k \in 1 .. n : s[j] = s[k] => j = k}
           f == FreeSlots(n)
<1>1. IsFiniteSet(Free)
  BY FS_Subset DEF Free
<1>2. PICK g \in Bijection(1 .. Cardinality(Free), Free) : TRUE
  <2>1. ExistsBijection(1 .. Cardinality(Free), Free)
    BY <1>1, FS_CardinalityType
  <2> QED BY <2>1 DEF ExistsBijection
<1>3. Cardinality(Free) \in Nat
  BY <1>1, FS_CardinalityType
<1>4. [k \in 1 .. n |-> g[k]] \in S
  <2>1. /\ g \in [1 .. Cardinality(Free) -> Free]
        /\ \A j, k \in 1 .. Cardinality(Free) : g[j] = g[k] => j = k
    BY <1>2 DEF Bijection, Injection, IsInjective
  <2> QED BY <1>3, <2>1
<1>5. f \in S
  <2>1. f = CHOOSE s : s \in S
    BY DEF FreeSlots
  <2> HIDE DEF S, f
  <2> QED BY <1>4, <2>1
<1>6. n \in Nat
  BY <1>3
<1> HIDE DEF f
<1>7. /\ f \in Seq(Free) /\ Len(f) = n /\ DOMAIN f = 1 .. n
  BY <1>5, <1>6
<1>8. \A k \in 1 .. n : f[k] \in Elements(f)
  BY <1>7 DEF Elements
<1>9. f \in Seq(Elements(f))
  BY <1>7, <1>8, SeqOfOthers
<1>10. Elements(f) \subseteq Free
  BY <1>5, <1>7 DEF Elements
<1> QED BY <1>5, <1>7, <1>9, <1>10 DEF IsList, f

(* The new threads are in the hands of the one that made them.             *)
LEMMA SpawnStep ==
    ASSUME HandlesInv, NEW p \in Process, Spawn(p) PROVE HandlesInv'
<1>1. /\ todo[p] # <<>> /\ todo[p][1] = "spawn" /\ Proceed(p)
      /\ UNCHANGED <<endpoint_listeners, crossed>>
  BY DEF Spawn, At
<1>2. /\ DOMAIN todo' = Process /\ \A q \in Process : Program(todo'[q])
      /\ LoadsAlone' /\ OneStart'
      /\ \A q \in Process \ {p} : todo'[q] = todo[q]
  BY <1>1, StepKeepsPrograms
<1>3. todo'[p] = Tail(todo[p]) /\ todo'[p] # <<>> /\ todo'[p][1] = "store"
  <2>1. Program(todo[p]) /\ todo'[p] = Tail(todo[p])
    BY <1>1 DEF HandlesInv, Shapes, Proceed
  <2> QED BY <1>1, <2>1, TailOfProgram
<1>4. handles[p] = <<>>
  BY <1>1, EmptyHands
<1>5. PICK n \in 0 .. Cardinality(Free) :
        /\ handles' = [handles EXCEPT ![p] = FreeSlots(n)]
        /\ DOMAIN threads' = Slot
        /\ \A t \in Slot \ Elements(FreeSlots(n)) : threads'[t] = threads[t]
  <2> DEFINE serve == Enabled(sanitize_device_endpoints(copies[p].endpoints))
  <2>1. /\ Len(serve) \in 0 .. Cardinality(Free)
        /\ handles' = [handles EXCEPT ![p] = FreeSlots(Len(serve))]
    BY DEF Spawn
  <2>2. /\ DOMAIN threads' = Slot
        /\ \A t \in Slot \ Elements(FreeSlots(Len(serve))) : threads'[t] = threads[t]
    BY DEF Spawn
  <2> HIDE DEF serve
  <2> QED BY <2>1, <2>2
<1>6. IsList(FreeSlots(n))
  BY SlotsAreFree
<1>7. /\ DOMAIN handles' = Process /\ handles'[p] = FreeSlots(n)
      /\ \A q \in Process \ {p} : handles'[q] = handles[q]
  BY <1>5 DEF HandlesInv, Shapes
<1>8. Shapes'
  <2>1. \A q \in Process : IsList(handles'[q])
    BY <1>6, <1>7 DEF HandlesInv, Shapes
  <2>2. IsList(endpoint_listeners')
    BY <1>1 DEF HandlesInv, Shapes
  <2> QED BY <1>2, <1>5, <1>7, <2>1, <2>2 DEF Shapes
<1>9. HandsBusy'
  BY <1>2, <1>3, <1>7 DEF HandlesInv, HandsBusy
<1>10. Stoppable'
  <2> SUFFICES ASSUME ~crossed', NEW t \in Slot, threads'[t] # Nobody
               PROVE  t \in HandlesOf(endpoint_listeners, handles')
    BY <1>1 DEF Stoppable, Kept, HandlesOf, Elements
  <2>1. CASE t \in Elements(FreeSlots(n))
    BY <1>7, <2>1 DEF HandlesOf
  <2>2. CASE t \notin Elements(FreeSlots(n))
    <3>1. t \in HandlesOf(endpoint_listeners, handles)
      BY <1>1, <1>5, <2>2 DEF HandlesInv, Stoppable, Kept
    <3>2. \A q \in Process : t \in Elements(handles[q]) => t \in Elements(handles'[q])
      BY <1>4, <1>7 DEF Elements
    <3> QED BY <3>1, <3>2 DEF HandlesOf
  <2> QED BY <2>1, <2>2
<1> QED BY <1>2, <1>8, <1>9, <1>10 DEF HandlesInv

(* The list is empty, so that nothing is lost when it is overwritten.      *)
LEMMA StoreStep ==
    ASSUME HandlesInv, NEW p \in Process, Store(p) PROVE HandlesInv'
<1>1. /\ todo[p] # <<>> /\ todo[p][1] = "store"
      /\ Proceed(p) /\ crossed' = crossed
      /\ endpoint_listeners' = handles[p]
      /\ handles' = [handles EXCEPT ![p] = <<>>]
      /\ threads' = WithoutGone(threads, HandlesOf(endpoint_listeners', handles'))
  BY DEF Store, At
<1>2. Program(todo[p])
  BY DEF HandlesInv, Shapes
<1>3. Program(Tail(todo[p])) /\ ~StoreFirst(Tail(todo[p])) /\ StoreFirst(todo[p])
  <2>1. StoreFirst(todo[p])
    <3>1. 1 \in 1 .. Len(todo[p]) /\ \A j \in 1 .. 1 - 1 : todo[p][j] # "start"
      BY <1>1, <1>2 DEF Program
    <3> QED BY <1>1, <3>1 DEF StoreFirst
  <2> QED BY <1>1, <1>2, <2>1, TailOfProgram
<1>4. /\ DOMAIN todo' = Process /\ todo'[p] = Tail(todo[p])
      /\ \A q \in Process \ {p} : todo'[q] = todo[q]
  BY <1>1 DEF HandlesInv, Shapes, Proceed
<1>5. /\ DOMAIN handles' = Process /\ handles'[p] = <<>>
      /\ \A q \in Process \ {p} : handles'[q] = handles[q]
  BY <1>1 DEF HandlesInv, Shapes
<1>6. /\ DOMAIN threads' = Slot
      /\ \A t \in Slot : threads'[t] # Nobody => threads'[t] = threads[t]
  BY <1>1, GoneOnly
<1>7. Shapes'
  <2>1. IsList(<<>>)
    BY DEF IsList
  <2>2. IsList(endpoint_listeners')
    BY <1>1 DEF HandlesInv, Shapes
  <2>3. \A q \in Process : IsList(handles'[q])
    BY <1>5, <2>1 DEF HandlesInv, Shapes
  <2>4. IsList(endpoint_listeners)' /\ \A q \in Process : IsList(handles[q])'
    BY <2>2, <2>3 DEF IsList, Elements
  <2>5. DOMAIN todo' = Process /\ \A q \in Process : Program(todo'[q])
    BY <1>3, <1>4 DEF HandlesInv, Shapes
  <2> QED BY <1>5, <1>6, <2>4, <2>5 DEF Shapes
<1>8. LoadsAlone'
  <2>1. Main \in Process
    BY DEF Process
  <2>2. CASE p = Main
    <3>1. \A k \in 2 .. Len(todo[Main]) : todo[Main][k] # "load"
      BY <1>2, <2>2 DEF Program, LoadsFirst
    <3>2. todo'[Main] # <<>> => todo'[Main][1] = todo[Main][2] /\ 2 \in 2 .. Len(todo[Main])
      BY <1>1, <1>2, <1>4, <2>2 DEF Program
    <3> QED BY <3>1, <3>2 DEF LoadsAlone, At
  <2>3. CASE p # Main
    BY <1>1, <1>4, <2>1, <2>3 DEF HandlesInv, LoadsAlone, At
  <2> QED BY <2>2, <2>3
<1>9. HandsBusy'
  BY <1>4, <1>5 DEF HandlesInv, HandsBusy
<1>10. ~crossed => /\ endpoint_listeners = <<>>
                   /\ \A q \in Process \ {p} : ~StoreFirst(todo[q])
  BY <1>3 DEF HandlesInv, OneStart
<1>11. OneStart'
  BY <1>1, <1>3, <1>4, <1>10 DEF OneStart
<1>12. Stoppable'
  <2> SUFFICES ASSUME ~crossed', NEW t \in Slot, threads'[t] # Nobody
               PROVE  t \in HandlesOf(endpoint_listeners', handles')
    BY DEF Stoppable, Kept, HandlesOf, Elements
  <2>1. t \in HandlesOf(endpoint_listeners, handles) /\ endpoint_listeners = <<>>
    BY <1>1, <1>6, <1>10 DEF HandlesInv, Stoppable, Kept
  <2>2. PICK q \in Process : t \in Elements(handles[q])
    BY <2>1 DEF HandlesOf, Elements
  <2>3. CASE q = p
    BY <1>1, <2>2, <2>3 DEF HandlesOf
  <2>4. CASE q # p
    BY <1>5, <2>2, <2>4 DEF HandlesOf
  <2> QED BY <2>3, <2>4
<1> QED BY <1>7, <1>8, <1>9, <1>11, <1>12 DEF HandlesInv

LEMMA HandlesNext == HandlesInv /\ [Next]_vars => HandlesInv'
<1> SUFFICES ASSUME HandlesInv, [Next]_vars PROVE HandlesInv'
  OBVIOUS
<1>1. CASE UNCHANGED vars
  <2>1. UNCHANGED <<endpoint_listeners, todo, handles, crossed, threads>>
    BY <1>1 DEF vars, threadVars, processVars, historyVars
  <2> QED BY <2>1, ThreadStep DEF HandlesInv, Shapes
<1>2. CASE Load
  BY <1>2, LoadStep
<1>3. CASE LoadFails \/ Truncate \/ Write \/ SetPart
  <2>1. Main \in Process
    BY DEF Process
  <2> QED BY <1>3, <2>1, OtherSteps
<1>4. ASSUME NEW p \in Process, ProcessStep(p) PROVE HandlesInv'
  <2>1. CASE Take(p)
    BY <2>1, TakeStep
  <2>2. CASE Signal(p)
    BY <2>2, SignalStep
  <2>3. CASE Join(p)
    BY <2>3, JoinStep
  <2>4. CASE Spawn(p)
    BY <2>4, SpawnStep
  <2>5. CASE Store(p)
    BY <2>5, StoreStep
  <2>6. CASE ReadSettings(p) \/ Scan(p) \/ ScanPanics(p) \/ ListDevices(p)
    BY <2>6, OtherSteps
  <2>7. CASE Probe(p)
    <3>1. /\ UNCHANGED <<endpoint_listeners, handles, crossed, threads>>
          /\ Proceed(p) \/ UNCHANGED todo
      BY <2>7 DEF Probe, ProbeUnchanged, StepUnchanged, threadVars
    <3>2. CASE Proceed(p)
      BY <2>7, <3>2, OtherSteps
    <3>3. CASE UNCHANGED todo
      BY <3>1, <3>3, ThreadStep DEF HandlesInv, Shapes
    <3> QED BY <3>1, <3>2, <3>3
  <2> QED BY <1>4, <2>1, <2>2, <2>3, <2>4, <2>5, <2>6, <2>7 DEF ProcessStep
<1>5. ASSUME NEW t \in Slot, Open(t) \/ Stopped(t) \/ Breaks(t) PROVE HandlesInv'
  <2>1. /\ threads[t] # Nobody
        /\ UNCHANGED <<endpoint_listeners, todo, handles, crossed>>
    BY <1>5 DEF Open, Stopped, Breaks, ThreadUnchanged
  <2>2. PICK ts :
          /\ threads' = ts \/ threads' = WithoutGone(ts, Kept)
          /\ DOMAIN ts = Slot /\ \A u \in Slot \ {t} : ts[u] = threads[u]
    <3>1. DOMAIN threads = Slot
      BY DEF HandlesInv, Shapes
    <3>2. CASE Open(t)
      BY <3>1, <3>2 DEF Open
    <3>3. CASE Stopped(t) \/ Breaks(t)
      BY <3>1, <3>3 DEF Stopped, Breaks
    <3> QED BY <1>5, <3>2, <3>3
  <2>3. DOMAIN threads' = Slot /\ \A u \in Slot : threads'[u] # Nobody => threads[u] # Nobody
    <3>1. /\ DOMAIN WithoutGone(ts, Kept) = Slot
          /\ \A u \in Slot : WithoutGone(ts, Kept)[u] # Nobody =>
                WithoutGone(ts, Kept)[u] = ts[u]
      BY GoneOnly
    <3>2. \A u \in Slot : threads'[u] # Nobody => threads'[u] = ts[u]
      BY <2>2, <3>1
    <3> QED BY <2>1, <2>2, <3>1, <3>2
  <2> QED BY <2>1, <2>3, ThreadStep
<1>6. CASE SavePart \/ update_dcsbios_config \/ list_devices
  BY <1>6, CommandStep
<1>7. CASE Crash
  <2>1. Fresh'
    BY <1>7 DEF Crash, Fresh
  <2> QED BY <2>1, FreshIsInv, PTL
<1> QED BY <1>1, <1>2, <1>3, <1>4, <1>5, <1>6, <1>7 DEF Next, Progress, MainStep

(* Every thread that listens on a port can be stopped, unless two starts   *)
(* ran into each other: start_endpoint_listeners overwrites the list of    *)
(* handles, but the list is empty whenever it does.                        *)
THEOREM ThreadsStoppable == Spec => []Stoppable
<1>1. Init => HandlesInv
  BY FreshIsInv DEF Init, Fresh
<1>2. HandlesInv => Stoppable
  BY DEF HandlesInv
<1> QED BY <1>1, <1>2, HandlesNext, PTL DEF Spec

-----------------------------------------------------------------------------
(* Nothing that was saved is forgotten.  What is in memory is what was     *)
(* saved, but between the write of a part and its set; so the other parts, *)
(* which a write takes from memory, are in the file as they were.          *)

Has(s, step) == \E k \in 1 .. Len(s) : s[k] = step

Behind(s, step, later) ==
    \A j \in 1 .. Len(s) : s[j] = step => \E k \in j + 1 .. Len(s) : s[k] = later

OneSave(s) ==
    /\ s \in Seq(Steps)
    /\ \A j, k \in 1 .. Len(s) : s[j] = s[k] /\ s[j] \in {"write", "set"} => j = k
    /\ Behind(s, "truncate", "write") /\ Behind(s, "write", "set")
    /\ ~Has(s, "probe")

LEMMA TailOfSave ==
    ASSUME NEW s, OneSave(s), s # <<>>
    PROVE  /\ OneSave(Tail(s)) /\ s[1] # "probe"
           /\ \A step \in Steps \ {s[1]} : Has(Tail(s), step) <=> Has(s, step)
           /\ s[1] = "truncate" => Has(s, "write")
           /\ s[1] = "write" => Has(Tail(s), "set") /\ ~Has(Tail(s), "write")
           /\ s[1] = "set" => ~Has(Tail(s), "set") /\ ~Has(s, "write")
<1> DEFINE t == Tail(s)
<1>1. /\ t \in Seq(Steps) /\ Len(t) = Len(s) - 1 /\ Len(s) \in Nat /\ Len(s) > 0
      /\ \A k \in 1 .. Len(t) : k + 1 \in 1 .. Len(s) /\ t[k] = s[k + 1]
      /\ \A k \in 2 .. Len(s) : k - 1 \in 1 .. Len(t) /\ t[k - 1] = s[k]
  BY DEF OneSave
<1>2. 1 \in 1 .. Len(s)
  BY <1>1
<1> HIDE DEF t
<1>3. ASSUME NEW step, NEW later, Behind(s, step, later) PROVE Behind(t, step, later)
  <2> SUFFICES ASSUME NEW j \in 1 .. Len(t), t[j] = step
               PROVE  \E k \in j + 1 .. Len(t) : t[k] = later
    BY DEF Behind
  <2>1. PICK k \in j + 2 .. Len(s) : s[k] = later
    BY <1>1, <1>3 DEF Behind
  <2>2. k - 1 \in j + 1 .. Len(t) /\ t[k - 1] = later
    BY <1>1, <2>1
  <2> QED BY <2>2
<1>4. \A step : step # s[1] => (Has(t, step) <=> Has(s, step))
  <2> SUFFICES ASSUME NEW step, step # s[1] PROVE Has(t, step) <=> Has(s, step)
    OBVIOUS
  <2>1. ASSUME NEW k \in 1 .. Len(s), s[k] = step PROVE Has(t, step)
    <3>1. k \in 2 .. Len(s)
      BY <1>1, <2>1
    <3> QED BY <1>1, <2>1, <3>1 DEF Has
  <2>2. ASSUME NEW k \in 1 .. Len(t), t[k] = step PROVE Has(s, step)
    BY <1>1, <2>2 DEF Has
  <2> QED BY <2>1, <2>2 DEF Has
<1>5. ~Has(s, "probe") /\ s[1] # "probe"
  BY <1>2 DEF OneSave, Has
<1>6. OneSave(t)
  <2>1. \A j, k \in 1 .. Len(t) : t[j] = t[k] /\ t[j] \in {"write", "set"} => j = k
    BY <1>1 DEF OneSave
  <2> QED BY <1>1, <1>3, <1>4, <1>5, <2>1 DEF OneSave
<1>7. ASSUME NEW step, NEW later, Behind(s, step, later), s[1] = step
      PROVE  Has(t, later) /\ Has(s, later)
  <2>1. PICK k \in 2 .. Len(s) : s[k] = later
    BY <1>1, <1>2, <1>7 DEF Behind
  <2> QED BY <1>1, <2>1 DEF Has
<1>8. ASSUME s[1] \in {"write", "set"} PROVE ~Has(t, s[1])
  <2> SUFFICES ASSUME NEW k \in 1 .. Len(t), t[k] = s[1] PROVE FALSE
    BY DEF Has
  <2>1. k + 1 = 1
    BY <1>1, <1>2, <1>8 DEF OneSave
  <2> QED BY <2>1
<1>9. ASSUME s[1] = "set" PROVE ~Has(s, "write")
  <2> SUFFICES ASSUME NEW k \in 1 .. Len(s), s[k] = "write" PROVE FALSE
    BY DEF Has
  <2>1. PICK j \in k + 1 .. Len(s) : s[j] = "set"
    BY DEF OneSave, Behind
  <2>2. j = 1
    BY <1>1, <1>2, <1>9, <2>1 DEF OneSave
  <2> QED BY <2>1, <2>2
<1> QED BY <1>4, <1>5, <1>6, <1>7, <1>8, <1>9 DEF t, OneSave

LEMMA ConcatSteps ==
    ASSUME NEW s \in Seq(Steps), NEW t \in Seq(Steps)
    PROVE  /\ s \o t \in Seq(Steps) /\ Len(s \o t) = Len(s) + Len(t)
           /\ Len(s) \in Nat /\ Len(t) \in Nat
           /\ \A k \in 1 .. Len(s) : (s \o t)[k] = s[k]
           /\ \A k \in Len(s) + 1 .. Len(s) + Len(t) :
                 k - Len(s) \in 1 .. Len(t) /\ (s \o t)[k] = t[k - Len(s)]
OBVIOUS

LEMMA SavesAreWhole ==
    /\ OneSave(<<>>) /\ OneSave(<<"load">>) /\ OneSave(Start)
    /\ ~Has(<<>>, "set") /\ ~Has(Start, "set")
    /\ \A part \in Part : /\ OneSave(Save(part))
                          /\ Has(Save(part), "set") /\ Has(Save(part), "write")
<1>1. /\ OneSave(<<>>) /\ OneSave(<<"load">>) /\ ~Has(<<>>, "set")
  BY DEF OneSave, Behind, Has, Steps
<1>2. OneSave(Start) /\ ~Has(Start, "set")
  <2>1. /\ Start \in Seq(Steps) /\ Len(Start) = 6
        /\ \A k \in 1 .. 6 :
              Start[k] \in {"start", "join", "endpoints", "assignments", "spawn", "store"}
    BY DEF Start, Steps
  <2> QED BY <2>1 DEF OneSave, Behind, Has
<1>3. ASSUME NEW s, s \in Seq(Steps), NEW d \in 3 .. Len(s),
             s[1] = "truncate", s[2] = "write", s[d] = "set",
             \A k \in 3 .. Len(s) \ {d} : s[k] \notin {"truncate", "write", "set", "probe"}
      PROVE  OneSave(s) /\ Has(s, "set") /\ Has(s, "write")
  <2>1. Len(s) \in Nat /\ Len(s) >= 3 /\ d \in 1 .. Len(s) /\ 2 \in 1 .. Len(s) /\ d > 2
    BY <1>3
  <2>2. \A k \in 1 .. Len(s) : /\ s[k] = "truncate" => k = 1
                               /\ s[k] = "write" => k = 2
                               /\ s[k] = "set" => k = d
                               /\ s[k] # "probe"
    <3> TAKE k \in 1 .. Len(s)
    <3>1. k = 1 \/ k = 2 \/ k = d \/ k \in 3 .. Len(s) \ {d}
      BY <2>1
    <3> QED BY <1>3, <3>1
  <2>3. Behind(s, "truncate", "write")
    <3>1. 2 \in 1 + 1 .. Len(s)
      BY <2>1
    <3> QED BY <1>3, <2>2, <3>1 DEF Behind
  <2>4. Behind(s, "write", "set")
    <3>1. d \in 2 + 1 .. Len(s)
      BY <2>1
    <3> QED BY <1>3, <2>2, <3>1 DEF Behind
  <2>5. \A j, k \in 1 .. Len(s) : s[j] = s[k] /\ s[j] \in {"write", "set"} => j = k
    BY <2>2
  <2>6. Has(s, "set") /\ Has(s, "write") /\ ~Has(s, "probe")
    BY <1>3, <2>1, <2>2 DEF Has
  <2> QED BY <1>3, <2>3, <2>4, <2>5, <2>6 DEF OneSave
<1>4. ASSUME NEW b \in Seq(Steps), NEW c \in Seq(Steps),
             \A k \in 1 .. Len(b) : b[k] \notin {"truncate", "write", "set", "probe"},
             \A k \in 1 .. Len(c) : c[k] \notin {"truncate", "write", "set", "probe"}
      PROVE  LET s == <<"truncate", "write">> \o b \o <<"set">> \o c
             IN  OneSave(s) /\ Has(s, "set") /\ Has(s, "write")
  <2> DEFINE a == <<"truncate", "write">>
             s == a \o b \o <<"set">> \o c
             d == Len(b) + 3
  <2>1. /\ a \in Seq(Steps) /\ Len(a) = 2 /\ a[1] = "truncate" /\ a[2] = "write"
        /\ <<"set">> \in Seq(Steps)
    BY DEF Steps
  <2> HIDE DEF a
  <2>2. /\ s \in Seq(Steps) /\ Len(s) = Len(b) + 3 + Len(c) /\ Len(b) \in Nat /\ Len(c) \in Nat
        /\ s[1] = a[1] /\ s[2] = a[2] /\ s[d] = "set"
        /\ \A k \in 3 .. d - 1 : k - 2 \in 1 .. Len(b) /\ s[k] = b[k - 2]
        /\ \A k \in d + 1 .. Len(s) : k - d \in 1 .. Len(c) /\ s[k] = c[k - d]
    <3> DEFINE e == a \o b
               f == e \o <<"set">>
    <3>1. /\ e \in Seq(Steps) /\ Len(e) = Len(b) + 2 /\ Len(b) \in Nat /\ Len(c) \in Nat
          /\ \A k \in 1 .. 2 : e[k] = a[k]
          /\ \A k \in 3 .. Len(b) + 2 : k - 2 \in 1 .. Len(b) /\ e[k] = b[k - 2]
      <4>1. /\ a \o b \in Seq(Steps) /\ Len(a \o b) = Len(a) + Len(b)
            /\ Len(a) \in Nat /\ Len(b) \in Nat
            /\ \A k \in 1 .. Len(a) : (a \o b)[k] = a[k]
            /\ \A k \in Len(a) + 1 .. Len(a) + Len(b) :
                  k - Len(a) \in 1 .. Len(b) /\ (a \o b)[k] = b[k - Len(a)]
        BY <2>1, ConcatSteps
      <4>2. Len(a) + 1 = 3 /\ Len(a) + Len(b) = Len(b) + 2 /\ Len(c) \in Nat
        BY <2>1, <4>1
      <4> HIDE DEF e
      <4>3. e = a \o b
        BY DEF e
      <4> QED BY <2>1, <4>1, <4>2, <4>3
    <3> HIDE DEF e
    <3>2. /\ f \in Seq(Steps) /\ Len(f) = Len(e) + 1 /\ f[Len(e) + 1] = "set"
          /\ \A k \in 1 .. Len(e) : f[k] = e[k]
      <4>1. Len(<<"set">>) = 1 /\ <<"set">>[1] = "set" /\ Len(e) + 1 - Len(e) = 1
        BY <3>1
      <4> QED BY <2>1, <3>1, <4>1, ConcatSteps
    <3>3. d = Len(e) + 1 /\ d \in Nat
      BY <3>1
    <3> HIDE DEF d, f
    <3>4. /\ f \o c \in Seq(Steps) /\ Len(f \o c) = d + Len(c)
          /\ \A k \in 1 .. d : (f \o c)[k] = f[k]
          /\ \A k \in d + 1 .. d + Len(c) : k - d \in 1 .. Len(c) /\ (f \o c)[k] = c[k - d]
      <4>1. /\ f \o c \in Seq(Steps) /\ Len(f \o c) = Len(f) + Len(c)
            /\ \A k \in 1 .. Len(f) : (f \o c)[k] = f[k]
            /\ \A k \in Len(f) + 1 .. Len(f) + Len(c) :
                  k - Len(f) \in 1 .. Len(c) /\ (f \o c)[k] = c[k - Len(f)]
        BY <3>2, ConcatSteps
      <4>2. Len(f) = d
        BY <3>2, <3>3
      <4> QED BY <4>1, <4>2
    <3>5. s = f \o c
      BY DEF e, f
    <3> HIDE DEF s
    <3>6. /\ 1 \in 1 .. d /\ 2 \in 1 .. d /\ d \in 1 .. d /\ 1 \in 1 .. Len(e) /\ 2 \in 1 .. Len(e)
          /\ \A k \in 3 .. d - 1 : k \in 1 .. d /\ k \in 1 .. Len(e) /\ k \in 3 .. Len(b) + 2
      BY <3>1, <3>3
    <3>7. /\ s[1] = a[1] /\ s[2] = a[2] /\ s[d] = "set"
          /\ \A k \in 3 .. d - 1 : k - 2 \in 1 .. Len(b) /\ s[k] = b[k - 2]
      BY <3>1, <3>2, <3>3, <3>4, <3>5, <3>6
    <3>8. /\ Len(s) = Len(b) + 3 + Len(c) /\ s \in Seq(Steps)
          /\ \A k \in d + 1 .. Len(s) : k - d \in 1 .. Len(c) /\ s[k] = c[k - d]
      BY <3>1, <3>3, <3>4, <3>5
    <3> QED BY <3>1, <3>7, <3>8
  <2>3. d \in 3 .. Len(s)
    BY <2>2
  <2>4. \A k \in 3 .. Len(s) \ {d} : s[k] \notin {"truncate", "write", "set", "probe"}
    <3> HIDE DEF s
    <3> TAKE k \in 3 .. Len(s) \ {d}
    <3>1. k \in 3 .. d - 1 \/ k \in d + 1 .. Len(s)
      BY <2>2
    <3> QED BY <1>4, <2>2, <3>1
  <2> HIDE DEF s, d
  <2>5. OneSave(s) /\ Has(s, "set") /\ Has(s, "write")
    BY <1>3, <2>1, <2>2, <2>3, <2>4
  <2> QED BY <2>5 DEF s, a
<1>5. Start \in Seq(Steps) /\ \A k \in 1 .. Len(Start) :
         Start[k] \notin {"truncate", "write", "set", "probe"}
  BY DEF Start, Steps
<1>6. /\ Stop \in Seq(Steps) /\ <<>> \in Seq(Steps)
      /\ \A k \in 1 .. Len(Stop) : Stop[k] \notin {"truncate", "write", "set", "probe"}
      /\ \A k \in 1 .. Len(<<>>) : FALSE
  BY DEF Stop, Steps
<1>7. ASSUME NEW part \in Part
      PROVE  OneSave(Save(part)) /\ Has(Save(part), "set") /\ Has(Save(part), "write")
  <2>1. PICK b \in {Stop, <<>>} :
            Save(part) = <<"truncate", "write">> \o b \o <<"set">> \o Start
    BY DEF Save
  <2> QED BY <1>4, <1>5, <1>6, <2>1
<1> QED BY <1>1, <1>2, <1>7

-----------------------------------------------------------------------------
(* Cleaning the lists.  What is picked of a list keeps its order; a list   *)
(* that was cleaned has no entry left that is hidden behind another, and   *)
(* to clean it again changes nothing.                                      *)

(* Nth enumerates a finite set of numbers in their order: the rank of its  *)
(* elements is one to one, and has as many values as there are elements.   *)
LEMMA NthEnumerates ==
    ASSUME NEW S \in SUBSET Nat, IsFiniteSet(S)
    PROVE  /\ Cardinality(S) \in Nat
           /\ \A k \in 1 .. Cardinality(S) : Nth(S, k) \in S
           /\ \A j, k \in 1 .. Cardinality(S) : j < k => Nth(S, j) < Nth(S, k)
           /\ \A i \in S : \E k \in 1 .. Cardinality(S) : Nth(S, k) = i
<1> DEFINE Below(i) == {j \in S : j <= i}
           n == Cardinality(S)
           rank == [i \in S |-> Cardinality(Below(i))]
<1>1. n \in Nat
  BY FS_CardinalityType
<1>2. ASSUME NEW i \in S
      PROVE  IsFiniteSet(Below(i)) /\ Cardinality(Below(i)) \in 1 .. n
  <2>1. Below(i) \in SUBSET S /\ i \in Below(i)
    OBVIOUS
  <2>2. IsFiniteSet(Below(i)) /\ Cardinality(Below(i)) <= n
    BY <2>1, FS_Subset
  <2>3. Cardinality(Below(i)) \in Nat /\ Cardinality(Below(i)) # 0
    BY <2>1, <2>2, FS_CardinalityType, FS_EmptySet
  <2> QED BY <1>1, <2>2, <2>3
<1>3. ASSUME NEW i \in S, NEW j \in S, i < j
      PROVE  Cardinality(Below(i)) < Cardinality(Below(j))
  <2>1. Below(i) \in SUBSET Below(j) /\ j \in Below(j) /\ j \notin Below(i)
    <3>1. i \in Nat /\ j \in Nat /\ \A x \in S : x \in Nat
      OBVIOUS
    <3>2. \A x \in S : x <= i => x <= j
      BY <1>3, <3>1
    <3>3. j <= j /\ ~(j <= i)
      BY <1>3, <3>1
    <3> QED BY <3>2, <3>3
  <2>2. IsFiniteSet(Below(j))
    BY <1>2
  <2>3. Below(i) # Below(j)
    BY <2>1
  <2>4. Cardinality(Below(i)) \in Nat /\ Cardinality(Below(j)) \in Nat
    BY <1>2
  <2> HIDE DEF Below
  <2>5. /\ Cardinality(Below(i)) <= Cardinality(Below(j))
        /\ Cardinality(Below(j)) # Cardinality(Below(i))
    BY <2>1, <2>2, <2>3, FS_Subset
  <2> QED BY <2>4, <2>5
<1>4. rank \in Injection(S, 1 .. n)
  <2>1. rank \in [S -> 1 .. n]
    BY <1>2
  <2>2. \A i, j \in S : i # j => i < j \/ j < i
    OBVIOUS
  <2>3. ASSUME NEW i \in S, NEW j \in S, i # j PROVE rank[i] # rank[j]
    <3>1. /\ rank[i] = Cardinality(Below(i)) /\ rank[j] = Cardinality(Below(j))
          /\ Cardinality(Below(i)) \in Nat /\ Cardinality(Below(j)) \in Nat
      BY <1>2
    <3>2. \/ Cardinality(Below(i)) < Cardinality(Below(j))
          \/ Cardinality(Below(j)) < Cardinality(Below(i))
      BY <1>3, <2>2, <2>3
    <3> HIDE DEF rank, Below
    <3> QED BY <3>1, <3>2
  <2> QED BY <2>1, <2>3 DEF Injection, IsInjective
<1>5. rank \in Surjection(S, 1 .. n)
  <2>1. IsFiniteSet(1 .. n) /\ Cardinality(1 .. n) = n
    BY <1>1, FS_Interval
  <2> HIDE DEF rank
  <2> QED BY <1>4, <2>1, FS_Injection
<1>6. \A k \in 1 .. n : \E i \in S : Cardinality(Below(i)) = k
  BY <1>5 DEF Surjection
<1>7. \A k \in 1 .. n : Nth(S, k) \in S /\ Cardinality(Below(Nth(S, k))) = k
  BY <1>6 DEF Nth
<1>8. \A i \in S : Cardinality(Below(i)) \in 1 .. n
  BY <1>2
<1>9. \A i, j \in S : i < j => Cardinality(Below(i)) < Cardinality(Below(j))
  BY <1>3
<1>10. \A i \in S : i \in Nat
  OBVIOUS
<1> HIDE DEF Below, n
<1>11. ASSUME NEW j \in 1 .. n, NEW k \in 1 .. n, j < k PROVE Nth(S, j) < Nth(S, k)
  <2>1. /\ Nth(S, j) \in S /\ Cardinality(Below(Nth(S, j))) = j
        /\ Nth(S, k) \in S /\ Cardinality(Below(Nth(S, k))) = k
    BY <1>7
  <2>2. Nth(S, j) # Nth(S, k)
    BY <1>1, <1>11, <2>1
  <2>3. PICK x, y \in S : x = Nth(S, j) /\ y = Nth(S, k)
    BY <2>1
  <2>4. x \in Nat /\ y \in Nat /\ j \in Nat /\ k \in Nat
    BY <1>1, <1>10
  <2>5. ~(y < x)
    <3>1. y < x => k < j
      BY <1>9, <2>1, <2>3
    <3> QED BY <1>11, <2>4, <3>1
  <2> QED BY <2>2, <2>3, <2>4, <2>5
<1>12. ASSUME NEW i \in S PROVE \E k \in 1 .. n : Nth(S, k) = i
  <2>1. PICK k \in 1 .. n : Cardinality(Below(i)) = k
    BY <1>8
  <2>2. Nth(S, k) \in S /\ Cardinality(Below(Nth(S, k))) = k
    BY <1>7
  <2>3. PICK x \in S : x = Nth(S, k)
    BY <2>2
  <2>4. x \in Nat /\ i \in Nat /\ k \in Nat
    BY <1>1, <1>10
  <2>5. (x < i => k < k) /\ (i < x => k < k)
    BY <1>9, <2>1, <2>2, <2>3
  <2> QED BY <2>3, <2>4, <2>5
<1> QED BY <1>1, <1>7, <1>11, <1>12 DEF n

LEMMA NthOfAll ==
    ASSUME NEW n \in Nat
    PROVE  /\ Cardinality(1 .. n) = n
           /\ \A k \in 1 .. n : Nth(1 .. n, k) = k
<1>1. \A m \in Nat : IsFiniteSet(1 .. m) /\ Cardinality(1 .. m) = m
  BY FS_Interval
<1>2. ASSUME NEW k \in 1 .. n PROVE Nth(1 .. n, k) = k
  <2>1. \A i \in 1 .. n : {j \in 1 .. n : j <= i} = 1 .. i
    OBVIOUS
  <2>2. ASSUME NEW i \in 1 .. n PROVE Cardinality({j \in 1 .. n : j <= i}) = i
    <3>1. {j \in 1 .. n : j <= i} = 1 .. i /\ i \in Nat
      BY <2>1
    <3>2. Cardinality(1 .. i) = i
      BY <1>1, <3>1
    <3> QED BY <3>1, <3>2
  <2> QED BY <2>2 DEF Nth
<1> QED BY <1>1, <1>2

(* What is picked of a list.                                               *)
LEMMA PickedSome ==
    ASSUME NEW T, NEW list \in Seq(T), NEW S \in SUBSET DOMAIN list
    PROVE  /\ Picked(list, S) \in Seq(T)
           /\ Len(Picked(list, S)) = Cardinality(S)
           /\ Cardinality(S) \in Nat
           /\ S \in SUBSET Nat /\ IsFiniteSet(S)
           /\ \A k \in 1 .. Cardinality(S) :
                /\ Nth(S, k) \in S
                /\ Picked(list, S)[k] = list[Nth(S, k)]
<1>1. IsFiniteSet(DOMAIN list) /\ DOMAIN list \in SUBSET Nat
  <2>1. DOMAIN list = 1 .. Len(list) /\ Len(list) \in Nat
    OBVIOUS
  <2> QED BY <2>1, FS_Interval
<1>2. IsFiniteSet(S) /\ S \in SUBSET Nat
  BY <1>1, FS_Subset
<1>3. Cardinality(S) \in Nat /\ \A k \in 1 .. Cardinality(S) : Nth(S, k) \in S
  BY <1>2, NthEnumerates
<1>4. \A i \in S : list[i] \in T
  OBVIOUS
<1>5. Picked(list, S) \in [1 .. Cardinality(S) -> T]
  BY <1>3, <1>4 DEF Picked
<1>6. Picked(list, S) \in Seq(T) /\ Len(Picked(list, S)) = Cardinality(S)
  BY <1>3, <1>5
<1>7. \A k \in 1 .. Cardinality(S) : Picked(list, S)[k] = list[Nth(S, k)]
  BY DEF Picked
<1> QED BY <1>2, <1>3, <1>6, <1>7

LEMMA PickedAll ==
    ASSUME NEW T, NEW list \in Seq(T)
    PROVE  Picked(list, DOMAIN list) = list
<1>1. DOMAIN list = 1 .. Len(list) /\ Len(list) \in Nat
  OBVIOUS
<1>2. /\ Cardinality(DOMAIN list) = Len(list)
      /\ \A k \in 1 .. Len(list) : Nth(DOMAIN list, k) = k
  BY <1>1, NthOfAll
<1>3. Picked(list, DOMAIN list) = [k \in 1 .. Len(list) |-> list[k]]
  BY <1>2 DEF Picked
<1> QED BY <1>1, <1>3

LEMMA DomainOfList ==
    ASSUME NEW T, NEW list \in Seq(T)
    PROVE  /\ DOMAIN list = 1 .. Len(list) /\ Len(list) \in Nat
           /\ \A i \in 1 .. Len(list) : list[i] \in T
OBVIOUS

(* Trimming a text twice is trimming it once.                              *)
LEMMA TrimmedText ==
    ASSUME NEW text \in Text
    PROVE  /\ Trimmed(text) \in Text /\ Trimmed(Trimmed(text)) = Trimmed(text)
           /\ IsBlank(Trimmed(text)) <=> IsBlank(text)
<1> DEFINE S == {i \in DOMAIN text : text[i] # " "}
           once == Trimmed(text)
<1>1. /\ once \in Seq(Word) /\ Len(once) \in Nat
      /\ \A k \in 1 .. Len(once) : once[k] # " "
  <2>1. S \in SUBSET DOMAIN text /\ text \in Seq(Word)
    BY DEF Text
  <2>2. once = Picked(text, S)
    BY DEF Trimmed
  <2> HIDE DEF once
  <2>3. /\ once \in Seq(Word) /\ Len(once) = Cardinality(S) /\ Cardinality(S) \in Nat
        /\ \A k \in 1 .. Cardinality(S) : Nth(S, k) \in S /\ once[k] = text[Nth(S, k)]
    BY <2>1, <2>2, PickedSome
  <2>4. \A i \in S : text[i] # " "
    OBVIOUS
  <2> HIDE DEF S
  <2> QED BY <2>3, <2>4
<1> HIDE DEF once
<1>2. {i \in DOMAIN once : once[i] # " "} = DOMAIN once
  <2>1. DOMAIN once = 1 .. Len(once)
    BY <1>1, DomainOfList
  <2> QED BY <1>1, <2>1
<1>3. Trimmed(once) = once
  BY <1>1, <1>2, PickedAll DEF Trimmed
<1> QED BY <1>1, <1>3 DEF once, Text, IsBlank

LEMMA NotBlank == Uuid \in Text /\ ~IsBlank(Uuid)
<1>1. Uuid \in Seq(Word) /\ Len(Uuid) = 1 /\ Uuid[1] = "uuid"
  <2>1. ASSUME NEW T, NEW c \in T PROVE <<c>> \in Seq(T) /\ Len(<<c>>) = 1 /\ <<c>>[1] = c
    OBVIOUS
  <2> QED BY <2>1, WordAssumption, Zenon DEF Uuid
<1>2. {i \in DOMAIN Uuid : Uuid[i] # " "} = DOMAIN Uuid
  <2>1. \A i \in 1 .. 1 : i = 1
    OBVIOUS
  <2>2. "uuid" # " "
    OBVIOUS
  <2>3. \A i \in DOMAIN Uuid : Uuid[i] = "uuid"
    BY <1>1, <2>1, DomainOfList
  <2> QED BY <2>2, <2>3
<1>3. Trimmed(Uuid) = Uuid
  BY <1>1, <1>2, PickedAll DEF Trimmed
<1>4. Uuid # <<>>
  BY DEF Uuid
<1> QED BY <1>1, <1>3, <1>4 DEF Text, IsBlank

-----------------------------------------------------------------------------
(* The assignments, once cleaned, are one to one.                          *)

OneToOne(list) ==
    \A i, j \in DOMAIN list :
        i # j => list[i].role # list[j].role /\ list[i].device_id # list[j].device_id

LEMMA AssignmentsCleaned ==
    ASSUME NEW list \in Seq(DeviceRoleAssignment)
    PROVE  LET clean == sanitize_device_role_assignments(list)
           IN  /\ clean \in Seq(DeviceRoleAssignment) /\ OneToOne(clean)
               /\ sanitize_device_role_assignments(clean) = clean
<1> DEFINE S == {i \in DOMAIN list : LastOfRole(list, i) /\ LastOfDevice(list, i)}
           kept == Picked(list, S)
           clean == TrimmedAssignments(kept)
           n == Cardinality(S)
<1>0. clean = sanitize_device_role_assignments(list)
  BY DEF sanitize_device_role_assignments
<1>1. /\ kept \in Seq(DeviceRoleAssignment) /\ Len(kept) = n /\ n \in Nat
      /\ S \in SUBSET Nat /\ IsFiniteSet(S)
      /\ \A k \in 1 .. n : Nth(S, k) \in S /\ kept[k] = list[Nth(S, k)]
  <2>1. S \in SUBSET DOMAIN list
    OBVIOUS
  <2> HIDE DEF S
  <2> QED BY <2>1, PickedSome
<1>2. \A j, k \in 1 .. n : j < k => Nth(S, j) < Nth(S, k)
  BY <1>1, NthEnumerates
<1>3. \A i \in S : /\ i \in 1 .. Len(list) /\ list[i].device_id \in Text
                   /\ list[i].role \in STRING
                   /\ LastOfRole(list, i) /\ LastOfDevice(list, i)
  <2> SUFFICES ASSUME NEW i \in S
               PROVE  /\ i \in 1 .. Len(list) /\ list[i].device_id \in Text
                      /\ list[i].role \in STRING
                      /\ LastOfRole(list, i) /\ LastOfDevice(list, i)
    OBVIOUS
  <2>1. i \in DOMAIN list /\ LastOfRole(list, i) /\ LastOfDevice(list, i)
    OBVIOUS
  <2>2. i \in 1 .. Len(list) /\ list[i] \in DeviceRoleAssignment
    BY <2>1, DomainOfList
  <2> QED BY <2>1, <2>2 DEF DeviceRoleAssignment
<1> HIDE DEF S, kept, n
<1>4. /\ clean \in Seq(DeviceRoleAssignment) /\ Len(clean) = n /\ DOMAIN clean = 1 .. n
      /\ \A k \in 1 .. n :
            /\ clean[k].role = list[Nth(S, k)].role
            /\ clean[k].device_id = Trimmed(list[Nth(S, k)].device_id)
  <2>1. DOMAIN kept = 1 .. n
    BY <1>1
  <2>2. ASSUME NEW k \in 1 .. n
        PROVE  /\ clean[k] \in DeviceRoleAssignment
               /\ clean[k].role = list[Nth(S, k)].role
               /\ clean[k].device_id = Trimmed(list[Nth(S, k)].device_id)
    <3>1. PICK a \in DeviceRoleAssignment : a = kept[k]
      BY <1>1, <2>1
    <3>2. clean[k] = [a EXCEPT !.device_id = Trimmed(a.device_id)]
      BY <2>1, <3>1 DEF TrimmedAssignments
    <3>3. Trimmed(a.device_id) \in Text
      BY TrimmedText DEF DeviceRoleAssignment
    <3>4. a = list[Nth(S, k)]
      BY <1>1, <3>1
    <3> QED BY <3>2, <3>3, <3>4 DEF DeviceRoleAssignment
  <2>3. clean = [k \in 1 .. n |-> clean[k]]
    BY <2>1 DEF TrimmedAssignments
  <2> HIDE DEF clean
  <2>4. clean \in [1 .. n -> DeviceRoleAssignment]
    BY <2>2, <2>3
  <2> QED BY <1>1, <2>2, <2>4
<1> HIDE DEF clean
<1>5. ASSUME NEW j \in 1 .. n, NEW k \in 1 .. n, j < k
      PROVE  clean[j].role # clean[k].role /\ clean[j].device_id # clean[k].device_id
  <2>1. PICK x, y \in S : x = Nth(S, j) /\ y = Nth(S, k)
    BY <1>1
  <2>2. /\ x \in 1 .. Len(list) /\ y \in 1 .. Len(list) /\ x < y
        /\ LastOfRole(list, x) /\ LastOfDevice(list, x) /\ LastOfRole(list, y)
    BY <1>2, <1>3, <1>5, <2>1
  <2>3. y \in x + 1 .. Len(list)
    BY <2>2
  <2>4. list[y].role # list[x].role
    BY <2>2, <2>3 DEF LastOfRole
  <2>5. Trimmed(list[y].device_id) # Trimmed(list[x].device_id)
    BY <2>2, <2>3 DEF LastOfDevice
  <2> QED BY <1>4, <2>1, <2>4, <2>5
<1>6. OneToOne(clean)
  <2>1. \A i, j \in 1 .. n : i # j => i < j \/ j < i
    BY <1>1
  <2> QED BY <1>4, <1>5, <2>1 DEF OneToOne
<1>7. \A k \in 1 .. n : /\ Trimmed(clean[k].device_id) = clean[k].device_id
                        /\ ~IsBlank(clean[k].device_id)
  <2> SUFFICES ASSUME NEW k \in 1 .. n
               PROVE  /\ Trimmed(clean[k].device_id) = clean[k].device_id
                      /\ ~IsBlank(clean[k].device_id)
    OBVIOUS
  <2>1. PICK x \in S : x = Nth(S, k)
    BY <1>1
  <2>2. list[x].device_id \in Text /\ ~IsBlank(list[x].device_id)
    BY <1>3 DEF LastOfRole
  <2> QED BY <1>4, <2>1, <2>2, TrimmedText
<1>8. ASSUME NEW k \in 1 .. n PROVE LastOfRole(clean, k) /\ LastOfDevice(clean, k)
  <2>1. \A j \in k + 1 .. Len(clean) :
            j \in 1 .. n /\ clean[j].role # clean[k].role
            /\ clean[j].device_id # clean[k].device_id
    <3> SUFFICES ASSUME NEW j \in k + 1 .. Len(clean)
                 PROVE  j \in 1 .. n /\ clean[j].role # clean[k].role
                        /\ clean[j].device_id # clean[k].device_id
      OBVIOUS
    <3>1. j \in 1 .. n /\ k < j
      BY <1>1, <1>4
    <3> QED BY <1>5, <3>1
  <2> QED BY <1>7, <2>1 DEF LastOfRole, LastOfDevice
<1>9. {i \in DOMAIN clean : LastOfRole(clean, i) /\ LastOfDevice(clean, i)} = DOMAIN clean
  BY <1>4, <1>8
<1>10. TrimmedAssignments(clean) = clean
  <2>1. ASSUME NEW k \in 1 .. n
        PROVE  [clean[k] EXCEPT !.device_id = Trimmed(clean[k].device_id)] = clean[k]
    <3>1. PICK a \in DeviceRoleAssignment : a = clean[k]
      BY <1>4
    <3>2. Trimmed(a.device_id) = a.device_id
      BY <1>7, <3>1
    <3> QED BY <3>1, <3>2 DEF DeviceRoleAssignment
  <2>2. clean = [k \in 1 .. n |-> clean[k]]
    BY <1>4
  <2>3. TrimmedAssignments(clean) =
            [k \in 1 .. n |-> [clean[k] EXCEPT !.device_id = Trimmed(clean[k].device_id)]]
    BY <1>4 DEF TrimmedAssignments
  <2> QED BY <2>1, <2>2, <2>3
<1>11. sanitize_device_role_assignments(clean) = clean
  BY <1>4, <1>9, <1>10, PickedAll DEF sanitize_device_role_assignments
<1> QED BY <1>0, <1>4, <1>6, <1>11

-----------------------------------------------------------------------------
(* The mappings, once cleaned: each role has one configuration, and in it  *)
(* each input one action.                                                  *)

OncePerRole(list) ==
    \A i, j \in DOMAIN list : i # j => list[i].role # list[j].role

OncePerInput(list) ==
    \A i, j \in DOMAIN list : i # j => list[i].input # list[j].input

LEMMA MappingOf ==
    ASSUME NEW m \in RoleControlMapping, NEW x, NEW y, NEW z
    PROVE  [m EXCEPT !.id = x, !.identifier = y, !.argument = z]
             = [id |-> x, input |-> m.input, identifier |-> y, argument |-> z]
<1> DEFINE a == [m EXCEPT !.id = x]
           b == [a EXCEPT !.identifier = y]
           c == [b EXCEPT !.argument = z]
<1>1. m = [id |-> m.id, input |-> m.input,
           identifier |-> m.identifier, argument |-> m.argument]
  BY DEF RoleControlMapping
<1>2. a = [id |-> x, input |-> m.input,
           identifier |-> m.identifier, argument |-> m.argument]
  BY <1>1
<1>3. [m EXCEPT !.id = x, !.identifier = y, !.argument = z] = c
  OBVIOUS
<1> HIDE DEF a
<1>4. b = [id |-> x, input |-> m.input, identifier |-> y, argument |-> m.argument]
  BY <1>2
<1> HIDE DEF b
<1>5. c = [id |-> x, input |-> m.input, identifier |-> y, argument |-> z]
  BY <1>4
<1> QED BY <1>3, <1>5

LEMMA MappingCleaned ==
    ASSUME NEW m \in RoleControlMapping
    PROVE  /\ CleanMapping(m) \in RoleControlMapping
           /\ CleanMapping(m).input = m.input
           /\ CleanMapping(CleanMapping(m)) = CleanMapping(m)
           /\ IsAction(m) => IsAction(CleanMapping(m))
<1> DEFINE id == IF IsBlank(m.id) THEN Uuid ELSE m.id
           clean == [id |-> id, input |-> m.input,
                     identifier |-> Trimmed(m.identifier),
                     argument |-> Trimmed(m.argument)]
<1>1. /\ m.id \in Text /\ m.input \in STRING
      /\ m.identifier \in Text /\ m.argument \in Text
      /\ m = [id |-> m.id, input |-> m.input,
              identifier |-> m.identifier, argument |-> m.argument]
  BY DEF RoleControlMapping
<1>2. CleanMapping(m) = clean
  BY MappingOf DEF CleanMapping
<1>3. id \in Text /\ ~IsBlank(id)
  BY <1>1, NotBlank
<1> HIDE DEF id
<1>4. /\ clean \in RoleControlMapping
      /\ clean.id = id /\ clean.input = m.input
      /\ clean.identifier = Trimmed(m.identifier) /\ clean.argument = Trimmed(m.argument)
  BY <1>1, <1>3, TrimmedText DEF RoleControlMapping
<1>5. /\ Trimmed(clean.identifier) = clean.identifier
      /\ Trimmed(clean.argument) = clean.argument
      /\ IsBlank(clean.identifier) <=> IsBlank(m.identifier)
      /\ IsBlank(clean.argument) <=> IsBlank(m.argument)
  BY <1>1, <1>4, TrimmedText
<1>6. CleanMapping(clean) = clean
  <2>1. ~IsBlank(clean.id)
    BY <1>3, <1>4
  <2> HIDE DEF clean
  <2>2. PICK c \in RoleControlMapping : c = clean
    BY <1>4
  <2>3. /\ ~IsBlank(c.id) /\ Trimmed(c.identifier) = c.identifier
        /\ Trimmed(c.argument) = c.argument
    BY <1>5, <2>1, <2>2
  <2>4. CleanMapping(c) = c
    BY <2>3 DEF CleanMapping, RoleControlMapping
  <2> QED BY <2>2, <2>4
<1> HIDE DEF clean
<1> QED BY <1>2, <1>4, <1>5, <1>6 DEF IsAction

LEMMA ConfigCleaned ==
    ASSUME NEW c \in RoleMappingConfig
    PROVE  /\ CleanConfig(c) \in RoleMappingConfig /\ CleanConfig(c).role = c.role
           /\ OncePerInput(CleanConfig(c).mappings)
           /\ CleanConfig(CleanConfig(c)) = CleanConfig(c)
<1> DEFINE list == c.mappings
           S == {i \in DOMAIN list : FirstOfInput(list, i)}
           kept == Picked(list, S)
           clean == [k \in DOMAIN kept |-> CleanMapping(kept[k])]
           n == Cardinality(S)
<1>0. /\ list \in Seq(RoleControlMapping) /\ c.role \in STRING
      /\ clean = CleanMappings(list)
      /\ CleanConfig(c) = [c EXCEPT !.mappings = clean]
  BY DEF CleanConfig, CleanMappings, RoleMappingConfig
<1>1. /\ kept \in Seq(RoleControlMapping) /\ Len(kept) = n /\ n \in Nat
      /\ S \in SUBSET Nat /\ IsFiniteSet(S)
      /\ \A k \in 1 .. n : Nth(S, k) \in S /\ kept[k] = list[Nth(S, k)]
  <2>1. S \in SUBSET DOMAIN list
    OBVIOUS
  <2> HIDE DEF S
  <2> QED BY <1>0, <2>1, PickedSome
<1>2. \A j, k \in 1 .. n : j < k => Nth(S, j) < Nth(S, k)
  BY <1>1, NthEnumerates
<1>3. \A i \in S : i \in 1 .. Len(list) /\ FirstOfInput(list, i)
  <2>1. DOMAIN list = 1 .. Len(list)
    BY <1>0, DomainOfList
  <2> QED BY <2>1
<1> HIDE DEF S, n
<1>4. /\ DOMAIN kept = 1 .. n
      /\ \A k \in 1 .. n : kept[k] \in RoleControlMapping
  BY <1>1, DomainOfList
<1> HIDE DEF kept
<1>5. /\ clean \in Seq(RoleControlMapping) /\ Len(clean) = n /\ DOMAIN clean = 1 .. n
      /\ \A k \in 1 .. n : clean[k] = CleanMapping(list[Nth(S, k)])
  <2>1. \A k \in 1 .. n : CleanMapping(kept[k]) \in RoleControlMapping
    BY <1>4, MappingCleaned
  <2>2. clean \in [1 .. n -> RoleControlMapping]
    BY <1>4, <2>1
  <2> QED BY <1>1, <1>4, <2>2
<1> HIDE DEF clean
<1>6. \A k \in 1 .. n :
        /\ clean[k] \in RoleControlMapping /\ IsAction(clean[k])
        /\ clean[k].input = list[Nth(S, k)].input
        /\ CleanMapping(clean[k]) = clean[k]
  <2> SUFFICES ASSUME NEW k \in 1 .. n
               PROVE  /\ clean[k] \in RoleControlMapping /\ IsAction(clean[k])
                      /\ clean[k].input = list[Nth(S, k)].input
                      /\ CleanMapping(clean[k]) = clean[k]
    OBVIOUS
  <2>1. PICK m \in RoleControlMapping : m = list[Nth(S, k)]
    BY <1>1, <1>4
  <2>2. IsAction(m)
    BY <1>1, <1>3, <2>1 DEF FirstOfInput
  <2> QED BY <1>5, <2>1, <2>2, MappingCleaned
<1>7. ASSUME NEW j \in 1 .. n, NEW k \in 1 .. n, j < k
      PROVE  clean[j].input # clean[k].input
  <2>1. PICK x, y \in S : x = Nth(S, j) /\ y = Nth(S, k)
    BY <1>1
  <2>2. x \in 1 .. Len(list) /\ y \in 1 .. Len(list) /\ x < y
    BY <1>2, <1>3, <1>7, <2>1
  <2>3. x \in 1 .. y - 1 /\ IsAction(list[x]) /\ FirstOfInput(list, y)
    BY <1>3, <2>2 DEF FirstOfInput
  <2>4. list[x].input # list[y].input
    BY <2>3 DEF FirstOfInput
  <2> QED BY <1>6, <2>1, <2>4
<1>8. OncePerInput(clean)
  <2>1. \A i, j \in 1 .. n : i # j => i < j \/ j < i
    BY <1>1
  <2> QED BY <1>5, <1>7, <2>1 DEF OncePerInput
<1>9. {i \in DOMAIN clean : FirstOfInput(clean, i)} = DOMAIN clean
  <2>1. ASSUME NEW k \in 1 .. n PROVE FirstOfInput(clean, k)
    <3>1. \A j \in 1 .. k - 1 : j \in 1 .. n /\ j < k
      BY <1>1
    <3> QED BY <1>6, <1>7, <3>1 DEF FirstOfInput
  <2> QED BY <1>5, <2>1
<1>10. [k \in DOMAIN clean |-> CleanMapping(clean[k])] = clean
  <2>1. clean = [k \in 1 .. n |-> clean[k]]
    BY <1>5
  <2> QED BY <1>5, <1>6, <2>1
<1>11. PICK d \in RoleMappingConfig :
        d = [c EXCEPT !.mappings = clean] /\ d.mappings = clean /\ d.role = c.role
  BY <1>0, <1>5 DEF RoleMappingConfig
<1>12. CleanConfig(d) = d
  <2>1. Picked(clean, {i \in DOMAIN clean : FirstOfInput(clean, i)}) = clean
    BY <1>5, <1>9, PickedAll
  <2>2. CleanMappings(clean) = clean
    BY <1>10, <2>1 DEF CleanMappings
  <2> QED BY <1>11, <2>2 DEF CleanConfig, RoleMappingConfig
<1> QED BY <1>0, <1>8, <1>11, <1>12

LEMMA MappingsCleaned ==
    ASSUME NEW list \in Seq(RoleMappingConfig)
    PROVE  LET clean == sanitize_role_mappings(list)
           IN  /\ clean \in Seq(RoleMappingConfig) /\ OncePerRole(clean)
               /\ \A i \in DOMAIN clean : OncePerInput(clean[i].mappings)
               /\ sanitize_role_mappings(clean) = clean
<1> DEFINE S == {i \in DOMAIN list : FirstOfItsRole(list, i)}
           kept == Picked(list, S)
           clean == [k \in DOMAIN kept |-> CleanConfig(kept[k])]
           n == Cardinality(S)
<1>0. clean = sanitize_role_mappings(list)
  BY DEF sanitize_role_mappings
<1>1. /\ kept \in Seq(RoleMappingConfig) /\ Len(kept) = n /\ n \in Nat
      /\ S \in SUBSET Nat /\ IsFiniteSet(S)
      /\ \A k \in 1 .. n : Nth(S, k) \in S /\ kept[k] = list[Nth(S, k)]
  <2>1. S \in SUBSET DOMAIN list
    OBVIOUS
  <2> HIDE DEF S
  <2> QED BY <2>1, PickedSome
<1>2. \A j, k \in 1 .. n : j < k => Nth(S, j) < Nth(S, k)
  BY <1>1, NthEnumerates
<1>3. \A i \in S : i \in 1 .. Len(list) /\ FirstOfItsRole(list, i)
  <2>1. DOMAIN list = 1 .. Len(list)
    BY DomainOfList
  <2> QED BY <2>1
<1> HIDE DEF S, n
<1>4. /\ DOMAIN kept = 1 .. n
      /\ \A k \in 1 .. n : kept[k] \in RoleMappingConfig
  BY <1>1, DomainOfList
<1> HIDE DEF kept
<1>5. /\ clean \in Seq(RoleMappingConfig) /\ Len(clean) = n /\ DOMAIN clean = 1 .. n
      /\ \A k \in 1 .. n : clean[k] = CleanConfig(kept[k])
  <2>1. \A k \in 1 .. n : CleanConfig(kept[k]) \in RoleMappingConfig
    BY <1>4, ConfigCleaned
  <2>2. clean \in [1 .. n -> RoleMappingConfig]
    BY <1>4, <2>1
  <2> QED BY <1>1, <1>4, <2>2
<1> HIDE DEF clean
<1>6. \A k \in 1 .. n :
        /\ clean[k].role = list[Nth(S, k)].role
        /\ OncePerInput(clean[k].mappings)
        /\ CleanConfig(clean[k]) = clean[k]
  BY <1>1, <1>4, <1>5, ConfigCleaned
<1>7. ASSUME NEW j \in 1 .. n, NEW k \in 1 .. n, j < k
      PROVE  clean[j].role # clean[k].role
  <2>1. PICK x, y \in S : x = Nth(S, j) /\ y = Nth(S, k)
    BY <1>1
  <2>2. x \in 1 .. Len(list) /\ y \in 1 .. Len(list) /\ x < y
    BY <1>2, <1>3, <1>7, <2>1
  <2>3. x \in 1 .. y - 1
    BY <2>2
  <2>4. list[x].role # list[y].role
    BY <1>3, <2>3 DEF FirstOfItsRole
  <2> QED BY <1>6, <2>1, <2>4
<1>8. OncePerRole(clean)
  <2>1. \A i, j \in 1 .. n : i # j => i < j \/ j < i
    BY <1>1
  <2> QED BY <1>5, <1>7, <2>1 DEF OncePerRole
<1>9. {i \in DOMAIN clean : FirstOfItsRole(clean, i)} = DOMAIN clean
  <2>1. ASSUME NEW k \in 1 .. n PROVE FirstOfItsRole(clean, k)
    <3>1. \A j \in 1 .. k - 1 : j \in 1 .. n /\ j < k
      BY <1>1
    <3> QED BY <1>7, <3>1 DEF FirstOfItsRole
  <2> QED BY <1>5, <2>1
<1>10. [k \in DOMAIN clean |-> CleanConfig(clean[k])] = clean
  <2>1. clean = [k \in 1 .. n |-> clean[k]]
    BY <1>5
  <2> QED BY <1>5, <1>6, <2>1
<1>11. sanitize_role_mappings(clean) = clean
  <2>1. Picked(clean, {i \in DOMAIN clean : FirstOfItsRole(clean, i)}) = clean
    BY <1>5, <1>9, PickedAll
  <2> QED BY <1>10, <2>1 DEF sanitize_role_mappings
<1> QED BY <1>0, <1>5, <1>6, <1>8, <1>11

-----------------------------------------------------------------------------
(* Every list that is saved is clean, and so is what is in the file.       *)

Clean(part, list) == list \in Lists(part) /\ Sanitized(part, list) = list
AllClean(lists) ==
    lists = [part \in Part |-> lists[part]]
    /\ \A part \in Part : Clean(part, lists[part])

LEMMA EndpointsCleaned ==
    ASSUME NEW list \in Seq(DeviceEndpointConfig)
    PROVE  LET clean == sanitize_device_endpoints(list)
           IN  clean \in Seq(DeviceEndpointConfig)
               /\ sanitize_device_endpoints(clean) = clean
<1> DEFINE clean == sanitize_device_endpoints(list)
           f(e) == IF e.baud_rate = 0
                   THEN [e EXCEPT !.baud_rate = DefaultBaudRate] ELSE e
<1>1. \A e \in DeviceEndpointConfig :
        f(e) \in DeviceEndpointConfig /\ f(e).baud_rate # 0
  <2> SUFFICES ASSUME NEW e \in DeviceEndpointConfig
               PROVE  f(e) \in DeviceEndpointConfig /\ f(e).baud_rate # 0
    OBVIOUS
  <2>1. /\ [e EXCEPT !.baud_rate = 115200] \in DeviceEndpointConfig
        /\ [e EXCEPT !.baud_rate = 115200].baud_rate = 115200
    BY DEF DeviceEndpointConfig
  <2>2. CASE e.baud_rate = 0
    BY <2>1, <2>2 DEF DefaultBaudRate
  <2>3. CASE e.baud_rate # 0
    BY <2>3
  <2> QED BY <2>2, <2>3
<1>2. /\ DOMAIN list = 1 .. Len(list) /\ Len(list) \in Nat
      /\ \A i \in 1 .. Len(list) : list[i] \in DeviceEndpointConfig
  BY DomainOfList
<1>3. clean = [i \in 1 .. Len(list) |-> f(list[i])]
  BY <1>2 DEF sanitize_device_endpoints
<1> HIDE DEF clean
<1>4. clean \in [1 .. Len(list) -> DeviceEndpointConfig]
  BY <1>1, <1>2, <1>3
<1>5. /\ clean \in Seq(DeviceEndpointConfig) /\ DOMAIN clean = 1 .. Len(list)
      /\ \A i \in 1 .. Len(list) : clean[i].baud_rate # 0
  BY <1>1, <1>2, <1>3, <1>4
<1>6. sanitize_device_endpoints(clean) = [i \in 1 .. Len(list) |-> clean[i]]
  BY <1>5 DEF sanitize_device_endpoints
<1> QED BY <1>4, <1>5, <1>6 DEF clean

LEMMA CleanIsClean ==
    ASSUME NEW part \in Part, NEW list \in Lists(part)
    PROVE  Clean(part, Sanitized(part, list))
<1>1. CASE part = "endpoints"
  <2>1. \A l : /\ Lists(part) = Seq(DeviceEndpointConfig)
               /\ Sanitized(part, l) = sanitize_device_endpoints(l)
    BY <1>1 DEF Lists, Sanitized
  <2> QED BY <2>1, EndpointsCleaned DEF Clean
<1>2. CASE part = "assignments"
  <2>1. \A l : /\ Lists(part) = Seq(DeviceRoleAssignment)
               /\ Sanitized(part, l) = sanitize_device_role_assignments(l)
    BY <1>2 DEF Lists, Sanitized
  <2> QED BY <2>1, AssignmentsCleaned DEF Clean
<1>3. CASE part = "mappings"
  <2>1. \A l : /\ Lists(part) = Seq(RoleMappingConfig)
               /\ Sanitized(part, l) = sanitize_role_mappings(l)
    BY <1>3 DEF Lists, Sanitized
  <2> QED BY <2>1, MappingsCleaned DEF Clean
<1> QED BY <1>1, <1>2, <1>3 DEF Part

LEMMA NoneIsClean == \A part \in Part : Clean(part, <<>>)
<1> SUFFICES ASSUME NEW part \in Part PROVE Clean(part, <<>>)
  OBVIOUS
<1>1. \A T : <<>> \in Seq(T)
  OBVIOUS
<1>2. Picked(<<>>, {}) = <<>>
  <2>1. Picked(<<>>, DOMAIN <<>>) = <<>>
    BY <1>1, PickedAll
  <2>2. DOMAIN <<>> = {}
    OBVIOUS
  <2> QED BY <2>1, <2>2
<1>3. /\ sanitize_device_endpoints(<<>>) = <<>>
      /\ sanitize_device_role_assignments(<<>>) = <<>>
      /\ sanitize_role_mappings(<<>>) = <<>>
  <2>1. \A i : i \notin DOMAIN <<>>
    OBVIOUS
  <2>2. /\ {i \in DOMAIN <<>> : LastOfRole(<<>>, i) /\ LastOfDevice(<<>>, i)} = {}
        /\ {i \in DOMAIN <<>> : FirstOfItsRole(<<>>, i)} = {}
    BY <2>1
  <2> QED BY <1>2, <2>2 DEF sanitize_device_endpoints, sanitize_device_role_assignments,
                            TrimmedAssignments, sanitize_role_mappings
<1> QED BY <1>1, <1>3 DEF Clean, Lists, Sanitized, Part

(* The first match is the only one.                                        *)
LEMMA OnlyMatch ==
    ASSUME NEW S \in SUBSET Nat, NEW i \in S, \A j \in S : j = i
    PROVE  First(S) = {i}
<1>1. i \in Nat /\ i <= i
  OBVIOUS
<1>2. S = {i}
  OBVIOUS
<1> QED BY <1>1, <1>2 DEF First

LEMMA CleanApplies ==
    ASSUME AllClean(settings)
    PROVE  EntriesApply
<1>1. /\ settings.assignments \in Seq(DeviceRoleAssignment)
      /\ OneToOne(settings.assignments)
  <2>1. Clean("assignments", settings["assignments"])
    BY DEF AllClean, Part
  <2> QED BY <2>1, AssignmentsCleaned DEF Clean, Lists, Sanitized
<1>2. /\ settings.mappings \in Seq(RoleMappingConfig)
      /\ OncePerRole(settings.mappings)
      /\ \A i \in DOMAIN settings.mappings : OncePerInput(settings.mappings[i].mappings)
  <2>1. Clean("mappings", settings["mappings"])
    BY DEF AllClean, Part
  <2> QED BY <2>1, MappingsCleaned DEF Clean, Lists, Sanitized
<1>3. ASSUME NEW i \in DOMAIN settings.assignments
      PROVE  find_role_for_device(settings.assignments, settings.assignments[i].device_id)
                = {settings.assignments[i].role}
  <2> DEFINE found == {j \in DOMAIN settings.assignments :
                          settings.assignments[j].device_id
                              = settings.assignments[i].device_id}
  <2>1. /\ found \in SUBSET Nat /\ i \in found /\ \A j \in found : j = i
    BY <1>1, DomainOfList DEF OneToOne
  <2>2. First(found) = {i}
    BY <2>1, OnlyMatch
  <2> QED BY <2>2 DEF find_role_for_device
<1>4. ASSUME NEW i \in DOMAIN settings.mappings,
             NEW k \in DOMAIN settings.mappings[i].mappings
      PROVE  LET m == settings.mappings[i].mappings[k]
             IN  find_mapping_action(settings.mappings, settings.mappings[i].role, m.input)
                    = {<<m.identifier, m.argument>>}
  <2> DEFINE list == settings.mappings[i].mappings
             m == list[k]
             configs == {j \in DOMAIN settings.mappings :
                            settings.mappings[j].role = settings.mappings[i].role}
             found == {j \in DOMAIN list : list[j].input = m.input}
  <2>1. list \in Seq(RoleControlMapping)
    <3>1. PICK c \in RoleMappingConfig : c = settings.mappings[i]
      BY <1>2, DomainOfList
    <3> QED BY <3>1 DEF RoleMappingConfig
  <2>2. configs \in SUBSET Nat /\ i \in configs /\ \A j \in configs : j = i
    BY <1>2, DomainOfList DEF OncePerRole
  <2>3. found \in SUBSET Nat /\ k \in found /\ \A j \in found : j = k
    BY <1>2, <2>1, DomainOfList DEF OncePerInput
  <2>4. First(configs) = {i} /\ First(found) = {k}
    BY <2>2, <2>3, OnlyMatch
  <2>5. find_action(list, m.input) = {<<m.identifier, m.argument>>}
    BY <2>4 DEF find_action
  <2> QED BY <2>4, <2>5 DEF find_mapping_action
<1> QED BY <1>1, <1>3, <1>4 DEF EntriesApply, OneToOne

LEMMA OneChanged ==
    ASSUME NEW lists, AllClean(lists), NEW part \in Part, NEW list, Clean(part, list)
    PROVE  AllClean([lists EXCEPT ![part] = list])
BY DEF AllClean

LEMMA CleanedIsClean ==
    ASSUME NEW lists, \A part \in Part : lists[part] \in Lists(part)
    PROVE  AllClean(Cleaned(lists))
BY CleanIsClean DEF AllClean, Cleaned

LEMMA CleanedOnce ==
    ASSUME NEW lists, AllClean(lists)
    PROVE  Cleaned(lists) = lists
BY DEF AllClean, Clean, Cleaned

SettingsClean ==
    /\ AllClean(settings)
    /\ file \notin {NoFile, Torn} => AllClean(file)
    /\ request.part \in Part /\ Clean(request.part, request.list)

LEMMA NothingIsClean ==
    AllClean(Default) /\ NoRequest.part \in Part /\ Clean(NoRequest.part, NoRequest.list)
BY NoneIsClean DEF AllClean, Default, NoRequest, Part

LEMMA SettingsCleanNext == SettingsClean /\ [Next]_vars => SettingsClean'
<1> SUFFICES ASSUME SettingsClean, [Next]_vars PROVE SettingsClean'
  OBVIOUS
<1>1. ASSUME UNCHANGED <<settings, file>>, UNCHANGED request \/ request' = NoRequest
      PROVE  SettingsClean'
  BY <1>1, NothingIsClean DEF SettingsClean
<1>2. CASE Load
  <2>1. settings' = Loaded /\ UNCHANGED <<file, request>> /\ file # Torn
    BY <1>2 DEF Load, LoadUnchanged
  <2>2. AllClean(Loaded)
    BY <2>1, NothingIsClean, CleanedOnce DEF SettingsClean, Loaded
  <2> QED BY <2>1, <2>2 DEF SettingsClean
<1>3. CASE Truncate
  BY <1>1, <1>3 DEF Truncate, SettingsClean
<1>4. CASE Write
  <2>1. CASE file' = Saved(request.part, request.list) /\ UNCHANGED <<settings, request>>
    BY <2>1, OneChanged DEF SettingsClean, Saved
  <2>2. CASE UNCHANGED <<settings, file>> /\ request' = NoRequest
    BY <1>1, <2>2
  <2> QED BY <1>4, <2>1, <2>2 DEF Write
<1>5. CASE SetPart
  <2>1. /\ settings' = [settings EXCEPT ![request.part] = request.list]
        /\ request' = NoRequest /\ UNCHANGED file
    BY <1>5 DEF SetPart
  <2> QED BY <2>1, OneChanged, NothingIsClean DEF SettingsClean
<1>6. CASE SavePart
  <2>1. PICK r \in Request : request' = [r EXCEPT !.list = Sanitized(r.part, r.list)]
    BY <1>6 DEF SavePart
  <2>2. /\ r.part \in Part /\ r.list \in Lists(r.part)
        /\ request'.part = r.part /\ request'.list = Sanitized(r.part, r.list)
    BY <2>1, FileAssumption
  <2>3. UNCHANGED <<settings, file>>
    BY <1>6 DEF SavePart, Command
  <2> QED BY <2>2, <2>3, CleanIsClean DEF SettingsClean
<1>7. CASE Crash
  <2>1. settings' = Default /\ request' = NoRequest /\ UNCHANGED file
    BY <1>7 DEF Crash
  <2> QED BY <2>1, NothingIsClean DEF SettingsClean
<1>8. CASE LoadFails \/ update_dcsbios_config \/ list_devices
  BY <1>1, <1>8 DEF LoadFails, LoadUnchanged, update_dcsbios_config, Command, list_devices
<1>9. ASSUME NEW p \in Process, ProcessStep(p) PROVE SettingsClean'
  <2>1. UNCHANGED <<settings, file, request>>
    BY <1>9 DEF ProcessStep, Take, Signal, Join, ReadSettings, Spawn, Store, Scan, Probe,
                ScanPanics, ListDevices, ProbeUnchanged, StepUnchanged
  <2> QED BY <1>1, <2>1
<1>10. ASSUME NEW t \in Slot, Open(t) \/ Stopped(t) \/ Breaks(t) PROVE SettingsClean'
  BY <1>1, <1>10 DEF Open, Stopped, Breaks, ThreadUnchanged, StepUnchanged
<1>11. CASE UNCHANGED vars
  BY <1>1, <1>11 DEF vars, processVars
<1> QED BY <1>2, <1>3, <1>4, <1>5, <1>6, <1>7, <1>8, <1>9, <1>10, <1>11
        DEF Next, Progress, MainStep

LEMMA SettingsCleanInit == Init => SettingsClean
<1> SUFFICES ASSUME Init PROVE SettingsClean
  OBVIOUS
<1>1. file = NoFile \/ AllClean(file)
  BY CleanedIsClean, FileAssumption DEF Init
<1> QED BY <1>1, NothingIsClean DEF Init, SettingsClean

(* What is in the file loads as it was saved, identifiers included: every  *)
(* list was cleaned before it was saved, and cleaning it again when the    *)
(* manager starts changes nothing.                                         *)
THEOREM LoadsAsSaved == Spec => []LoadedAsSaved
<1>1. SettingsClean => LoadedAsSaved
  BY CleanedOnce DEF SettingsClean, LoadedAsSaved, Loaded
<1> QED BY <1>1, SettingsCleanInit, SettingsCleanNext, PTL DEF Spec

(* Roles and devices are one to one in the settings, and the listeners     *)
(* find every entry, whatever lists a user saves.                          *)
THEOREM EntriesAreFound == Spec => []EntriesApply
<1>1. SettingsClean => EntriesApply
  BY CleanApplies DEF SettingsClean
<1> QED BY <1>1, SettingsCleanInit, SettingsCleanNext, PTL DEF Spec

-----------------------------------------------------------------------------
(* What is in memory is what was saved, but while a save is under way.     *)

MemoryIsSaved ==
    ~lost /\ ~At(Main, "load") =>
        IF Has(todo[Main], "set") /\ ~Has(todo[Main], "write")
        THEN saved = [settings EXCEPT ![request.part] = request.list]
        ELSE settings = saved

FileShapes ==
    /\ DOMAIN todo = Process /\ OneSave(todo[Main])
    /\ settings \in [Part -> List]
    /\ file \in {NoFile, Torn} \cup [Part -> List]
    /\ request.part \in Part /\ request.list \in List

FileInv == FileShapes /\ MemoryIsSaved /\ NothingForgotten

LEMMA FileKept ==
    ASSUME FileInv, UNCHANGED <<settings, file, request, saved, lost>>,
           DOMAIN todo' = Process,
           \/ todo'[Main] = todo[Main]
           \/ /\ todo[Main] # <<>> /\ todo'[Main] = Tail(todo[Main])
              /\ todo[Main][1] \in Steps \ {"load", "truncate", "write", "set"}
    PROVE  FileInv'
<1>1. NothingForgotten'
  BY DEF FileInv, NothingForgotten
<1>2. CASE todo'[Main] = todo[Main]
  BY <1>1, <1>2 DEF FileInv, FileShapes, MemoryIsSaved, At
<1>3. CASE /\ todo[Main] # <<>> /\ todo'[Main] = Tail(todo[Main])
           /\ todo[Main][1] \in Steps \ {"load", "truncate", "write", "set"}
  <2>1. /\ OneSave(todo'[Main])
        /\ Has(todo'[Main], "set") <=> Has(todo[Main], "set")
        /\ Has(todo'[Main], "write") <=> Has(todo[Main], "write")
    BY <1>3, TailOfSave DEF FileInv, FileShapes, Steps
  <2>2. ~At(Main, "load")
    <3>1. Head(todo[Main]) = todo[Main][1]
      BY <1>3 DEF FileInv, FileShapes, OneSave
    <3> QED BY <1>3, <3>1 DEF At
  <2> QED BY <1>1, <2>1, <2>2 DEF FileInv, FileShapes, MemoryIsSaved
<1> QED BY <1>2, <1>3

(* The steps of the processes, but for those that concern the file.        *)
LEMMA ProcessFile ==
    ASSUME FileInv, NEW p \in Process, ProcessStep(p)
    PROVE  FileInv'
<1>1. DOMAIN todo = Process /\ Main \in Process /\ OneSave(todo[Main])
  BY DEF FileInv, FileShapes, Process
<1>2. UNCHANGED <<settings, file, request, saved, lost>>
  BY DEF ProcessStep, Take, Signal, Join, ReadSettings, Spawn, Store, Scan, Probe,
         ScanPanics, ListDevices, ProbeUnchanged, StepUnchanged, historyVars
<1>3. /\ todo[p] # <<>> /\ Head(todo[p]) \in Steps \ {"load", "truncate", "write", "set"}
      /\ Proceed(p) \/ UNCHANGED todo \/ (Fail(p) /\ Head(todo[p]) = "probe")
  BY DEF ProcessStep, Take, Signal, Join, ReadSettings, Spawn, Store, Scan, Probe,
         ScanPanics, ListDevices, At, Steps
<1>4. CASE p # Main
  <2>1. DOMAIN todo' = Process /\ todo'[Main] = todo[Main]
    BY <1>1, <1>3, <1>4 DEF Proceed, Fail
  <2> QED BY <1>2, <2>1, FileKept
<1>5. CASE p = Main
  <2>1. Head(todo[Main]) = todo[Main][1] /\ todo[Main][1] # "probe"
    BY <1>1, <1>3, <1>5, TailOfSave DEF OneSave
  <2>2. /\ DOMAIN todo' = Process
        /\ todo'[Main] = todo[Main] \/ todo'[Main] = Tail(todo[Main])
    BY <1>1, <1>3, <1>5, <2>1 DEF Proceed
  <2>3. /\ todo[Main] # <<>>
        /\ todo[Main][1] \in Steps \ {"load", "truncate", "write", "set"}
    BY <1>3, <1>5, <2>1
  <2> QED BY <1>2, <2>2, <2>3, FileKept
<1> QED BY <1>4, <1>5

(* The start reads what was saved, or does not read it and has lost it.    *)
LEMMA LoadFile ==
    ASSUME FileInv, LoadedAsSaved, Load \/ LoadFails
    PROVE  FileInv'
<1>1. /\ DOMAIN todo = Process /\ Main \in Process /\ OneSave(todo[Main])
      /\ todo[Main] # <<>> /\ At(Main, "load")
      /\ UNCHANGED <<file, request, saved>>
  BY DEF FileInv, FileShapes, Process, Load, LoadFails, LoadUnchanged, At
<1>2. CASE Load
  <2>1. /\ file # Torn /\ settings' = Loaded /\ UNCHANGED lost
        /\ DOMAIN todo' = Process /\ todo'[Main] = Start
    BY <1>1, <1>2 DEF Load
  <2>2. settings' = (IF file = NoFile THEN Default ELSE file)
    BY <2>1 DEF LoadedAsSaved, Loaded
  <2>3. Default \in [Part -> List]
    BY DEF Default, List
  <2>4. FileShapes'
    BY <1>1, <2>1, <2>2, <2>3, SavesAreWhole DEF FileInv, FileShapes
  <2>5. NothingForgotten'
    BY <1>1, <2>1 DEF FileInv, NothingForgotten
  <2>6. MemoryIsSaved'
    <3>1. ~lost => settings' = saved'
      BY <1>1, <2>1, <2>2 DEF FileInv, NothingForgotten
    <3>2. ~Has(todo'[Main], "set")
      BY <2>1, SavesAreWhole
    <3> QED BY <2>1, <3>1, <3>2 DEF MemoryIsSaved
  <2> QED BY <2>4, <2>5, <2>6 DEF FileInv
<1>3. CASE LoadFails
  <2>1. /\ lost' = TRUE /\ UNCHANGED settings /\ DOMAIN todo' = Process
        /\ todo'[Main] = Tail(todo[Main])
    BY <1>1, <1>3 DEF LoadFails, Proceed
  <2>2. OneSave(todo'[Main])
    BY <1>1, <2>1, TailOfSave
  <2> QED BY <1>1, <2>1, <2>2 DEF FileInv, FileShapes, MemoryIsSaved, NothingForgotten
<1> QED BY <1>2, <1>3

(* Truncate, Write and SetPart, each of which may be the last that is done.*)
LEMMA SaveFile ==
    ASSUME FileInv, Truncate \/ Write \/ SetPart
    PROVE  FileInv'
<1>1. /\ DOMAIN todo = Process /\ Main \in Process /\ OneSave(todo[Main])
      /\ settings \in [Part -> List] /\ request.part \in Part /\ request.list \in List
      /\ todo[Main] # <<>>
  BY DEF FileInv, FileShapes, Process, Truncate, Write, SetPart, At
<1>2. Head(todo[Main]) = todo[Main][1]
  BY <1>1 DEF OneSave
<1>3. /\ UNCHANGED lost /\ ~At(Main, "load")
      /\ NoRequest.part \in Part /\ NoRequest.list \in List
  BY <1>1, <1>2 DEF Truncate, Write, SetPart, SaveUnchanged, At, NoRequest, Part, List
<1>4. [settings EXCEPT ![request.part] = request.list] \in [Part -> List]
  BY <1>1
<1>5. CASE Truncate
  <2>1. Has(todo[Main], "write") /\ (Has(Tail(todo[Main]), "write") /\ OneSave(Tail(todo[Main])))
    BY <1>1, <1>2, <1>5, TailOfSave DEF Truncate, At, Steps
  <2>2. UNCHANGED <<settings, saved>> /\ DOMAIN todo' = Process
    BY <1>1, <1>5 DEF Truncate, Proceed, Fail
  <2>3. ~lost => settings' = saved'
    BY <1>3, <2>1, <2>2 DEF FileInv, MemoryIsSaved
  <2>4. CASE file' = Torn /\ Proceed(Main) /\ UNCHANGED request
    <3>1. todo'[Main] = Tail(todo[Main])
      BY <1>1, <2>4 DEF Proceed
    <3> QED BY <1>1, <1>3, <2>1, <2>2, <2>3, <2>4, <3>1
            DEF FileInv, FileShapes, MemoryIsSaved, NothingForgotten
  <2>5. CASE UNCHANGED file /\ Fail(Main) /\ request' = NoRequest
    <3>1. todo'[Main] = <<>>
      BY <1>1, <2>5 DEF Fail
    <3>2. OneSave(todo'[Main]) /\ ~Has(todo'[Main], "set")
      BY <3>1, SavesAreWhole
    <3> QED BY <1>1, <1>3, <2>2, <2>3, <2>5, <3>2
            DEF FileInv, FileShapes, MemoryIsSaved, NothingForgotten
  <2> QED BY <1>5, <2>4, <2>5 DEF Truncate
<1>6. CASE Write
  <2>1. /\ Has(todo[Main], "write") /\ OneSave(Tail(todo[Main]))
        /\ Has(Tail(todo[Main]), "set") /\ ~Has(Tail(todo[Main]), "write")
    <3>1. todo[Main][1] = "write" /\ 1 \in 1 .. Len(todo[Main])
      BY <1>1, <1>2, <1>6 DEF Write, At, OneSave
    <3> QED BY <1>1, <3>1, TailOfSave DEF Has
  <2>2. UNCHANGED settings /\ DOMAIN todo' = Process
    BY <1>1, <1>6 DEF Write, Proceed, Fail
  <2>3. ~lost => settings = saved
    BY <1>3, <2>1 DEF FileInv, MemoryIsSaved
  <2>4. CASE /\ file' = Saved(request.part, request.list)
             /\ saved' = [saved EXCEPT ![request.part] = request.list]
             /\ Proceed(Main) /\ UNCHANGED request
    <3>1. todo'[Main] = Tail(todo[Main])
      BY <1>1, <2>4 DEF Proceed
    <3>2. /\ file' \in [Part -> List] /\ file' # NoFile
          /\ file' = [settings EXCEPT ![request.part] = request.list]
      BY <1>4, <2>4, FileAssumption DEF Saved
    <3>3. ~lost => file' = saved'
      BY <2>3, <2>4, <3>2
    <3>4. NothingForgotten'
      BY <1>3, <3>2, <3>3 DEF NothingForgotten
    <3>5. MemoryIsSaved'
      BY <1>3, <2>1, <2>2, <2>4, <3>1, <3>2, <3>3 DEF MemoryIsSaved
    <3> QED BY <1>1, <2>1, <2>2, <2>4, <3>1, <3>2, <3>4, <3>5 DEF FileInv, FileShapes
  <2>5. CASE UNCHANGED <<file, saved>> /\ Fail(Main) /\ request' = NoRequest
    <3>1. todo'[Main] = <<>>
      BY <1>1, <2>5 DEF Fail
    <3>2. OneSave(todo'[Main]) /\ ~Has(todo'[Main], "set")
      BY <3>1, SavesAreWhole
    <3> QED BY <1>1, <1>3, <2>2, <2>3, <2>5, <3>2
            DEF FileInv, FileShapes, MemoryIsSaved, NothingForgotten
  <2> QED BY <1>6, <2>4, <2>5 DEF Write
<1>7. CASE SetPart
  <2>1. /\ OneSave(Tail(todo[Main])) /\ ~Has(Tail(todo[Main]), "set")
        /\ Has(todo[Main], "set") /\ ~Has(todo[Main], "write")
    <3>1. todo[Main][1] = "set" /\ 1 \in 1 .. Len(todo[Main])
      BY <1>1, <1>2, <1>7 DEF SetPart, At, OneSave
    <3> QED BY <1>1, <3>1, TailOfSave DEF Has
  <2>2. /\ settings' = [settings EXCEPT ![request.part] = request.list]
        /\ request' = NoRequest /\ UNCHANGED <<file, saved>>
        /\ DOMAIN todo' = Process /\ todo'[Main] = Tail(todo[Main])
    BY <1>1, <1>7 DEF SetPart, Proceed
  <2>3. ~lost => settings' = saved'
    BY <1>3, <2>1, <2>2 DEF FileInv, MemoryIsSaved
  <2>4. FileShapes'
    BY <1>1, <1>3, <1>4, <2>1, <2>2 DEF FileInv, FileShapes
  <2> QED BY <1>3, <2>1, <2>2, <2>3, <2>4
          DEF FileInv, MemoryIsSaved, NothingForgotten
<1> QED BY <1>5, <1>6, <1>7

LEMMA CommandFile ==
    ASSUME FileInv, SavePart \/ update_dcsbios_config \/ list_devices
    PROVE  FileInv'
<1>1. /\ DOMAIN todo = Process /\ Main \in Process /\ Main \notin Task
      /\ UNCHANGED <<settings, file, saved, lost>>
  BY DEF FileInv, FileShapes, Process, SavePart, update_dcsbios_config, Command,
         list_devices, SaveUnchanged, historyVars
<1>2. CASE list_devices
  <2>1. DOMAIN todo' = Process /\ todo'[Main] = todo[Main] /\ UNCHANGED request
    BY <1>1, <1>2 DEF list_devices
  <2> QED BY <1>1, <2>1, FileKept
<1>3. ASSUME todo[Main] = <<>>, DOMAIN todo' = Process, OneSave(todo'[Main]),
             Has(todo'[Main], "set") => Has(todo'[Main], "write"),
             request'.part \in Part, request'.list \in List
      PROVE  FileInv'
  <2>1. ~lost => settings = saved
    <3>1. ~At(Main, "load") /\ ~Has(todo[Main], "set")
      BY <1>3, SavesAreWhole DEF At
    <3> QED BY <3>1 DEF FileInv, MemoryIsSaved
  <2> QED BY <1>1, <1>3, <2>1 DEF FileInv, FileShapes, MemoryIsSaved, NothingForgotten
<1>4. CASE SavePart
  <2>1. PICK r \in Request : /\ request' = [r EXCEPT !.list = Sanitized(r.part, r.list)]
                             /\ todo' = [todo EXCEPT ![Main] = Save(r.part)]
    BY <1>4 DEF SavePart
  <2>2. DOMAIN r = {"part", "list"} /\ r.part \in Part
    BY FileAssumption
  <2>3. request'.part = r.part /\ request'.list = Sanitized(r.part, r.list)
    BY <2>1, <2>2
  <2>4. request'.list \in List
    BY <2>3 DEF List
  <2>5. todo'[Main] = Save(r.part) /\ DOMAIN todo' = Process /\ todo[Main] = <<>>
    BY <1>1, <1>4, <2>1 DEF SavePart, Command
  <2> QED BY <1>3, <2>2, <2>3, <2>4, <2>5, SavesAreWhole
<1>5. CASE update_dcsbios_config
  <2>1. /\ todo[Main] = <<>> /\ todo'[Main] = Start /\ DOMAIN todo' = Process
        /\ UNCHANGED request
    BY <1>1, <1>5 DEF update_dcsbios_config, Command
  <2> QED BY <1>3, <2>1, SavesAreWhole DEF FileInv, FileShapes
<1> QED BY <1>2, <1>4, <1>5

LEMMA FileNext ==
    ASSUME FileInv, LoadedAsSaved, [Next]_vars
    PROVE  FileInv'
<1>0. Main \in Process /\ DOMAIN todo = Process
  BY DEF Process, FileInv, FileShapes
<1>1. CASE MainStep
  BY <1>1, LoadFile, SaveFile DEF MainStep
<1>2. ASSUME NEW p \in Process, ProcessStep(p) PROVE FileInv'
  BY <1>2, ProcessFile
<1>3. ASSUME NEW t \in Slot, Open(t) \/ Stopped(t) \/ Breaks(t) PROVE FileInv'
  <2>1. UNCHANGED <<todo, settings, file, request, saved, lost>>
    BY <1>3 DEF Open, Stopped, Breaks, ThreadUnchanged, StepUnchanged
  <2> QED BY <1>0, <2>1, FileKept
<1>4. CASE SavePart \/ update_dcsbios_config \/ list_devices
  BY <1>4, CommandFile
<1>5. CASE Crash
  <2>1. /\ settings' = Default /\ request' = NoRequest /\ UNCHANGED <<file, saved, lost>>
        /\ DOMAIN todo' = Process /\ todo'[Main] = <<"load">>
    BY <1>0, <1>5 DEF Crash, Setup
  <2>2. /\ Default \in [Part -> List]
        /\ NoRequest.part \in Part /\ NoRequest.list \in List
    BY DEF Default, NoRequest, Part, List
  <2>3. FileShapes'
    BY <2>1, <2>2, SavesAreWhole DEF FileInv, FileShapes
  <2>4. At(Main, "load")'
    BY <2>1 DEF At
  <2> QED BY <2>1, <2>3, <2>4 DEF FileInv, MemoryIsSaved, NothingForgotten
<1>6. CASE UNCHANGED vars
  BY <1>0, <1>6, FileKept DEF vars, processVars, historyVars
<1> QED BY <1>1, <1>2, <1>3, <1>4, <1>5, <1>6 DEF Next, Progress

(* No save that fails, no crash and no refresh beside a command loses what *)
(* was saved last, unless one of them tore the file.                       *)
THEOREM Remembered == Spec => []NothingForgotten
<1>1. Init => FileInv
  <2> SUFFICES ASSUME Init PROVE FileInv
    OBVIOUS
  <2>1. /\ DOMAIN todo = Process /\ todo[Main] = <<"load">>
        /\ settings = Default /\ request = NoRequest
        /\ \/ file = NoFile /\ saved = Default
           \/ \E e \in Earlier : file = Cleaned(e) /\ saved = file
    BY DEF Init, Setup, Process
  <2>2. \/ file = NoFile /\ saved = Default
        \/ file \in [Part -> List] /\ saved = file
    BY <2>1 DEF Cleaned, List
  <2>3. /\ Default \in [Part -> List]
        /\ NoRequest.part \in Part /\ NoRequest.list \in List
    BY DEF Default, NoRequest, Part, List
  <2>4. FileShapes
    BY <2>1, <2>2, <2>3, SavesAreWhole DEF FileShapes
  <2>5. NothingForgotten
    BY <2>1, <2>2, FileAssumption DEF NothingForgotten
  <2>6. At(Main, "load")
    BY <2>1 DEF At
  <2> QED BY <2>4, <2>5, <2>6 DEF FileInv, MemoryIsSaved
<1>2. FileInv /\ LoadedAsSaved /\ [Next]_vars => FileInv'
  BY FileNext
<1>3. FileInv => NothingForgotten
  BY DEF FileInv
<1> QED BY <1>1, <1>2, <1>3, LoadsAsSaved, PTL DEF Spec

-----------------------------------------------------------------------------
(* Who has the listeners.  Between two takings of the listeners one        *)
(* process works, if it was left alone: the others have not yet taken      *)
(* them.  After a "stop" it works with no listener about, so that a probe  *)
(* finds its port free; after a "start" it brings about a thread for each  *)
(* endpoint, which is what it stores.                                      *)

\* What can come after a step of a program.
Sequel(step) ==
    CASE step = "truncate"    -> {"write"}
      [] step = "write"       -> {"stop", "set"}
      [] step \in {"stop", "start"} -> {"join"}
      [] step = "join"        -> {"set", "scan", "endpoints"}
      [] step = "endpoints"   -> {"assignments"}
      [] step = "assignments" -> {"spawn"}
      [] step = "spawn"       -> {"store"}
      [] step = "store"       -> {"list"}
      [] step = "scan"        -> {"probe"}
      [] step \in {"set", "probe", "list"} -> {"start"}
      [] OTHER                -> {}

Chained(s) ==
    /\ s \in Seq(Steps)
    /\ \A k \in 1 .. Len(s) - 1 : s[k + 1] \in Sequel(s[k])
    /\ \A k \in 1 .. Len(s) - 2 : /\ s[k] = "stop"  => s[k + 2] # "endpoints"
                                  /\ s[k] = "start" => s[k + 2] = "endpoints"

\* Nothing ends but with the store of the new handles.
Whole(s) == Chained(s) /\ (s # <<>> => s[Len(s)] \in {"load", "store"})

LEMMA TailOfChain ==
    ASSUME NEW s, Whole(s), s # <<>>
    PROVE  /\ Whole(Tail(s))
           /\ s[1] \notin {"load", "store"} => Tail(s) # <<>>
           /\ Tail(s) # <<>> => Tail(s)[1] \in Sequel(s[1]) /\ Tail(s)[1] = s[2]
           /\ s[1] = "stop"  => Tail(s)[2] # "endpoints"
           /\ s[1] = "start" => Tail(s)[2] = "endpoints"
<1> DEFINE t == Tail(s)
<1>1. /\ t \in Seq(Steps) /\ Len(t) = Len(s) - 1 /\ Len(s) \in Nat /\ Len(s) > 0
      /\ \A k \in 1 .. Len(t) : t[k] = s[k + 1]
  BY DEF Whole, Chained
<1> HIDE DEF t
<1>2. \A k \in 1 .. Len(t) - 1 : t[k + 1] \in Sequel(t[k])
  <2> TAKE k \in 1 .. Len(t) - 1
  <2>1. t[k] = s[k + 1] /\ t[k + 1] = s[(k + 1) + 1] /\ k + 1 \in 1 .. Len(s) - 1
    BY <1>1
  <2> QED BY <2>1 DEF Whole, Chained
<1>3. \A k \in 1 .. Len(t) - 2 : /\ t[k] = "stop"  => t[k + 2] # "endpoints"
                                 /\ t[k] = "start" => t[k + 2] = "endpoints"
  <2> TAKE k \in 1 .. Len(t) - 2
  <2>1. t[k] = s[k + 1] /\ t[k + 2] = s[(k + 1) + 2] /\ k + 1 \in 1 .. Len(s) - 2
    BY <1>1
  <2> QED BY <2>1 DEF Whole, Chained
<1>4. t # <<>> => t[Len(t)] \in {"load", "store"}
  <2> SUFFICES ASSUME t # <<>> PROVE t[Len(t)] \in {"load", "store"}
    OBVIOUS
  <2>1. Len(t) \in 1 .. Len(t) /\ t[Len(t)] = s[Len(s)]
    BY <1>1
  <2> QED BY <2>1 DEF Whole
<1>5. s[1] \notin {"load", "store"} => t # <<>>
  BY <1>1 DEF Whole
<1>6. t # <<>> => t[1] = s[1 + 1] /\ 1 \in 1 .. Len(s) - 1
  BY <1>1
<1>7. t # <<>> => t[1] \in Sequel(s[1])
  BY <1>6 DEF Whole, Chained
<1>8. ASSUME s[1] \in {"stop", "start"}
      PROVE  t[2] = s[1 + 2] /\ 1 \in 1 .. Len(s) - 2
  <2>1. t # <<>> /\ t[1] = "join"
    BY <1>5, <1>7, <1>8 DEF Sequel
  <2>2. Len(t) # 1
    BY <1>4, <2>1
  <2>3. 2 \in 1 .. Len(t)
    BY <1>1, <2>1, <2>2
  <2> QED BY <1>1, <2>3
<1>9. /\ s[1] = "stop"  => t[2] # "endpoints"
      /\ s[1] = "start" => t[2] = "endpoints"
  BY <1>8 DEF Whole, Chained
<1>10. Whole(t)
  BY <1>1, <1>2, <1>3, <1>4 DEF Whole, Chained
<1>11. t # <<>> => t[1] = s[2]
  BY <1>6
<1> QED BY <1>5, <1>7, <1>9, <1>10, <1>11 DEF t

LEMMA ConcatOfChains ==
    ASSUME NEW s, Chained(s), s # <<>>, s[Len(s)] \notin {"stop", "start"},
           NEW t, Chained(t), t # <<>>, t[1] \in Sequel(s[Len(s)]),
           Len(s) > 1 => /\ s[Len(s) - 1] = "stop"  => t[1] # "endpoints"
                         /\ s[Len(s) - 1] = "start" => t[1] = "endpoints"
    PROVE  /\ Chained(s \o t) /\ s \o t # <<>> /\ (s \o t)[1] = s[1]
           /\ (s \o t)[Len(s \o t)] = t[Len(t)]
           /\ Len(s \o t) > 1
           /\ (s \o t)[Len(s \o t) - 1] = IF Len(t) > 1 THEN t[Len(t) - 1] ELSE s[Len(s)]
<1> DEFINE u == s \o t
           m == Len(s)
           n == Len(t)
<1>1. /\ u \in Seq(Steps) /\ Len(u) = m + n
      /\ m \in Nat /\ n \in Nat /\ m > 0 /\ n > 0
      /\ \A k \in 1 .. m : u[k] = s[k]
      /\ \A k \in m + 1 .. m + n : k - m \in 1 .. n /\ u[k] = t[k - m]
  <2>1. s \in Seq(Steps) /\ t \in Seq(Steps)
    BY DEF Chained
  <2> QED BY <2>1, ConcatSteps
<1>0. s[m] \notin {"stop", "start"} /\ t[1] \in Sequel(s[m])
  OBVIOUS
<1>00. m > 1 => /\ s[m - 1] = "stop"  => t[1] # "endpoints"
                /\ s[m - 1] = "start" => t[1] = "endpoints"
  OBVIOUS
<1> HIDE DEF u, m, n
<1>2. \A k \in 1 .. Len(u) - 1 : u[k + 1] \in Sequel(u[k])
  <2> TAKE k \in 1 .. Len(u) - 1
  <2>1. CASE k < m
    <3>1. u[k] = s[k] /\ u[k + 1] = s[k + 1] /\ k \in 1 .. m - 1
      BY <1>1, <2>1
    <3> QED BY <3>1 DEF Chained, m
  <2>2. CASE k = m
    <3>1. u[k] = s[m] /\ u[k + 1] = t[1]
      <4>1. k + 1 \in m + 1 .. m + n /\ k + 1 - m = 1 /\ k \in 1 .. m
        BY <1>1, <2>2
      <4> QED BY <1>1, <2>2, <4>1
    <3> QED BY <1>0, <3>1
  <2>3. CASE k > m
    <3>1. u[k] = t[k - m] /\ u[k + 1] = t[(k - m) + 1] /\ k - m \in 1 .. n - 1
      <4>1. k \in m + 1 .. m + n /\ k + 1 \in m + 1 .. m + n /\ k + 1 - m = (k - m) + 1
            /\ k - m \in 1 .. n - 1
        BY <1>1, <2>3
      <4> QED BY <1>1, <4>1
    <3> QED BY <3>1 DEF Chained, n
  <2> QED BY <1>1, <2>1, <2>2, <2>3
<1>3. \A k \in 1 .. Len(u) - 2 : /\ u[k] = "stop"  => u[k + 2] # "endpoints"
                                 /\ u[k] = "start" => u[k + 2] = "endpoints"
  <2> TAKE k \in 1 .. Len(u) - 2
  <2>1. CASE k < m - 1
    <3>1. u[k] = s[k] /\ u[k + 2] = s[k + 2] /\ k \in 1 .. m - 2
      BY <1>1, <2>1
    <3> QED BY <3>1 DEF Chained, m
  <2>2. CASE k = m - 1
    <3>1. u[k] = s[m - 1] /\ u[k + 2] = t[1] /\ m > 1
      <4>1. k + 2 \in m + 1 .. m + n /\ k + 2 - m = 1 /\ k \in 1 .. m /\ m > 1
        BY <1>1, <2>2
      <4> QED BY <1>1, <2>2, <4>1
    <3> QED BY <1>00, <3>1
  <2>3. CASE k = m
    <3>1. u[k] = s[m]
      BY <1>1, <2>3
    <3> QED BY <1>0, <3>1
  <2>4. CASE k > m
    <3>1. u[k] = t[k - m] /\ u[k + 2] = t[(k - m) + 2] /\ k - m \in 1 .. n - 2
      <4>1. k \in m + 1 .. m + n /\ k + 2 \in m + 1 .. m + n /\ k + 2 - m = (k - m) + 2
            /\ k - m \in 1 .. n - 2
        BY <1>1, <2>4
      <4> QED BY <1>1, <4>1
    <3> QED BY <3>1 DEF Chained, n
  <2> QED BY <1>1, <2>1, <2>2, <2>3, <2>4
<1>4. Chained(u)
  BY <1>1, <1>2, <1>3 DEF Chained
<1>5. u # <<>> /\ Len(u) > 1 /\ u[1] = s[1] /\ u[Len(u)] = t[n]
  <2>1. m + n \in m + 1 .. m + n /\ m + n - m = n /\ 1 \in 1 .. m
    BY <1>1
  <2> QED BY <1>1, <2>1
<1>6. u[Len(u) - 1] = IF n > 1 THEN t[n - 1] ELSE s[m]
  <2>1. CASE n > 1
    <3>1. m + n - 1 \in m + 1 .. m + n /\ m + n - 1 - m = n - 1
      BY <1>1, <2>1
    <3> QED BY <1>1, <2>1, <3>1
  <2>2. CASE n = 1
    BY <1>1, <2>2
  <2> QED BY <1>1, <2>1, <2>2
<1> QED BY <1>4, <1>5, <1>6 DEF u, m, n

LEMMA ProgramsAreWhole ==
    /\ Whole(<<>>) /\ Whole(<<"load">>) /\ Whole(Start) /\ Whole(Refresh)
    /\ Start[1] = "start" /\ Refresh[1] = "stop" /\ Start # <<>> /\ Refresh # <<>>
    /\ \A part \in Part : /\ Whole(Save(part)) /\ Save(part) # <<>>
                          /\ Save(part)[1] = "truncate"
<1>1. Whole(<<>>) /\ Whole(<<"load">>)
  BY DEF Whole, Chained, Steps
<1>2. /\ Chained(Start) /\ Start # <<>> /\ Start[1] = "start" /\ Len(Start) > 1
      /\ Start[Len(Start)] = "store" /\ Start[Len(Start) - 1] = "spawn"
  <2>1. /\ Start \in Seq(Steps) /\ Len(Start) = 6 /\ Start # <<>>
        /\ Start[1] = "start" /\ Start[2] = "join" /\ Start[3] = "endpoints"
        /\ Start[4] = "assignments" /\ Start[5] = "spawn" /\ Start[6] = "store"
    BY DEF Start, Steps
  <2>2. \A k \in 1 .. 5 : Start[k + 1] \in Sequel(Start[k])
    <3>1. \A k \in 1 .. 5 : k = 1 \/ k = 2 \/ k = 3 \/ k = 4 \/ k = 5
      OBVIOUS
    <3> QED BY <2>1, <3>1 DEF Sequel
  <2>3. \A k \in 1 .. 4 : /\ Start[k] = "stop"  => Start[k + 2] # "endpoints"
                          /\ Start[k] = "start" => Start[k + 2] = "endpoints"
    <3>1. \A k \in 1 .. 4 : k = 1 \/ k = 2 \/ k = 3 \/ k = 4
      OBVIOUS
    <3> QED BY <2>1, <3>1
  <2> QED BY <2>1, <2>2, <2>3 DEF Chained
<1>3. /\ Chained(Stop) /\ Stop # <<>> /\ Stop[1] = "stop" /\ Len(Stop) > 1
      /\ Stop[Len(Stop)] = "join" /\ Stop[Len(Stop) - 1] = "stop"
  BY DEF Stop, Chained, Steps, Sequel
<1>4. \A a, b \in Steps : b \in Sequel(a) =>
         /\ Chained(<<a, b>>) /\ <<a, b>> # <<>> /\ <<a, b>>[1] = a
         /\ Len(<<a, b>>) > 1 /\ <<a, b>>[Len(<<a, b>>)] = b
         /\ <<a, b>>[Len(<<a, b>>) - 1] = a
  BY DEF Chained
<1>5. \A a \in Steps : /\ Chained(<<a>>) /\ <<a>> # <<>> /\ Len(<<a>>) = 1 /\ <<a>>[1] = a
  BY DEF Chained
<1>6. Whole(Refresh) /\ Refresh # <<>> /\ Refresh[1] = "stop"
  <2> DEFINE a == <<"scan", "probe">>
             b == <<"list">>
             s1 == Stop \o a
             s2 == s1 \o Start
             s3 == s2 \o b
             s4 == s3 \o Start
  <2>1. /\ Chained(a) /\ a # <<>> /\ a[1] = "scan" /\ Len(a) > 1
        /\ a[Len(a)] = "probe" /\ a[Len(a) - 1] = "scan"
    BY <1>4 DEF Sequel, Steps
  <2>2. Chained(b) /\ b # <<>> /\ Len(b) = 1 /\ b[1] = "list"
    BY <1>5 DEF Steps
  <2> HIDE DEF a, b
  <2>3. /\ Chained(s1) /\ s1 # <<>> /\ s1[1] = "stop" /\ s1[Len(s1)] = "probe"
        /\ Len(s1) > 1 /\ s1[Len(s1) - 1] = "scan"
    <3>1. "scan" \in Sequel("join")
      BY DEF Sequel
    <3> QED BY <1>3, <2>1, <3>1, ConcatOfChains
  <2> HIDE DEF s1
  <2>4. /\ Chained(s2) /\ s2 # <<>> /\ s2[1] = "stop" /\ s2[Len(s2)] = "store"
        /\ Len(s2) > 1 /\ s2[Len(s2) - 1] = "spawn"
    <3>1. "start" \in Sequel("probe")
      BY DEF Sequel
    <3> QED BY <1>2, <2>3, <3>1, ConcatOfChains
  <2> HIDE DEF s2
  <2>5. /\ Chained(s3) /\ s3 # <<>> /\ s3[1] = "stop" /\ s3[Len(s3)] = "list"
        /\ Len(s3) > 1 /\ s3[Len(s3) - 1] = "store"
    <3>1. "list" \in Sequel("store")
      BY DEF Sequel
    <3> QED BY <2>2, <2>4, <3>1, ConcatOfChains
  <2> HIDE DEF s3
  <2>6. Chained(s4) /\ s4 # <<>> /\ s4[1] = "stop" /\ s4[Len(s4)] = "store"
    <3>1. "start" \in Sequel("list")
      BY DEF Sequel
    <3> QED BY <1>2, <2>5, <3>1, ConcatOfChains
  <2>7. Refresh = s4
    BY DEF Refresh, s4, s3, s2, s1, a, b
  <2> HIDE DEF s4
  <2> QED BY <2>6, <2>7 DEF Whole
<1>7. ASSUME NEW part \in Part
      PROVE  Whole(Save(part)) /\ Save(part) # <<>> /\ Save(part)[1] = "truncate"
  <2> DEFINE a == <<"truncate", "write">>
             b == <<"set">>
             s1 == a \o (IF part = "endpoints" THEN Stop ELSE <<>>)
             s2 == s1 \o b
             s3 == s2 \o Start
  <2>1. /\ Chained(a) /\ a # <<>> /\ a[1] = "truncate" /\ Len(a) > 1
        /\ a[Len(a)] = "write" /\ a[Len(a) - 1] = "truncate" /\ a \o <<>> = a
    <3>1. a \in Seq(Steps)
      BY DEF Steps
    <3> QED BY <1>4, <3>1 DEF Sequel, Steps
  <2>2. Chained(b) /\ b # <<>> /\ Len(b) = 1 /\ b[1] = "set"
    BY <1>5 DEF Steps
  <2> HIDE DEF a, b
  <2>3. /\ Chained(s1) /\ s1 # <<>> /\ s1[1] = "truncate" /\ Len(s1) > 1
        /\ s1[Len(s1)] \in {"write", "join"} /\ s1[Len(s1) - 1] \in {"stop", "truncate"}
    <3>1. "stop" \in Sequel("write")
      BY DEF Sequel
    <3>2. CASE part = "endpoints"
      BY <1>3, <2>1, <3>1, <3>2, ConcatOfChains
    <3>3. CASE part # "endpoints"
      <4>1. s1 = a
        BY <2>1, <3>3
      <4> QED BY <2>1, <4>1
    <3> QED BY <3>2, <3>3
  <2> HIDE DEF s1
  <2>4. /\ Chained(s2) /\ s2 # <<>> /\ s2[1] = "truncate" /\ s2[Len(s2)] = "set"
        /\ Len(s2) > 1 /\ s2[Len(s2) - 1] \in {"write", "join"}
    <3>1. "set" \in Sequel("write") /\ "set" \in Sequel("join")
      BY DEF Sequel
    <3> QED BY <2>2, <2>3, <3>1, ConcatOfChains
  <2> HIDE DEF s2
  <2>5. Chained(s3) /\ s3 # <<>> /\ s3[1] = "truncate" /\ s3[Len(s3)] = "store"
    <3>1. "start" \in Sequel("set")
      BY DEF Sequel
    <3> QED BY <1>2, <2>4, <3>1, ConcatOfChains
  <2>6. Save(part) = s3
    BY DEF Save, s3, s2, s1, a, b
  <2> HIDE DEF s3
  <2> QED BY <2>5, <2>6 DEF Whole
<1> QED BY <1>1, <1>2, <1>6, <1>7 DEF Whole

\* After the taking of the listeners: for nothing, or for new ones.
ForNothing(s) ==
    s # <<>> /\ (s[1] \in {"scan", "probe"} \/ (s[1] = "join" /\ s[2] # "endpoints"))
ForNew(s) ==
    /\ s # <<>>
    /\ \/ s[1] \in {"endpoints", "assignments", "spawn", "store"}
       \/ s[1] = "join" /\ s[2] = "endpoints"
Holds(p) == ForNothing(todo[p]) \/ ForNew(todo[p])

LEMMA TailOfHolder ==
    ASSUME NEW s, Whole(s), s # <<>>
    PROVE  /\ s[1] \notin {"stop", "start"} =>
                 /\ ForNothing(Tail(s)) => ForNothing(s)
                 /\ ForNew(Tail(s)) => ForNew(s)
           /\ s[1] = "store" => ~ForNothing(Tail(s)) /\ ~ForNew(Tail(s))
           /\ ForNew(s) /\ s[1] # "store" => ForNew(Tail(s))
           /\ s[1] # "spawn" /\ Tail(s) # <<>> => Tail(s)[1] # "store"
           /\ s[1] = "stop" => ForNothing(Tail(s)) /\ ~ForNew(Tail(s))
           /\ s[1] = "start" => ForNew(Tail(s)) /\ ~ForNothing(Tail(s))
<1> DEFINE t == Tail(s)
<1>1. /\ s[1] \notin {"load", "store"} => t # <<>>
      /\ t # <<>> => t[1] \in Sequel(s[1]) /\ t[1] = s[2]
      /\ s[1] = "stop"  => t[2] # "endpoints"
      /\ s[1] = "start" => t[2] = "endpoints"
  BY TailOfChain
<1>2. s[1] \in Steps
  <2>1. s \in Seq(Steps)
    BY DEF Whole, Chained
  <2> QED BY <2>1
<1> HIDE DEF t
<1>3. CASE s[1] \in {"stop", "start"}
  BY <1>1, <1>3 DEF ForNothing, ForNew, Sequel, t
<1>4. CASE s[1] \notin {"stop", "start"}
  <2> SUFFICES /\ ForNothing(t) => ForNothing(s)
               /\ ForNew(t) => ForNew(s)
               /\ s[1] = "store" => ~ForNothing(t) /\ ~ForNew(t)
               /\ ForNew(s) /\ s[1] # "store" => ForNew(t)
               /\ s[1] # "spawn" /\ t # <<>> => t[1] # "store"
    BY <1>4 DEF t
  <2>1. CASE t = <<>>
    BY <1>1, <2>1 DEF ForNothing, ForNew
  <2>2. CASE t # <<>>
    BY <1>1, <1>2, <1>4, <2>2 DEF ForNothing, ForNew, Sequel, Steps
  <2> QED BY <2>1, <2>2
<1> QED BY <1>3, <1>4

LEMMA NobodyHolds ==
    ASSUME NEW s, s = <<>> \/ s[1] \in {"load", "truncate", "stop", "start"}
    PROVE  ~ForNothing(s) /\ ~ForNew(s)
BY DEF ForNothing, ForNew

HoldersMatch ==
    \A p \in Process : /\ ForNothing(todo[p]) => lastTaken \in {"to stop", "together"}
                       /\ ForNew(todo[p]) => lastTaken \in {"alone", "together"}

OneHolder ==
    lastTaken # "together" => \A p, q \in Process : Holds(p) /\ Holds(q) => p = q

StoppedIsEmpty ==
    /\ lastTaken = "to stop" => endpoint_listeners = <<>>
    /\ lastTaken = "alone" =>
          \A p \in Process : ForNew(todo[p]) => endpoint_listeners = <<>>

ProbesInPlace ==
    /\ DOMAIN probing = Process
    /\ \A p \in Process :
        /\ DOMAIN probing[p] = {"ports", "open", "busy", "scanned"}
        /\ probing[p].open =>
            todo[p] # <<>> /\ todo[p][1] = "probe" /\ probing[p].ports # <<>>

Programs == DOMAIN todo = Process /\ \A p \in Process : Whole(todo[p])

HolderInv ==
    Programs /\ HoldersMatch /\ OneHolder /\ StoppedIsEmpty /\ ProbesInPlace

NobodyStarted ==
    /\ todo = Setup /\ endpoint_listeners = <<>>
    /\ probing = Each(NoProbe) /\ lastTaken = "never"

LEMMA StartHolds == NobodyStarted => HolderInv
<1> SUFFICES ASSUME NobodyStarted PROVE HolderInv
  OBVIOUS
<1> USE DEF NobodyStarted
<1>1. \A p \in Process : todo[p] = <<>> \/ todo[p] = <<"load">>
  BY DEF Setup
<1>2. Programs
  BY <1>1, ProgramsAreWhole DEF Setup, Programs
<1>3. \A p \in Process : ~ForNothing(todo[p]) /\ ~ForNew(todo[p])
  BY <1>1, NobodyHolds
<1>4. ProbesInPlace
  BY DEF ProbesInPlace, Each, NoProbe
<1> QED BY <1>2, <1>3, <1>4 DEF HolderInv, HoldersMatch, OneHolder, StoppedIsEmpty, Holds

(* A step that takes nothing: nobody becomes a holder.                     *)
LEMMA HoldersKept ==
    ASSUME HolderInv, Programs', ProbesInPlace', lastTaken' = lastTaken,
           \A p \in Process : /\ ForNothing(todo'[p]) => ForNothing(todo[p])
                              /\ ForNew(todo'[p]) => ForNew(todo[p]),
           \/ endpoint_listeners' = endpoint_listeners
           \/ \E p \in Process : /\ ForNew(todo[p])
                                 /\ ~ForNothing(todo'[p]) /\ ~ForNew(todo'[p])
    PROVE  HolderInv'
<1>1. HoldersMatch' /\ OneHolder'
  BY DEF HolderInv, HoldersMatch, OneHolder, Holds
<1>2. StoppedIsEmpty'
  <2>1. CASE endpoint_listeners' = endpoint_listeners
    BY <2>1 DEF HolderInv, StoppedIsEmpty
  <2>2. ASSUME NEW p \in Process, ForNew(todo[p]),
               ~ForNothing(todo'[p]), ~ForNew(todo'[p])
        PROVE  StoppedIsEmpty'
    <3>1. lastTaken \in {"alone", "together"}
      BY <2>2 DEF HolderInv, HoldersMatch
    <3>2. lastTaken = "alone" => \A q \in Process : ~ForNew(todo'[q])
      BY <2>2 DEF HolderInv, OneHolder, Holds
    <3> QED BY <3>1, <3>2 DEF StoppedIsEmpty
  <2> QED BY <2>1, <2>2
<1> QED BY <1>1, <1>2 DEF HolderInv

LEMMA TakeHolds ==
    ASSUME HolderInv, NEW p \in Process, Take(p)
    PROVE  HolderInv'
<1>1. /\ todo[p] # <<>> /\ todo[p][1] \in {"stop", "start"}
      /\ ~OthersIdle(p) => lastTaken' = "together"
      /\ OthersIdle(p) /\ todo[p][1] = "stop"  => lastTaken' = "to stop"
      /\ OthersIdle(p) /\ todo[p][1] = "start" => lastTaken' = "alone"
  <2>1. PICK step \in {"stop", "start"} :
          /\ At(p, step)
          /\ lastTaken' = IF ~OthersIdle(p) THEN "together"
                          ELSE IF step = "stop" THEN "to stop" ELSE "alone"
    BY Zenon DEF Take
  <2>2. todo[p] # <<>> /\ todo[p][1] = step
    <3>1. At(p, step)
      BY <2>1
    <3> QED BY ONLY <3>1 DEF At
  <2>3. /\ ~OthersIdle(p) => lastTaken' = "together"
        /\ OthersIdle(p) /\ step = "stop" => lastTaken' = "to stop"
        /\ OthersIdle(p) /\ step # "stop" => lastTaken' = "alone"
    BY <2>1, Zenon
  <2>4. step = "start" => step # "stop"
    OBVIOUS
  <2> QED BY <2>1, <2>2, <2>3, <2>4
<1>2. endpoint_listeners' = <<>> /\ probing' = probing
  BY DEF Take
<1>3. /\ DOMAIN todo' = Process /\ todo'[p] = Tail(todo[p])
      /\ \A q \in Process \ {p} : todo'[q] = todo[q]
  BY DEF Take, Proceed, HolderInv, Programs
<1>4. Whole(todo[p])
  BY DEF HolderInv, Programs
<1>5. Whole(Tail(todo[p]))
  BY <1>1, <1>4, TailOfChain
<1>6. Programs'
  BY <1>3, <1>5 DEF HolderInv, Programs
<1>7. ProbesInPlace'
  <2> SUFFICES ASSUME NEW q \in Process, probing[q].open
               PROVE  todo'[q] # <<>> /\ todo'[q][1] = "probe" /\ probing[q].ports # <<>>
    BY <1>2 DEF HolderInv, ProbesInPlace
  <2>1. todo[q] # <<>> /\ todo[q][1] = "probe" /\ probing[q].ports # <<>>
    BY DEF HolderInv, ProbesInPlace
  <2> QED BY <1>1, <1>3, <2>1
<1>8. CASE ~OthersIdle(p)
  <2>1. lastTaken' = "together"
    BY <1>1, <1>8
  <2>2. HoldersMatch' /\ OneHolder' /\ StoppedIsEmpty'
    BY <2>1 DEF HoldersMatch, OneHolder, StoppedIsEmpty
  <2> QED BY <1>6, <1>7, <2>2 DEF HolderInv
<1>9. CASE OthersIdle(p)
  <2>1. lastTaken' = IF todo[p][1] = "stop" THEN "to stop" ELSE "alone"
    BY <1>1, <1>9
  <2>2. \A q \in Process \ {p} : ~ForNothing(todo'[q]) /\ ~ForNew(todo'[q])
    BY <1>3, <1>9, NobodyHolds DEF OthersIdle
  <2>3. /\ todo[p][1] = "stop" => ForNothing(todo'[p]) /\ ~ForNew(todo'[p])
        /\ todo[p][1] = "start" => ForNew(todo'[p]) /\ ~ForNothing(todo'[p])
    BY <1>1, <1>3, <1>4, TailOfHolder
  <2>4. HoldersMatch'
    BY <1>1, <2>1, <2>2, <2>3 DEF HoldersMatch
  <2>5. OneHolder'
    BY <2>2 DEF OneHolder, Holds
  <2> QED BY <1>2, <1>6, <1>7, <2>4, <2>5 DEF HolderInv, StoppedIsEmpty
<1> QED BY <1>8, <1>9

(* The other steps of a process, which may fail.                           *)
LEMMA StepHolds ==
    ASSUME HolderInv, NEW p \in Process, todo[p] # <<>>,
           todo[p][1] \notin {"stop", "start"}, Proceed(p) \/ Fail(p),
           lastTaken' = lastTaken,
           todo[p][1] # "store" => endpoint_listeners' = endpoint_listeners,
           \/ probing' = probing /\ todo[p][1] # "probe"
           \/ /\ DOMAIN probing' = Process
              /\ \A q \in Process \ {p} : probing'[q] = probing[q]
              /\ DOMAIN probing'[p] = {"ports", "open", "busy", "scanned"}
              /\ ~probing'[p].open
    PROVE  HolderInv'
<1>1. /\ DOMAIN todo' = Process /\ todo'[p] \in {Tail(todo[p]), <<>>}
      /\ \A q \in Process \ {p} : todo'[q] = todo[q]
  BY DEF Proceed, Fail, HolderInv, Programs
<1>2. Whole(todo[p])
  BY DEF HolderInv, Programs
<1>3. Whole(todo'[p])
  BY <1>1, <1>2, TailOfChain, ProgramsAreWhole
<1>4. Programs'
  BY <1>1, <1>3 DEF HolderInv, Programs
<1>5. /\ ForNothing(todo'[p]) => ForNothing(todo[p])
      /\ ForNew(todo'[p]) => ForNew(todo[p])
      /\ todo[p][1] = "store" => ~ForNothing(todo'[p]) /\ ~ForNew(todo'[p])
  BY <1>1, <1>2, TailOfHolder, NobodyHolds
<1>6. todo[p][1] = "store" => ForNew(todo[p])
  BY DEF ForNew
<1>7. ProbesInPlace'
  <2>1. /\ DOMAIN probing' = Process
        /\ \A q \in Process \ {p} : probing'[q] = probing[q]
        /\ DOMAIN probing'[p] = {"ports", "open", "busy", "scanned"}
        /\ ~probing'[p].open
    BY DEF HolderInv, ProbesInPlace
  <2> QED BY <1>1, <2>1 DEF HolderInv, ProbesInPlace
<1> QED BY <1>1, <1>4, <1>5, <1>6, <1>7, HoldersKept

(* Nothing moves but threads, handles and copies.                          *)
LEMMA StillHolds ==
    ASSUME HolderInv, UNCHANGED <<todo, endpoint_listeners, lastTaken>>,
           ProbesInPlace'
    PROVE  HolderInv'
BY HoldersKept DEF HolderInv, Programs

(* A process that is given its program is no holder.                       *)
LEMMA GivenHolds ==
    ASSUME HolderInv, DOMAIN todo' = Process,
           \A q \in Process :
              \/ todo'[q] = todo[q]
              \/ /\ Whole(todo'[q]) /\ todo'[q] # <<>>
                 /\ todo'[q][1] \in {"truncate", "stop", "start"}
                 /\ todo[q] = <<>> \/ todo[q][1] = "load",
           UNCHANGED <<endpoint_listeners, probing, lastTaken>>
    PROVE  HolderInv'
<1>1. Programs'
  BY DEF HolderInv, Programs
<1>2. \A q \in Process : /\ ForNothing(todo'[q]) => ForNothing(todo[q])
                         /\ ForNew(todo'[q]) => ForNew(todo[q])
  BY NobodyHolds
<1>3. ProbesInPlace'
  BY DEF HolderInv, ProbesInPlace
<1> QED BY <1>1, <1>2, <1>3, HoldersKept

LEMMA MainHolds ==
    ASSUME HolderInv, HandlesInv,
           MainStep \/ SavePart \/ update_dcsbios_config \/ list_devices
    PROVE  HolderInv'
<1>1. Main \in Process /\ Task \subseteq Process /\ DOMAIN todo = Process
  BY DEF Process, HolderInv, Programs
<1>2. CASE LoadFails \/ Truncate \/ Write \/ SetPart
  <2>1. /\ todo[Main] # <<>> /\ todo[Main][1] \in {"load", "truncate", "write", "set"}
        /\ Proceed(Main) \/ Fail(Main)
        /\ UNCHANGED <<endpoint_listeners, probing, lastTaken>>
    BY <1>2 DEF LoadFails, LoadUnchanged, Truncate, Write, SetPart, SaveUnchanged, At,
                threadVars
  <2> QED BY <1>1, <2>1, StepHolds
<1>3. CASE Load
  <2>1. /\ At(Main, "load") /\ todo[Main][1] = "load" /\ DOMAIN todo' = Process
        /\ \A q \in Process : todo'[q] \in {Start, Refresh, todo[q]}
        /\ todo'[Main] = Start
        /\ UNCHANGED <<endpoint_listeners, probing, lastTaken>>
    BY <1>1, <1>3 DEF Load, LoadUnchanged, At, threadVars
  <2>2. \A q \in Process \ {Main} : todo[q] = <<>>
    BY <2>1 DEF HandlesInv, LoadsAlone
  <2> QED BY <2>1, <2>2, ProgramsAreWhole, GivenHolds
<1>4. ASSUME NEW p \in Process, NEW s, Whole(s), s # <<>>,
             s[1] \in {"truncate", "stop", "start"},
             todo[p] = <<>>, todo' = [todo EXCEPT ![p] = s],
             UNCHANGED <<endpoint_listeners, probing, lastTaken>>
      PROVE  HolderInv'
  <2>1. /\ DOMAIN todo' = Process /\ todo'[p] = s
        /\ \A q \in Process \ {p} : todo'[q] = todo[q]
    BY <1>1, <1>4
  <2> QED BY <1>4, <2>1, GivenHolds
<1>5. CASE SavePart
  <2>1. PICK r \in Request : todo' = [todo EXCEPT ![Main] = Save(r.part)]
    BY <1>5 DEF SavePart
  <2>2. r.part \in Part
    OBVIOUS
  <2>3. todo[Main] = <<>> /\ UNCHANGED <<endpoint_listeners, probing, lastTaken>>
    BY <1>5 DEF SavePart, Command, SaveUnchanged, threadVars
  <2> QED BY <1>1, <1>4, <2>1, <2>2, <2>3, ProgramsAreWhole
<1>6. CASE update_dcsbios_config
  <2>1. /\ todo[Main] = <<>> /\ todo' = [todo EXCEPT ![Main] = Start]
        /\ UNCHANGED <<endpoint_listeners, probing, lastTaken>>
    BY <1>6 DEF update_dcsbios_config, Command, SaveUnchanged, threadVars
  <2> QED BY <1>1, <1>4, <2>1, ProgramsAreWhole
<1>7. CASE list_devices
  <2>1. PICK p \in Task : todo[p] = <<>> /\ todo' = [todo EXCEPT ![p] = Refresh]
    BY <1>7 DEF list_devices
  <2>2. UNCHANGED <<endpoint_listeners, probing, lastTaken>>
    BY <1>7 DEF list_devices, threadVars, historyVars
  <2> QED BY <1>1, <1>4, <2>1, <2>2, ProgramsAreWhole
<1> QED BY <1>2, <1>3, <1>5, <1>6, <1>7 DEF MainStep

(* The refreshing of the devices.                                          *)
LEMMA ProbeHolds ==
    ASSUME HolderInv, NEW p \in Process,
           Scan(p) \/ Probe(p) \/ ScanPanics(p) \/ ListDevices(p)
    PROVE  HolderInv'
<1>1. /\ todo[p] # <<>> /\ todo[p][1] \in {"scan", "probe", "list"}
      /\ UNCHANGED <<endpoint_listeners, lastTaken>>
  BY DEF Scan, Probe, ScanPanics, ListDevices, ProbeUnchanged, At, threadVars, historyVars
<1>2. DOMAIN probing = Process /\ DOMAIN probing[p] = {"ports", "open", "busy", "scanned"}
  BY DEF HolderInv, ProbesInPlace
<1>3. CASE Scan(p) \/ ScanPanics(p) \/ ListDevices(p)
  <2>1. PICK f : /\ probing' = [probing EXCEPT ![p] = f] /\ ~f.open
                 /\ DOMAIN f = {"ports", "open", "busy", "scanned"}
    <3>1. CASE Scan(p)
      <4> DEFINE list == sanitize_device_endpoints(settings.endpoints)
                 f == [ports |-> [k \in DOMAIN Enabled(list) |-> Enabled(list)[k].port],
                       open |-> FALSE, busy |-> FALSE, scanned |-> list]
      <4>1. probing' = [probing EXCEPT ![p] = f]
        BY <3>1 DEF Scan
      <4>2. ~f.open /\ DOMAIN f = {"ports", "open", "busy", "scanned"}
        OBVIOUS
      <4> HIDE DEF f
      <4> QED BY <4>1, <4>2
    <3>2. CASE ScanPanics(p) \/ ListDevices(p)
      <4>1. probing' = [probing EXCEPT ![p] = NoProbe]
        BY <3>2 DEF ScanPanics, ListDevices
      <4>2. ~NoProbe.open /\ DOMAIN NoProbe = {"ports", "open", "busy", "scanned"}
        BY DEF NoProbe
      <4> QED BY <4>1, <4>2
    <3> QED BY <1>3, <3>1, <3>2
  <2>2. Proceed(p) \/ Fail(p)
    BY <1>3 DEF Scan, ScanPanics, ListDevices
  <2> QED BY <1>1, <1>2, <2>1, <2>2, StepHolds
<1>4. CASE Probe(p)
  <2>1. CASE probing[p].ports = <<>> /\ Proceed(p) /\ UNCHANGED probing
    <3>1. ~probing[p].open
      BY <2>1 DEF HolderInv, ProbesInPlace
    <3> QED BY <1>1, <1>2, <2>1, <3>1, StepHolds
  <2>2. ASSUME UNCHANGED todo, NEW f, probing' = [probing EXCEPT ![p] = f],
               DOMAIN f = {"ports", "open", "busy", "scanned"},
               f.open => f.ports # <<>>
        PROVE  HolderInv'
    <3>1. todo[p][1] = "probe"
      BY <1>4 DEF Probe, At
    <3>2. ProbesInPlace'
      BY <1>1, <1>2, <2>2, <3>1 DEF HolderInv, ProbesInPlace
    <3> QED BY <1>1, <2>2, <3>2, StillHolds
  <2>3. CASE probing[p].ports # <<>> /\ ~probing[p].open /\ UNCHANGED todo
    <3>1. PICK f : /\ f \in {[probing[p] EXCEPT !.ports = Tail(@), !.busy = TRUE],
                             [probing[p] EXCEPT !.open = TRUE]}
                   /\ probing' = [probing EXCEPT ![p] = f]
      BY <1>4, <2>3 DEF Probe
    <3>2. DOMAIN f = {"ports", "open", "busy", "scanned"} /\ (f.open => f.ports # <<>>)
      BY <1>2, <2>3, <3>1
    <3> QED BY <2>2, <2>3, <3>1, <3>2
  <2>4. CASE probing[p].open /\ UNCHANGED todo
             /\ probing' = [probing EXCEPT ![p].ports = Tail(@), ![p].open = FALSE]
    <3> DEFINE f == [probing[p] EXCEPT !.ports = Tail(@), !.open = FALSE]
    <3>1. probing' = [probing EXCEPT ![p] = f]
      BY <1>2, <2>4
    <3>2. DOMAIN f = {"ports", "open", "busy", "scanned"} /\ ~f.open
      BY <1>2
    <3> QED BY <2>2, <2>4, <3>1, <3>2
  <2> QED BY <1>4, <2>1, <2>3, <2>4 DEF Probe
<1> QED BY <1>3, <1>4

LEMMA HolderNext == HolderInv /\ HandlesInv /\ [Next]_vars => HolderInv'
<1> SUFFICES ASSUME HolderInv, HandlesInv, [Next]_vars PROVE HolderInv'
  OBVIOUS
<1>1. CASE MainStep \/ SavePart \/ update_dcsbios_config \/ list_devices
  BY <1>1, MainHolds
<1>2. ASSUME UNCHANGED <<todo, endpoint_listeners, probing, lastTaken>> PROVE HolderInv'
  <2>1. ProbesInPlace'
    BY <1>2 DEF HolderInv, ProbesInPlace
  <2> QED BY <1>2, <2>1, StillHolds
<1>3. ASSUME NEW p \in Process, ProcessStep(p) PROVE HolderInv'
  <2>1. CASE Take(p)
    BY <2>1, TakeHolds
  <2>2. CASE Signal(p)
    BY <1>2, <2>2 DEF Signal
  <2>3. CASE Join(p)
    <3>1. CASE UNCHANGED todo
      BY <1>2, <2>3, <3>1 DEF Join
    <3>2. CASE Proceed(p)
      <4>1. /\ todo[p] # <<>> /\ todo[p][1] = "join"
            /\ UNCHANGED <<endpoint_listeners, probing, lastTaken>>
        BY <2>3 DEF Join, At
      <4> QED BY <3>2, <4>1, StepHolds
    <3> QED BY <2>3, <3>1, <3>2 DEF Join
  <2>4. CASE ReadSettings(p) \/ Spawn(p) \/ Store(p)
    <3>1. /\ todo[p] # <<>> /\ todo[p][1] \in {"endpoints", "assignments", "spawn", "store"}
          /\ Proceed(p) /\ UNCHANGED <<probing, lastTaken>>
          /\ todo[p][1] # "store" => endpoint_listeners' = endpoint_listeners
      <4>1. CASE ReadSettings(p)
        BY <4>1 DEF ReadSettings, At, threadVars
      <4>2. CASE Spawn(p)
        BY <4>2 DEF Spawn, At
      <4>3. CASE Store(p)
        BY <4>3 DEF Store, At
      <4> QED BY <2>4, <4>1, <4>2, <4>3
    <3> QED BY <3>1, StepHolds
  <2>5. CASE Scan(p) \/ Probe(p) \/ ScanPanics(p) \/ ListDevices(p)
    BY <2>5, ProbeHolds
  <2> QED BY <1>3, <2>1, <2>2, <2>3, <2>4, <2>5 DEF ProcessStep
<1>4. ASSUME NEW t \in Slot, Open(t) \/ Stopped(t) \/ Breaks(t) PROVE HolderInv'
  BY <1>2, <1>4 DEF Open, Stopped, Breaks, ThreadUnchanged
<1>5. CASE Crash
  <2>1. NobodyStarted'
    BY <1>5 DEF Crash, NobodyStarted, Each
  <2> QED BY <2>1, StartHolds, PTL
<1>6. CASE UNCHANGED vars
  BY <1>2, <1>6 DEF vars, threadVars, processVars, historyVars
<1> QED BY <1>1, <1>3, <1>4, <1>5, <1>6 DEF Next, Progress

\* Whoever probes alone finds no port in use.
LEMMA PortsAreFree ==
    ASSUME HolderInv, HandlesInv, NEW p \in Process, At(p, "probe"),
           ~probing[p].open, lastTaken # "together", ~crossed, NEW port
    PROVE  ~InUse(port)
<1>1. todo[p] # <<>> /\ todo[p][1] = "probe"
  BY DEF At
<1>2. ForNothing(todo[p]) /\ Holds(p)
  BY <1>1 DEF ForNothing, Holds
<1>3. lastTaken = "to stop" /\ endpoint_listeners = <<>>
  BY <1>2 DEF HolderInv, HoldersMatch, StoppedIsEmpty
<1>4. \A q \in Process : Holds(q) => q = p
  BY <1>2 DEF HolderInv, OneHolder
<1>5. \A q \in Process : handles[q] = <<>>
  <2> SUFFICES ASSUME NEW q \in Process, handles[q] # <<>> PROVE FALSE
    OBVIOUS
  <2>1. todo[q] # <<>> /\ todo[q][1] \in {"join", "store"}
    BY DEF HandlesInv, HandsBusy
  <2>2. Holds(q)
    BY <2>1 DEF Holds, ForNothing, ForNew
  <2> QED BY <1>1, <1>4, <2>1, <2>2
<1>6. Kept = {}
  <2>1. Elements(<<>>) = {}
    BY DEF Elements
  <2> QED BY <1>3, <1>5, <2>1 DEF Kept, HandlesOf
<1>7. \A t \in Slot : threads[t] = Nobody
  BY <1>6 DEF HandlesInv, Stoppable
<1>8. \A q \in Process : ~probing[q].open
  <2> SUFFICES ASSUME NEW q \in Process, probing[q].open PROVE FALSE
    OBVIOUS
  <2>1. todo[q] # <<>> /\ todo[q][1] = "probe"
    BY DEF HolderInv, ProbesInPlace
  <2>2. Holds(q)
    BY <2>1 DEF Holds, ForNothing
  <2> QED BY <1>4, <2>2
<1> QED BY <1>7, <1>8 DEF InUse

Undisturbed ==
    \A p \in Process :
        probing'[p].busy /\ ~probing[p].busy => lastTaken = "together" \/ crossed

LEMMA ProbeUndisturbed ==
    ASSUME HolderInv, HandlesInv, [Next]_vars
    PROVE  Undisturbed
<1> SUFFICES ASSUME NEW q \in Process, probing'[q].busy, ~probing[q].busy
             PROVE  lastTaken = "together" \/ crossed
  BY DEF Undisturbed
<1>1. DOMAIN probing = Process /\ \A p \in Process :
            DOMAIN probing[p] = {"ports", "open", "busy", "scanned"}
  BY DEF HolderInv, ProbesInPlace
<1>2. probing' # probing
  OBVIOUS
<1>3. PICK p \in Process : Scan(p) \/ Probe(p) \/ ScanPanics(p) \/ ListDevices(p)
  <2>1. ~(MainStep \/ SavePart \/ update_dcsbios_config \/ list_devices)
    BY <1>2 DEF MainStep, Load, LoadFails, LoadUnchanged, Truncate, Write, SetPart,
                SavePart, update_dcsbios_config, Command, SaveUnchanged, list_devices
  <2>2. \A p \in Process : ~(Take(p) \/ Signal(p) \/ Join(p) \/ ReadSettings(p)
                              \/ Spawn(p) \/ Store(p))
    BY <1>2 DEF Take, Signal, Join, ReadSettings, Spawn, Store
  <2>3. \A t \in Slot : ~(Open(t) \/ Stopped(t) \/ Breaks(t))
    BY <1>2 DEF Open, Stopped, Breaks, ThreadUnchanged
  <2>4. ~Crash
    BY DEF Crash, Each, NoProbe
  <2>5. ~UNCHANGED vars
    BY <1>2 DEF vars, processVars
  <2> QED BY <2>1, <2>2, <2>3, <2>4, <2>5 DEF Next, Progress, ProcessStep
<1>4. CASE Scan(p) \/ ScanPanics(p) \/ ListDevices(p)
  BY <1>1, <1>4 DEF Scan, ScanPanics, ListDevices, NoProbe
<1>5. CASE Probe(p)
  <2>1. q = p
    BY <1>1, <1>5 DEF Probe
  <2>2. ~probing[p].open /\ InUse(Head(probing[p].ports)) /\ At(p, "probe")
    BY <1>1, <1>5, <2>1 DEF Probe
  <2> QED BY <2>2, PortsAreFree
<1> QED BY <1>3, <1>4, <1>5

(* A refresh finds its ports free, for when it probes them the listeners   *)
(* it stopped are gone and nobody has started others: unless two of those  *)
(* who take the listeners were at it together.                             *)
THEOREM ProbesAlone == Spec => ProbesUndisturbed
<1>1. Init => HolderInv /\ HandlesInv
  <2>1. Init => NobodyStarted /\ Fresh
    BY DEF Init, NobodyStarted, Fresh
  <2> QED BY <2>1, StartHolds, FreshIsInv
<1>2. HolderInv /\ HandlesInv /\ [Next]_vars => (HolderInv /\ HandlesInv)'
  BY HolderNext, HandlesNext
<1>3. HolderInv /\ HandlesInv /\ [Next]_vars => Undisturbed
  BY ProbeUndisturbed
<1>4. Undisturbed => [\A p \in Process :
          probing'[p].busy /\ ~probing[p].busy => lastTaken = "together" \/ crossed]_vars
  BY DEF Undisturbed
<1> QED BY <1>1, <1>2, <1>3, <1>4, PTL DEF Spec, ProbesUndisturbed

-----------------------------------------------------------------------------
(* Every endpoint is served.  Who took the listeners alone reads the       *)
(* settings of now, unless Main is about to take them in its turn; it has  *)
(* a thread for each endpoint, and nobody else has any.                    *)

CleanEndpoints == sanitize_device_endpoints(settings.endpoints) = settings.endpoints

LEMMA EndpointsAreClean == SettingsClean => CleanEndpoints
<1> SUFFICES ASSUME SettingsClean PROVE CleanEndpoints
  OBVIOUS
<1>1. Clean("endpoints", settings["endpoints"])
  BY DEF SettingsClean, AllClean, Part
<1> QED BY <1>1 DEF Clean, Sanitized, CleanEndpoints

\* Main has changed something and is about to start the listeners anew.
MainStarts == todo[Main] # <<>> /\ todo[Main][1] = "start"

\* What the holder has read.
CopiesAgree ==
    /\ DOMAIN copies = Process
    /\ \A p \in Process : DOMAIN copies[p] = {"endpoints", "assignments"}
    /\ ~MainStarts /\ lastTaken = "alone" => \A p \in Process :
        todo[p] # <<>> =>
            /\ todo[p][1] \in {"assignments", "spawn"}
                  => copies[p].endpoints = settings.endpoints
            /\ todo[p][1] = "spawn" => copies[p].assignments = settings.assignments

ThreadFields ==
    {"endpoint", "assignments", "mappings", "config", "state", "stop", "refused"}

\* Each of these threads got its port, or another of them has it.
Proper(ts, s) ==
    \A k \in 1 .. Len(s) :
        /\ s[k] \in Slot /\ DOMAIN ts[s[k]] = ThreadFields
        /\ \A j \in 1 .. Len(s) : s[j] = s[k] => j = k
        /\ ts[s[k]].refused =>
            /\ ts[s[k]].state = "ended"
            /\ \E j \in 1 .. Len(s) :
                j # k /\ ts[s[j]].endpoint.port = ts[s[k]].endpoint.port

Agrees(ts, s, set, cfg) ==
    /\ Len(s) = Len(Enabled(set.endpoints))
    /\ \A k \in 1 .. Len(s) :
        /\ ts[s[k]].endpoint = Enabled(set.endpoints)[k]
        /\ ts[s[k]].assignments = set.assignments
        /\ ts[s[k]].mappings = set.mappings
        /\ ts[s[k]].config = cfg

Served(s) ==
    Proper(threads, s) /\ (~MainStarts => Agrees(threads, s, settings, config))

AllServed ==
    lastTaken = "alone" /\ ~crossed =>
        /\ \A p \in Process : todo[p] # <<>> /\ todo[p][1] = "store" => Served(handles[p])
        /\ (\A p \in Process : ~Holds(p)) => Served(endpoint_listeners)

ServeInv == CopiesAgree /\ AllServed

\* Neither a step of the holder nor one of the threads.
LEMMA QuietServes ==
    ASSUME HolderInv, ServeInv,
           UNCHANGED <<endpoint_listeners, threads, handles, copies, lastTaken, crossed>>,
           \A q \in Process :
              \/ todo'[q] = todo[q]
              \/ /\ ~ForNew(todo[q])
                 /\ todo'[q] # <<>> => todo'[q][1] \notin {"assignments", "spawn", "store"},
           MainStarts' \/ (~MainStarts /\ UNCHANGED <<settings, config>>)
    PROVE  ServeInv'
<1>1. CopiesAgree'
  BY DEF ServeInv, CopiesAgree
<1>2. ASSUME lastTaken = "alone", ~crossed PROVE
        /\ \A p \in Process : todo'[p] # <<>> /\ todo'[p][1] = "store" => Served(handles[p])
        /\ (\A p \in Process : ~ForNothing(todo'[p]) /\ ~ForNew(todo'[p]))
              => Served(endpoint_listeners)
  <2>1. \A p \in Process : ~ForNothing(todo[p])
    BY <1>2 DEF HolderInv, HoldersMatch
  <2>2. \A p \in Process : ForNew(todo[p]) => ForNew(todo'[p])
    OBVIOUS
  <2>3. (\A p \in Process : ~ForNothing(todo'[p]) /\ ~ForNew(todo'[p]))
            => Served(endpoint_listeners)
    BY <1>2, <2>1, <2>2 DEF ServeInv, AllServed, Holds
  <2>4. \A p \in Process : todo'[p] # <<>> /\ todo'[p][1] = "store" => Served(handles[p])
    BY <1>2 DEF ServeInv, AllServed
  <2> QED BY <2>3, <2>4
<1>3. ASSUME NEW s, Served(s)
      PROVE  /\ Proper(threads', s)
             /\ ~MainStarts' => Agrees(threads', s, settings', config')
  BY <1>3 DEF Served
<1>4. AllServed'
  <2> SUFFICES ASSUME lastTaken = "alone", ~crossed
               PROVE  /\ \A p \in Process : todo'[p] # <<>> /\ todo'[p][1] = "store"
                              => Served(handles[p])'
                      /\ (\A p \in Process : ~ForNothing(todo'[p]) /\ ~ForNew(todo'[p]))
                              => Served(endpoint_listeners)'
    BY DEF AllServed, Holds
  <2> QED BY <1>2, <1>3 DEF Served
<1> QED BY <1>1, <1>4 DEF ServeInv

\* While somebody is at it, nothing is promised yet.
LEMMA BusyServes ==
    ASSUME HolderInv', NEW p \in Process,
           lastTaken' = "alone" => ForNew(todo'[p]) /\ todo'[p][1] # "store"
    PROVE  AllServed'
<1> SUFFICES ASSUME lastTaken' = "alone"
             PROVE  /\ \A q \in Process : ~(todo'[q] # <<>> /\ todo'[q][1] = "store")
                    /\ ~(\A q \in Process : ~ForNothing(todo'[q]) /\ ~ForNew(todo'[q]))
  BY DEF AllServed, Holds
<1>1. \A q \in Process : ForNew(todo'[q]) => q = p
  BY DEF HolderInv, OneHolder, Holds
<1>2. \A q \in Process : todo'[q] # <<>> /\ todo'[q][1] = "store" => ForNew(todo'[q])
  BY DEF ForNew
<1> QED BY <1>1, <1>2

LEMMA GivenServes ==
    ASSUME HolderInv, HandlesInv, ServeInv,
           MainStep \/ SavePart \/ update_dcsbios_config \/ list_devices
    PROVE  ServeInv'
<1>1. Main \in Process /\ Task \subseteq Process /\ DOMAIN todo = Process /\ Whole(todo[Main])
  BY DEF Process, HolderInv, Programs
<1>2. UNCHANGED <<endpoint_listeners, threads, handles, copies, lastTaken, crossed>>
  BY DEF MainStep, Load, LoadFails, LoadUnchanged, Truncate, Write, SetPart, SaveUnchanged,
         SavePart, update_dcsbios_config, Command, list_devices, threadVars, historyVars
<1>3. ASSUME NEW p \in Process,
             \A q \in Process \ {p} : todo'[q] = todo[q],
             todo[p] = <<>> \/ todo[p][1] \in {"load", "truncate", "write", "set"},
             todo'[p] # <<>> => todo'[p][1] \notin {"assignments", "spawn", "store"},
             MainStarts' \/ (~MainStarts /\ UNCHANGED <<settings, config>>)
      PROVE  ServeInv'
  <2>1. ~ForNew(todo[p])
    BY <1>3 DEF ForNew
  <2>2. \A q \in Process :
              \/ todo'[q] = todo[q]
              \/ /\ ~ForNew(todo[q])
                 /\ todo'[q] # <<>> => todo'[q][1] \notin {"assignments", "spawn", "store"}
    BY <1>3, <2>1
  <2> QED BY <1>2, <1>3, <2>2, QuietServes
<1>4. CASE LoadFails \/ Truncate \/ Write
  <2>1. /\ todo[Main] # <<>> /\ todo[Main][1] \in {"load", "truncate", "write"}
        /\ Proceed(Main) \/ Fail(Main)
        /\ UNCHANGED <<settings, config>>
    BY <1>4 DEF LoadFails, LoadUnchanged, Truncate, Write, At
  <2>2. /\ todo'[Main] \in {Tail(todo[Main]), <<>>}
        /\ \A q \in Process \ {Main} : todo'[q] = todo[q]
    BY <1>1, <2>1 DEF Proceed, Fail
  <2>3. Tail(todo[Main]) # <<>> => Tail(todo[Main])[1] \in Sequel(todo[Main][1])
    BY <1>1, <2>1, TailOfChain
  <2>4. todo'[Main] # <<>> => todo'[Main][1] \notin {"assignments", "spawn", "store"}
    BY <2>1, <2>2, <2>3 DEF Sequel
  <2>5. ~MainStarts
    BY <2>1 DEF MainStarts
  <2> QED BY <1>1, <1>3, <2>1, <2>2, <2>4, <2>5
<1>5. CASE SetPart
  <2>1. todo[Main] # <<>> /\ todo[Main][1] = "set" /\ Proceed(Main)
    BY <1>5 DEF SetPart, At
  <2>2. todo'[Main] = Tail(todo[Main]) /\ \A q \in Process \ {Main} : todo'[q] = todo[q]
    BY <1>1, <2>1 DEF Proceed
  <2>3. Tail(todo[Main]) # <<>> /\ Tail(todo[Main])[1] = "start"
    <3>1. /\ Tail(todo[Main]) # <<>>
          /\ Tail(todo[Main])[1] \in Sequel(todo[Main][1])
      BY <1>1, <2>1, TailOfChain
    <3> QED BY <2>1, <3>1 DEF Sequel
  <2>4. MainStarts'
    BY <2>2, <2>3 DEF MainStarts
  <2> QED BY <1>1, <1>3, <2>1, <2>2, <2>3, <2>4
<1>6. CASE Load
  <2>1. /\ At(Main, "load") /\ todo[Main][1] = "load"
        /\ \A q \in Process : todo'[q] \in {Start, Refresh, todo[q]}
        /\ todo'[Main] = Start
    BY <1>1, <1>6 DEF Load, At
  <2>2. \A q \in Process \ {Main} : todo[q] = <<>>
    BY <2>1 DEF HandlesInv, LoadsAlone
  <2>3. \A q \in Process : ~ForNew(todo[q])
    BY <2>1, <2>2 DEF ForNew
  <2>4. MainStarts'
    BY <2>1, ProgramsAreWhole DEF MainStarts
  <2>5. \A q \in Process :
              \/ todo'[q] = todo[q]
              \/ /\ ~ForNew(todo[q])
                 /\ todo'[q] # <<>> => todo'[q][1] \notin {"assignments", "spawn", "store"}
    BY <2>1, <2>3, ProgramsAreWhole
  <2> QED BY <1>2, <2>4, <2>5, QuietServes
<1>7. CASE SavePart
  <2>1. PICK r \in Request : todo' = [todo EXCEPT ![Main] = Save(r.part)]
    BY <1>7 DEF SavePart
  <2>2. todo[Main] = <<>> /\ UNCHANGED <<settings, config>>
    BY <1>7 DEF SavePart, Command
  <2>3. todo'[Main] = Save(r.part) /\ \A q \in Process \ {Main} : todo'[q] = todo[q]
    BY <1>1, <2>1
  <2>4. todo'[Main][1] = "truncate"
    BY <2>3, ProgramsAreWhole
  <2>5. ~MainStarts
    BY <2>2 DEF MainStarts
  <2> QED BY <1>1, <1>3, <2>2, <2>3, <2>4, <2>5
<1>8. CASE update_dcsbios_config
  <2>1. todo[Main] = <<>> /\ todo' = [todo EXCEPT ![Main] = Start]
    BY <1>8 DEF update_dcsbios_config, Command
  <2>2. todo'[Main] = Start /\ \A q \in Process \ {Main} : todo'[q] = todo[q]
    BY <1>1, <2>1
  <2>3. todo'[Main][1] = "start" /\ MainStarts'
    BY <2>2, ProgramsAreWhole DEF MainStarts
  <2> QED BY <1>1, <1>3, <2>1, <2>2, <2>3
<1>9. CASE list_devices
  <2>1. PICK p \in Task : todo[p] = <<>> /\ todo' = [todo EXCEPT ![p] = Refresh]
    BY <1>9 DEF list_devices
  <2>2. UNCHANGED <<settings, config>>
    BY <1>9 DEF list_devices
  <2>3. p \in Process /\ p # Main
    BY <1>1
  <2>4. todo'[p] = Refresh /\ \A q \in Process \ {p} : todo'[q] = todo[q]
    BY <1>1, <2>1
  <2>5. todo'[p][1] = "stop"
    BY <2>4, ProgramsAreWhole
  <2>6. MainStarts' <=> MainStarts
    BY <1>1, <2>3, <2>4 DEF MainStarts
  <2> QED BY <1>3, <2>1, <2>2, <2>3, <2>4, <2>5, <2>6
<1> QED BY <1>4, <1>5, <1>6, <1>7, <1>8, <1>9 DEF MainStep

LEMMA WorkServes ==
    ASSUME HolderInv, HolderInv', ServeInv, NEW p \in Process,
           Take(p) \/ Signal(p) \/ Join(p) \/ ReadSettings(p)
    PROVE  ServeInv'
<1>1. DOMAIN todo = Process /\ Whole(todo[p]) /\ Main \in Process
  BY DEF HolderInv, Programs, Process
<1>2. CASE Take(p)
  <2>1. todo[p] # <<>> /\ todo[p][1] \in {"stop", "start"} /\ todo'[p] = Tail(todo[p])
    <3>1. PICK step \in {"stop", "start"} : At(p, step)
      BY <1>2, Zenon DEF Take
    <3>2. todo[p] # <<>> /\ todo[p][1] = step
      BY ONLY <3>1 DEF At
    <3>3. todo'[p] = Tail(todo[p])
      BY <1>1, <1>2 DEF Take, Proceed
    <3> QED BY <3>2, <3>3
  <2>2. Tail(todo[p]) # <<>> /\ Tail(todo[p])[1] = "join"
    <3>1. Tail(todo[p]) # <<>> /\ Tail(todo[p])[1] \in Sequel(todo[p][1])
      BY <1>1, <2>1, TailOfChain
    <3> QED BY <2>1, <3>1 DEF Sequel
  <2>3. lastTaken' = "alone" => OthersIdle(p)
    <3>1. PICK step \in {"stop", "start"} :
            lastTaken' = IF ~OthersIdle(p) THEN "together"
                         ELSE IF step = "stop" THEN "to stop" ELSE "alone"
      BY <1>2, Zenon DEF Take
    <3>2. ~OthersIdle(p) => lastTaken' = "together"
      BY <3>1, Zenon
    <3> QED BY <3>2
  <2>4. \A q \in Process \ {p} : todo'[q] = todo[q]
    BY <1>1, <1>2 DEF Take, Proceed
  <2>5. copies' = copies /\ settings' = settings
    BY <1>2 DEF Take, StepUnchanged
  <2>6. lastTaken' = "alone" => \A q \in Process : todo'[q] # <<>> => todo'[q][1] = "join"
    BY <2>1, <2>2, <2>3, <2>4 DEF OthersIdle
  <2>7. CopiesAgree'
    BY <2>5, <2>6 DEF ServeInv, CopiesAgree
  <2>8. lastTaken' = "alone" => ForNew(todo'[p]) /\ todo'[p][1] # "store"
    <3>1. ForNothing(todo'[p]) \/ ForNew(todo'[p])
      BY <1>1, <2>1, TailOfHolder
    <3>2. ForNothing(todo'[p]) => lastTaken' # "alone"
      BY DEF HolderInv, HoldersMatch
    <3> QED BY <2>1, <2>2, <3>1, <3>2
  <2> QED BY <2>7, <2>8, BusyServes DEF ServeInv
<1>3. ASSUME todo[p] # <<>>, todo[p][1] \in {"join", "endpoints", "assignments"},
             UNCHANGED todo \/ Proceed(p), lastTaken' = lastTaken,
             UNCHANGED <<settings, config>>, CopiesAgree'
      PROVE  ServeInv'
  <2>1. todo'[p] \in {todo[p], Tail(todo[p])}
    BY <1>1, <1>3 DEF Proceed
  <2>2. ForNothing(todo[p]) \/ ForNew(todo[p])
    BY <1>3 DEF ForNothing, ForNew
  <2>3. ForNothing(todo[p]) => lastTaken # "alone"
    BY DEF HolderInv, HoldersMatch
  <2>4. ForNew(todo[p]) => ForNew(Tail(todo[p]))
    BY <1>1, <1>3, TailOfHolder
  <2>5. Tail(todo[p]) # <<>> => Tail(todo[p])[1] # "store"
    BY <1>1, <1>3, TailOfHolder
  <2>6. lastTaken' = "alone" => ForNew(todo'[p]) /\ todo'[p][1] # "store"
    BY <1>3, <2>1, <2>2, <2>3, <2>4, <2>5 DEF ForNew
  <2> QED BY <1>3, <2>6, BusyServes DEF ServeInv
<1>4. CASE Signal(p)
  <2>1. /\ todo[p] # <<>> /\ todo[p][1] = "join"
        /\ UNCHANGED <<todo, lastTaken, settings, config, copies>>
    BY <1>4 DEF Signal, At, StepUnchanged
  <2>2. CopiesAgree'
    BY <2>1 DEF ServeInv, CopiesAgree, MainStarts
  <2> QED BY <1>3, <2>1, <2>2
<1>5. CASE Join(p)
  <2>1. /\ todo[p] # <<>> /\ todo[p][1] = "join" /\ (UNCHANGED todo \/ Proceed(p))
        /\ UNCHANGED <<lastTaken, settings, config, copies>>
    BY <1>5 DEF Join, At, StepUnchanged
  <2>2. \A q \in Process : todo'[q] = todo[q] \/ (q = p /\ todo'[q] = Tail(todo[p]))
    BY <1>1, <2>1 DEF Proceed
  <2>3. Tail(todo[p]) # <<>> => Tail(todo[p])[1] \notin {"assignments", "spawn"}
    <3>1. Tail(todo[p]) # <<>> => Tail(todo[p])[1] \in Sequel(todo[p][1])
      BY <1>1, <2>1, TailOfChain
    <3> QED BY <2>1, <3>1 DEF Sequel
  <2>4. MainStarts => MainStarts'
    BY <1>1, <2>1, <2>2 DEF MainStarts
  <2>5. CopiesAgree'
    BY <2>1, <2>2, <2>3, <2>4 DEF ServeInv, CopiesAgree
  <2> QED BY <1>3, <2>1, <2>5
<1>6. CASE ReadSettings(p)
  <2>1. PICK part \in {"endpoints", "assignments"} :
          At(p, part) /\ copies' = [copies EXCEPT ![p][part] = settings[part]]
    BY <1>6 DEF ReadSettings
  <2>2. todo[p] # <<>> /\ todo[p][1] = part
    BY <2>1 DEF At
  <2>3. Proceed(p) /\ UNCHANGED <<lastTaken, settings, config>>
    BY <1>6 DEF ReadSettings, StepUnchanged
  <2>4. todo'[p] = Tail(todo[p]) /\ \A q \in Process \ {p} : todo'[q] = todo[q]
    BY <1>1, <2>3 DEF Proceed
  <2>5. /\ part = "endpoints" => todo'[p] # <<>> /\ todo'[p][1] = "assignments"
        /\ part = "assignments" => todo'[p] # <<>> /\ todo'[p][1] = "spawn"
    <3>1. Tail(todo[p]) # <<>> /\ Tail(todo[p])[1] \in Sequel(todo[p][1])
      BY <1>1, <2>2, TailOfChain
    <3> QED BY <2>2, <2>4, <3>1 DEF Sequel
  <2>6. MainStarts => MainStarts'
    BY <1>1, <2>2, <2>4 DEF MainStarts
  <2>7. /\ DOMAIN copies' = Process
        /\ \A q \in Process : DOMAIN copies'[q] = {"endpoints", "assignments"}
        /\ \A q \in Process \ {p} : copies'[q] = copies[q]
        /\ copies'[p][part] = settings[part]
        /\ part = "assignments" => copies'[p].endpoints = copies[p].endpoints
    BY <2>1 DEF ServeInv, CopiesAgree
  <2>8. CopiesAgree'
    <3> SUFFICES ASSUME ~MainStarts', lastTaken' = "alone", NEW q \in Process, todo'[q] # <<>>
                 PROVE  /\ todo'[q][1] \in {"assignments", "spawn"}
                              => copies'[q].endpoints = settings'.endpoints
                        /\ todo'[q][1] = "spawn"
                              => copies'[q].assignments = settings'.assignments
      BY <2>7 DEF CopiesAgree
    <3>1. CASE q # p
      BY <2>3, <2>4, <2>6, <2>7, <3>1 DEF ServeInv, CopiesAgree
    <3>2. CASE q = p /\ part = "endpoints"
      BY <2>3, <2>5, <2>7, <3>2
    <3>3. CASE q = p /\ part = "assignments"
      BY <2>2, <2>3, <2>5, <2>6, <2>7, <3>3 DEF ServeInv, CopiesAgree
    <3> QED BY <3>1, <3>2, <3>3
  <2> QED BY <1>3, <2>2, <2>3, <2>8
<1> QED BY <1>2, <1>4, <1>5, <1>6

(* The refreshing of the devices, which takes nothing.                     *)
LEMMA RefreshServes ==
    ASSUME HolderInv, ServeInv, NEW p \in Process,
           Scan(p) \/ Probe(p) \/ ScanPanics(p) \/ ListDevices(p)
    PROVE  ServeInv'
<1>1. DOMAIN todo = Process /\ Whole(todo[p]) /\ Main \in Process
  BY DEF HolderInv, Programs, Process
<1>2. /\ todo[p] # <<>> /\ todo[p][1] \in {"scan", "probe", "list"}
      /\ UNCHANGED todo \/ Proceed(p) \/ Fail(p)
  BY DEF Scan, Probe, ScanPanics, ListDevices, At
<1>3. UNCHANGED <<endpoint_listeners, threads, handles, copies, lastTaken, crossed,
                  settings, config>>
  BY DEF Scan, Probe, ScanPanics, ListDevices, ProbeUnchanged, StepUnchanged,
         threadVars, historyVars
<1>4. /\ todo'[p] \in {todo[p], Tail(todo[p]), <<>>}
      /\ \A q \in Process \ {p} : todo'[q] = todo[q]
  BY <1>1, <1>2 DEF Proceed, Fail
<1>5. Tail(todo[p]) # <<>> => Tail(todo[p])[1] \notin {"assignments", "spawn", "store"}
  <2>1. Tail(todo[p]) # <<>> => Tail(todo[p])[1] \in Sequel(todo[p][1])
    BY <1>1, <1>2, TailOfChain
  <2> QED BY <1>2, <2>1 DEF Sequel
<1>6. ~ForNew(todo[p])
  BY <1>2 DEF ForNew
<1>7. MainStarts => MainStarts'
  BY <1>1, <1>2, <1>4 DEF MainStarts
<1>8. \A q \in Process :
          \/ todo'[q] = todo[q]
          \/ /\ ~ForNew(todo[q])
             /\ todo'[q] # <<>> => todo'[q][1] \notin {"assignments", "spawn", "store"}
  BY <1>4, <1>5, <1>6
<1> QED BY <1>3, <1>7, <1>8, QuietServes

(* A thread for each endpoint, in a slot of its own.                       *)
LEMMA SpawnServes ==
    ASSUME HolderInv, HolderInv', HandlesInv, CleanEndpoints, ServeInv,
           NEW p \in Process, Spawn(p)
    PROVE  ServeInv'
<1> DEFINE serve == Enabled(sanitize_device_endpoints(copies[p].endpoints))
           n == Len(serve)
           slots == FreeSlots(n)
           thread(t) ==
               [endpoint    |-> serve[CHOOSE k \in DOMAIN slots : slots[k] = t],
                assignments |-> copies[p].assignments,
                mappings    |-> settings.mappings,
                config      |-> config,
                state |-> "starting", stop |-> FALSE, refused |-> FALSE]
<1>1. DOMAIN todo = Process /\ Whole(todo[p]) /\ Main \in Process
      /\ DOMAIN handles = Process /\ DOMAIN copies = Process
  BY DEF HolderInv, Programs, Process, HandlesInv, Shapes, ServeInv, CopiesAgree
<1>2. /\ todo[p] # <<>> /\ todo[p][1] = "spawn" /\ Proceed(p)
      /\ UNCHANGED <<endpoint_listeners, lastTaken, crossed, settings, config>>
  BY DEF Spawn, At, StepUnchanged
<1>3. /\ copies' = [copies EXCEPT ![p] = NoCopies]
      /\ handles' = [handles EXCEPT ![p] = slots]
      /\ n \in 0 .. Cardinality(Free)
      /\ threads' = [t \in Slot |-> IF t \notin Elements(slots) THEN threads[t]
                                    ELSE thread(t)]
  BY DEF Spawn
<1>4. todo'[p] = Tail(todo[p]) /\ \A q \in Process \ {p} : todo'[q] = todo[q]
  BY <1>1, <1>2 DEF Proceed
<1>5. todo'[p] # <<>> /\ todo'[p][1] = "store"
  <2>1. Tail(todo[p]) # <<>> /\ Tail(todo[p])[1] \in Sequel(todo[p][1])
    BY <1>1, <1>2, TailOfChain
  <2> QED BY <1>2, <1>4, <2>1 DEF Sequel
<1>6. MainStarts' <=> MainStarts
  BY <1>1, <1>2, <1>4, <1>5 DEF MainStarts
<1>7. CopiesAgree'
  <2>1. /\ DOMAIN copies' = Process /\ copies'[p] = NoCopies
        /\ \A q \in Process \ {p} : copies'[q] = copies[q]
    BY <1>1, <1>3
  <2>2. DOMAIN NoCopies = {"endpoints", "assignments"}
    BY DEF NoCopies
  <2> QED BY <1>2, <1>4, <1>5, <1>6, <2>1, <2>2 DEF ServeInv, CopiesAgree
<1> HIDE DEF slots
<1>8. /\ Len(slots) = n /\ DOMAIN slots = 1 .. n /\ n \in Nat
      /\ Elements(slots) \subseteq Free
      /\ \A j, k \in 1 .. n : slots[j] = slots[k] => j = k
  <2>1. /\ slots \in Seq(Free) /\ Len(slots) = n /\ Elements(slots) \subseteq Free
        /\ \A j, k \in 1 .. n : slots[j] = slots[k] => j = k
    BY <1>3, SlotsAreFree DEF slots
  <2> QED BY <2>1
<1> HIDE DEF n, thread
<1>9. \A k \in 1 .. n : slots[k] \in Slot /\ threads'[slots[k]] = thread(slots[k])
  <2> TAKE k \in 1 .. n
  <2>1. slots[k] \in Elements(slots) /\ slots[k] \in Slot
    BY <1>8 DEF Elements, Free
  <2> QED BY <1>3, <2>1
<1>10. \A k \in 1 .. n :
          /\ DOMAIN thread(slots[k]) = ThreadFields
          /\ thread(slots[k]).endpoint = serve[k]
          /\ thread(slots[k]).assignments = copies[p].assignments
          /\ thread(slots[k]).mappings = settings.mappings
          /\ thread(slots[k]).config = config
          /\ ~thread(slots[k]).refused
  <2> TAKE k \in 1 .. n
  <2>1. (CHOOSE j \in DOMAIN slots : slots[j] = slots[k]) = k
    BY <1>8
  <2> QED BY <2>1 DEF thread, ThreadFields
<1> HIDE DEF serve
<1>11. Proper(threads', slots)
  BY <1>8, <1>9, <1>10 DEF Proper
<1>12. ASSUME ~MainStarts', lastTaken = "alone"
       PROVE  Agrees(threads', slots, settings', config')
  <2>1. /\ copies[p].endpoints = settings.endpoints
        /\ copies[p].assignments = settings.assignments
    BY <1>2, <1>6, <1>12 DEF ServeInv, CopiesAgree
  <2>2. serve = Enabled(settings.endpoints)
    BY <2>1 DEF serve, CleanEndpoints
  <2>3. Len(slots) = Len(Enabled(settings.endpoints))
    BY <1>8, <2>2 DEF n
  <2> QED BY <1>2, <1>8, <1>9, <1>10, <2>1, <2>2, <2>3 DEF Agrees
<1>13. handles'[p] = slots
  BY <1>1, <1>3
<1>14. AllServed'
  <2> SUFFICES ASSUME lastTaken' = "alone"
               PROVE  /\ \A q \in Process : todo'[q] # <<>> /\ todo'[q][1] = "store"
                              => Served(handles[q])'
                      /\ ~(\A q \in Process : ~ForNothing(todo'[q]) /\ ~ForNew(todo'[q]))
    BY DEF AllServed, Holds
  <2>1. \A q \in Process : todo'[q] # <<>> /\ todo'[q][1] = "store" => ForNew(todo'[q])
    BY DEF ForNew
  <2>2. \A q \in Process : ForNew(todo'[q]) => q = p
    BY <1>5, <2>1 DEF HolderInv, OneHolder, Holds
  <2>3. Served(handles[p])'
    BY <1>2, <1>11, <1>12, <1>13 DEF Served
  <2> QED BY <1>5, <2>1, <2>2, <2>3
<1> QED BY <1>7, <1>14 DEF ServeInv

(* The handles of the holder become the list.                              *)
LEMMA StoreServes ==
    ASSUME HolderInv, HolderInv', HandlesInv, ServeInv, NEW p \in Process, Store(p)
    PROVE  ServeInv'
<1>1. DOMAIN todo = Process /\ Whole(todo[p]) /\ Main \in Process
  BY DEF HolderInv, Programs, Process
<1>2. /\ todo[p] # <<>> /\ todo[p][1] = "store" /\ Proceed(p)
      /\ endpoint_listeners' = handles[p]
      /\ threads' = WithoutGone(threads, HandlesOf(endpoint_listeners', handles'))
      /\ UNCHANGED <<copies, lastTaken, crossed, settings, config>>
  BY DEF Store, At, StepUnchanged
<1>3. todo'[p] = Tail(todo[p]) /\ \A q \in Process \ {p} : todo'[q] = todo[q]
  BY <1>1, <1>2 DEF Proceed
<1>4. todo'[p] # <<>> => todo'[p][1] = "list"
  <2>1. Tail(todo[p]) # <<>> => Tail(todo[p])[1] \in Sequel(todo[p][1])
    BY <1>1, <1>2, TailOfChain
  <2> QED BY <1>2, <1>3, <2>1 DEF Sequel
<1>5. MainStarts' <=> MainStarts
  BY <1>1, <1>2, <1>3, <1>4 DEF MainStarts
<1>6. CopiesAgree'
  BY <1>2, <1>3, <1>4, <1>5 DEF ServeInv, CopiesAgree
<1>7. PICK s : s = handles[p]
  OBVIOUS
<1>8. IsList(s)
  BY <1>7 DEF HandlesInv, Shapes
<1>9. ASSUME lastTaken = "alone", ~crossed PROVE Served(s)
  BY <1>2, <1>7, <1>9 DEF ServeInv, AllServed
<1>10. ASSUME Proper(threads, s)
       PROVE  \A k \in 1 .. Len(s) : threads'[s[k]] = threads[s[k]]
  <2> TAKE k \in 1 .. Len(s)
  <2>1. s[k] \in Slot
    BY <1>10 DEF Proper
  <2>2. s[k] \in Elements(s)
    <3>1. s \in Seq(Elements(s))
      BY <1>8 DEF IsList
    <3> QED BY <3>1
  <2>3. s[k] \in HandlesOf(endpoint_listeners', handles')
    BY <1>2, <1>7, <2>2 DEF HandlesOf
  <2> QED BY <1>2, <2>1, <2>3 DEF WithoutGone
<1>11. ASSUME lastTaken = "alone", ~crossed
       PROVE  /\ Proper(threads', s)
              /\ ~MainStarts => Agrees(threads', s, settings, config)
  <2>1. Proper(threads, s) /\ (~MainStarts => Agrees(threads, s, settings, config))
    BY <1>9, <1>11 DEF Served
  <2>2. \A k \in 1 .. Len(s) : threads'[s[k]] = threads[s[k]]
    BY <1>10, <2>1
  <2>3. Proper(threads', s)
    BY <2>1, <2>2 DEF Proper
  <2>4. ~MainStarts => Agrees(threads', s, settings, config)
    BY <2>1, <2>2 DEF Agrees
  <2> QED BY <2>3, <2>4
<1>12. AllServed'
  <2> SUFFICES ASSUME lastTaken' = "alone", ~crossed'
               PROVE  /\ \A q \in Process : ~(todo'[q] # <<>> /\ todo'[q][1] = "store")
                      /\ Served(endpoint_listeners)'
    BY DEF AllServed
  <2>1. ForNew(todo[p]) /\ \A q \in Process : ForNew(todo[q]) => q = p
    BY <1>2 DEF HolderInv, OneHolder, Holds, ForNew
  <2>2. \A q \in Process : ~(todo'[q] # <<>> /\ todo'[q][1] = "store")
    BY <1>3, <1>4, <2>1 DEF ForNew
  <2>3. endpoint_listeners' = s
    BY <1>2, <1>7
  <2>4. Served(endpoint_listeners)'
    BY <1>2, <1>5, <1>11, <2>3 DEF Served
  <2> QED BY <2>2, <2>4
<1> QED BY <1>6, <1>12 DEF ServeInv

LEMMA AllAreKept ==
    ASSUME HolderInv, HandlesInv, lastTaken = "alone"
    PROVE  /\ \A p \in Process : todo[p] # <<>> /\ todo[p][1] = "store"
                  => Kept = Elements(handles[p])
           /\ (\A p \in Process : ~Holds(p)) => Kept = Elements(endpoint_listeners)
<1>1. \A q \in Process : handles[q] # <<>> => Holds(q)
  BY DEF HandlesInv, HandsBusy, Holds, ForNothing, ForNew
<1>2. Elements(<<>>) = {}
  BY DEF Elements
<1>3. ASSUME NEW p \in Process, todo[p] # <<>>, todo[p][1] = "store"
      PROVE  Kept = Elements(handles[p])
  <2>1. ForNew(todo[p]) /\ Holds(p)
    BY <1>3 DEF ForNew, Holds
  <2>2. endpoint_listeners = <<>> /\ \A q \in Process : Holds(q) => q = p
    BY <2>1 DEF HolderInv, StoppedIsEmpty, OneHolder
  <2>3. \A q \in Process \ {p} : handles[q] = <<>>
    BY <1>1, <2>2
  <2>4. \A x : x \in Kept <=> x \in Elements(handles[p])
    BY <1>2, <2>2, <2>3 DEF Kept, HandlesOf
  <2> QED BY <2>4
<1>4. ASSUME \A p \in Process : ~Holds(p)
      PROVE  Kept = Elements(endpoint_listeners)
  <2>1. \A q \in Process : handles[q] = <<>>
    BY <1>1, <1>4
  <2> QED BY <1>2, <2>1 DEF Kept, HandlesOf
<1> QED BY <1>3, <1>4

(* A thread that does not get its port has lost it to another of them.     *)
LEMMA ThreadServed ==
    ASSUME HolderInv, HandlesInv, lastTaken = "alone", ~crossed,
           NEW t \in Slot, Open(t) \/ Stopped(t) \/ Breaks(t),
           NEW s, IsList(s), Kept = Elements(s), Proper(threads, s)
    PROVE  /\ Proper(threads', s)
           /\ Agrees(threads, s, settings, config)
                 => Agrees(threads', s, settings, config)
<1>1. /\ threads[t] # Nobody /\ t \in Elements(s) /\ DOMAIN threads = Slot
  BY DEF Open, Stopped, Breaks, HandlesInv, Stoppable, Shapes
<1>2. /\ DOMAIN s = 1 .. Len(s) /\ \A k \in 1 .. Len(s) : s[k] \in Elements(s)
  <2>1. s \in Seq(Elements(s))
    BY DEF IsList
  <2> QED BY <2>1
<1>3. PICK i \in 1 .. Len(s) : t = s[i]
  BY <1>1, <1>2 DEF Elements
<1>4. DOMAIN threads[t] = ThreadFields
  BY <1>3 DEF Proper
<1>5. \A ts, x : x \in Slot /\ x \in Elements(s) => WithoutGone(ts, Kept)[x] = ts[x]
  BY DEF WithoutGone
<1> DEFINE port == threads[t].endpoint.port
<1>6. ASSUME NEW r,
             \A k \in 1 .. Len(s) : threads'[s[k]] = IF k = i THEN r ELSE threads[s[k]],
             DOMAIN r = ThreadFields,
             r.endpoint = threads[t].endpoint, r.assignments = threads[t].assignments,
             r.mappings = threads[t].mappings, r.config \in {threads[t].config, config},
             r.refused => /\ r.state = "ended"
                          /\ \/ threads[t].refused
                             \/ threads[t].state = "starting" /\ InUse(port)
      PROVE  /\ Proper(threads', s)
             /\ Agrees(threads, s, settings, config)
                   => Agrees(threads', s, settings, config)
  <2>1. \A k \in 1 .. Len(s) : threads'[s[k]].endpoint = threads[s[k]].endpoint
    BY <1>3, <1>6
  <2>2. ASSUME r.refused
        PROVE  \E j \in 1 .. Len(s) : j # i /\ threads[s[j]].endpoint.port = port
    <3>1. CASE threads[t].refused
      BY <1>3, <3>1 DEF Proper
    <3>2. CASE threads[t].state = "starting" /\ InUse(port)
      <4>1. \A q \in Process : ~probing[q].open
        BY DEF HolderInv, ProbesInPlace, HoldersMatch, ForNothing
      <4>2. PICK u \in Slot : /\ threads[u] # Nobody /\ threads[u].state = "listening"
                              /\ threads[u].endpoint.port = port
        BY <3>2, <4>1 DEF InUse
      <4>3. u \in Elements(s) /\ u # t
        BY <3>2, <4>2 DEF HandlesInv, Stoppable
      <4>4. PICK j \in 1 .. Len(s) : u = s[j]
        BY <1>2, <4>3 DEF Elements
      <4> QED BY <1>3, <4>2, <4>3, <4>4
    <3> QED BY <1>6, <2>2, <3>1, <3>2
  <2>3. Proper(threads', s)
    <3> SUFFICES ASSUME NEW k \in 1 .. Len(s)
                 PROVE  /\ DOMAIN threads'[s[k]] = ThreadFields
                        /\ threads'[s[k]].refused =>
                            /\ threads'[s[k]].state = "ended"
                            /\ \E j \in 1 .. Len(s) :
                                j # k /\ threads'[s[j]].endpoint.port
                                             = threads'[s[k]].endpoint.port
      BY DEF Proper
    <3>1. CASE k = i
      BY <1>3, <1>6, <2>1, <2>2, <3>1
    <3>2. CASE k # i
      BY <1>6, <2>1, <3>2 DEF Proper
    <3> QED BY <3>1, <3>2
  <2>4. ASSUME Agrees(threads, s, settings, config)
        PROVE  Agrees(threads', s, settings, config)
    <3>1. \A k \in 1 .. Len(s) :
            /\ threads'[s[k]].assignments = threads[s[k]].assignments
            /\ threads'[s[k]].mappings = threads[s[k]].mappings
            /\ threads'[s[k]].config \in {threads[s[k]].config, config}
      BY <1>3, <1>6
    <3> QED BY <2>1, <2>4, <3>1 DEF Agrees
  <2> QED BY <2>3, <2>4
<1>7. ASSUME NEW r, LET ts == [threads EXCEPT ![t] = r]
                    IN  threads' = ts \/ threads' = WithoutGone(ts, Kept)
      PROVE  \A k \in 1 .. Len(s) : threads'[s[k]] = IF k = i THEN r ELSE threads[s[k]]
  <2> DEFINE ts == [threads EXCEPT ![t] = r]
  <2> TAKE k \in 1 .. Len(s)
  <2>1. s[k] \in Slot /\ s[k] \in Elements(s) /\ (s[k] = t <=> k = i)
    BY <1>2, <1>3 DEF Proper
  <2>2. ts[s[k]] = IF k = i THEN r ELSE threads[s[k]]
    BY <1>1, <2>1
  <2>3. threads' = ts \/ threads' = WithoutGone(ts, Kept)
    BY <1>7
  <2> HIDE DEF ts
  <2>4. threads'[s[k]] = ts[s[k]]
    BY <1>5, <2>1, <2>3
  <2> QED BY <2>2, <2>4
<1>8. CASE Stopped(t) \/ Breaks(t)
  <2> DEFINE r == [threads[t] EXCEPT !.state = "ended"]
  <2>1. threads' = WithoutGone([threads EXCEPT ![t] = r], Kept)
    BY <1>1, <1>8 DEF Stopped, Breaks
  <2>2. /\ DOMAIN r = ThreadFields /\ r.state = "ended" /\ r.refused = threads[t].refused
        /\ r.endpoint = threads[t].endpoint /\ r.assignments = threads[t].assignments
        /\ r.mappings = threads[t].mappings /\ r.config = threads[t].config
    BY <1>4 DEF ThreadFields
  <2> HIDE DEF r
  <2>3. \A k \in 1 .. Len(s) : threads'[s[k]] = IF k = i THEN r ELSE threads[s[k]]
    BY <1>7, <2>1
  <2> QED BY <1>6, <2>2, <2>3
<1>9. CASE Open(t) /\ InUse(port)
  <2> DEFINE r == [threads[t] EXCEPT !.state = "ended", !.refused = TRUE]
  <2>1. /\ threads' = WithoutGone([threads EXCEPT ![t] = r], Kept)
        /\ threads[t].state = "starting"
    BY <1>1, <1>9 DEF Open
  <2>2. /\ DOMAIN r = ThreadFields /\ r.state = "ended"
        /\ r.endpoint = threads[t].endpoint /\ r.assignments = threads[t].assignments
        /\ r.mappings = threads[t].mappings /\ r.config = threads[t].config
    BY <1>4 DEF ThreadFields
  <2> HIDE DEF r
  <2>3. \A k \in 1 .. Len(s) : threads'[s[k]] = IF k = i THEN r ELSE threads[s[k]]
    BY <1>7, <2>1
  <2> QED BY <1>6, <1>9, <2>1, <2>2, <2>3
<1>10. CASE Open(t) /\ ~InUse(port)
  <2> DEFINE r == [threads[t] EXCEPT !.state = "listening", !.config = config]
  <2>1. threads' = [threads EXCEPT ![t] = r] /\ threads[t].state = "starting"
    BY <1>1, <1>10 DEF Open
  <2>2. /\ DOMAIN r = ThreadFields /\ r.refused = threads[t].refused
        /\ r.endpoint = threads[t].endpoint /\ r.assignments = threads[t].assignments
        /\ r.mappings = threads[t].mappings /\ r.config = config
    BY <1>4 DEF ThreadFields
  <2>3. ~threads[t].refused
    BY <1>3, <2>1 DEF Proper
  <2> HIDE DEF r
  <2>4. \A k \in 1 .. Len(s) : threads'[s[k]] = IF k = i THEN r ELSE threads[s[k]]
    BY <1>7, <2>1
  <2> QED BY <1>6, <2>2, <2>3, <2>4
<1> QED BY <1>8, <1>9, <1>10

LEMMA ThreadServes ==
    ASSUME HolderInv, HandlesInv, ServeInv,
           NEW t \in Slot, Open(t) \/ Stopped(t) \/ Breaks(t)
    PROVE  ServeInv'
<1>1. UNCHANGED <<endpoint_listeners, todo, handles, copies, crossed, lastTaken,
                  settings, config>>
  BY DEF Open, Stopped, Breaks, ThreadUnchanged, StepUnchanged
<1>2. MainStarts' <=> MainStarts
  BY <1>1 DEF MainStarts
<1>3. CopiesAgree'
  BY <1>1, <1>2 DEF ServeInv, CopiesAgree
<1>4. ASSUME lastTaken = "alone", ~crossed, NEW s, IsList(s), Kept = Elements(s), Served(s)
      PROVE  /\ Proper(threads', s)
             /\ ~MainStarts => Agrees(threads', s, settings, config)
  <2>1. Proper(threads, s) /\ (~MainStarts => Agrees(threads, s, settings, config))
    BY <1>4 DEF Served
  <2>2. /\ Proper(threads', s)
        /\ Agrees(threads, s, settings, config) => Agrees(threads', s, settings, config)
    BY <1>4, <2>1, ThreadServed
  <2> QED BY <2>1, <2>2
<1>5. ASSUME lastTaken = "alone", ~crossed, NEW p \in Process,
             todo[p] # <<>>, todo[p][1] = "store"
      PROVE  Served(handles[p])'
  <2>1. PICK s : s = handles[p]
    OBVIOUS
  <2>2. IsList(s) /\ Kept = Elements(s) /\ Served(s)
    BY <1>5, <2>1, AllAreKept DEF ServeInv, AllServed, HandlesInv, Shapes
  <2>3. handles'[p] = s
    BY <1>1, <2>1
  <2>4. Proper(threads', s) /\ (~MainStarts => Agrees(threads', s, settings, config))
    BY <1>4, <1>5, <2>2
  <2> QED BY <1>1, <1>2, <2>3, <2>4 DEF Served
<1>6. ASSUME lastTaken = "alone", ~crossed, \A p \in Process : ~Holds(p)
      PROVE  Served(endpoint_listeners)'
  <2>1. PICK s : s = endpoint_listeners
    OBVIOUS
  <2>2. IsList(s) /\ Kept = Elements(s) /\ Served(s)
    BY <1>6, <2>1, AllAreKept DEF ServeInv, AllServed, HandlesInv, Shapes
  <2>3. Proper(threads', s) /\ (~MainStarts => Agrees(threads', s, settings, config))
    BY <1>4, <1>6, <2>2
  <2> QED BY <1>1, <1>2, <2>1, <2>3 DEF Served
<1>7. AllServed'
  <2>1. \A p \in Process : Holds(p)' <=> Holds(p)
    BY <1>1 DEF Holds
  <2> QED BY <1>1, <1>5, <1>6, <2>1 DEF AllServed
<1> QED BY <1>3, <1>7 DEF ServeInv

LEMMA ServeStart ==
    NobodyStarted /\ copies = Each(NoCopies) => ServeInv
BY DEF NobodyStarted, ServeInv, CopiesAgree, AllServed, Each, NoCopies

LEMMA ServeNext ==
    HolderInv /\ HandlesInv /\ CleanEndpoints /\ ServeInv /\ [Next]_vars => ServeInv'
<1> SUFFICES ASSUME HolderInv, HandlesInv, CleanEndpoints, ServeInv, [Next]_vars
             PROVE  ServeInv'
  OBVIOUS
<1>0. HolderInv'
  BY HolderNext
<1>1. CASE MainStep \/ SavePart \/ update_dcsbios_config \/ list_devices
  BY <1>1, GivenServes
<1>2. ASSUME NEW p \in Process, ProcessStep(p) PROVE ServeInv'
  <2>1. CASE Take(p) \/ Signal(p) \/ Join(p) \/ ReadSettings(p)
    BY <1>0, <2>1, WorkServes
  <2>2. CASE Spawn(p)
    BY <1>0, <2>2, SpawnServes
  <2>3. CASE Store(p)
    BY <1>0, <2>3, StoreServes
  <2>4. CASE Scan(p) \/ Probe(p) \/ ScanPanics(p) \/ ListDevices(p)
    BY <2>4, RefreshServes
  <2> QED BY <1>2, <2>1, <2>2, <2>3, <2>4 DEF ProcessStep
<1>3. ASSUME NEW t \in Slot, Open(t) \/ Stopped(t) \/ Breaks(t) PROVE ServeInv'
  BY <1>3, ThreadServes
<1>4. CASE Crash
  <2>1. (NobodyStarted /\ copies = Each(NoCopies))'
    BY <1>4 DEF Crash, NobodyStarted, Each
  <2> QED BY <2>1, ServeStart, PTL
<1>5. CASE UNCHANGED vars
  <2>1. UNCHANGED <<endpoint_listeners, threads, handles, copies, lastTaken, crossed,
                    settings, config, todo>>
    BY <1>5 DEF vars, threadVars, processVars, historyVars
  <2>2. MainStarts' <=> MainStarts
    BY <2>1 DEF MainStarts
  <2> QED BY <2>1, <2>2, QuietServes
<1> QED BY <1>1, <1>2, <1>3, <1>4, <1>5 DEF Next, Progress

LEMMA ServesWhenIdle ==
    ASSUME HolderInv, ServeInv PROVE ServesSettings
<1> SUFFICES ASSUME Idle, ~crossed, lastTaken = "alone"
             PROVE  LET serve == Enabled(settings.endpoints)
                    IN  /\ Len(endpoint_listeners) = Len(serve)
                        /\ \A k \in 1 .. Len(serve) :
                            /\ Serving(endpoint_listeners[k], serve[k])
                            /\ threads[endpoint_listeners[k]].refused =>
                                \E j \in 1 .. Len(serve) :
                                    j # k /\ serve[j].port = serve[k].port
  BY DEF ServesSettings
<1> DEFINE s == endpoint_listeners
<1>1. ~MainStarts /\ \A p \in Process : ~Holds(p)
  BY DEF Idle, Process, MainStarts, Holds, ForNothing, ForNew
<1>2. Proper(threads, s) /\ Agrees(threads, s, settings, config)
  BY <1>1 DEF ServeInv, AllServed, Served
<1>3. Len(s) = Len(Enabled(settings.endpoints))
  BY <1>2 DEF Agrees
<1>4. \A k \in 1 .. Len(s) :
        /\ Serving(s[k], Enabled(settings.endpoints)[k])
        /\ threads[s[k]].endpoint = Enabled(settings.endpoints)[k]
  BY <1>2 DEF Agrees, Serving
<1>5. \A k \in 1 .. Len(s) : threads[s[k]].refused =>
        \E j \in 1 .. Len(s) : j # k /\ threads[s[j]].endpoint.port = threads[s[k]].endpoint.port
  BY <1>2 DEF Proper
<1> QED BY <1>3, <1>4, <1>5

(* Every save, change of the configuration and refresh ends with a thread  *)
(* for each endpoint that is enabled, with the settings of then, and none  *)
(* is kept from its port but by another of them that names it too; unless  *)
(* two processes took the listeners together.                              *)
THEOREM EndpointsServed == Spec => []ServesSettings
<1> DEFINE Inv == HolderInv /\ HandlesInv /\ SettingsClean /\ ServeInv
<1>1. Init => Inv
  <2> SUFFICES ASSUME Init PROVE Inv
    OBVIOUS
  <2>1. NobodyStarted /\ Fresh /\ copies = Each(NoCopies)
    BY DEF Init, NobodyStarted, Fresh
  <2>2. SettingsClean
    BY SettingsCleanInit
  <2> QED BY <2>1, <2>2, StartHolds, FreshIsInv, ServeStart
<1>2. Inv /\ [Next]_vars => Inv'
  BY HolderNext, HandlesNext, SettingsCleanNext, EndpointsAreClean, ServeNext
<1>3. Inv => ServesSettings
  BY ServesWhenIdle
<1> QED BY <1>1, <1>2, <1>3, PTL DEF Spec
=============================================================================
