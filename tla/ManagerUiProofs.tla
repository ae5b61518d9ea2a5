--------------------------- MODULE ManagerUiProofs ---------------------------
(***************************************************************************)
(* What the status of the DCS-BIOS listener and the user interface are     *)
(* worth, for every number of commands, datagrams and events; and what the *)
(* memory holds, whatever updates are sent and wherever they are cut.      *)
(***************************************************************************)
EXTENDS ManagerUi, WellFoundedInduction, TLAPS

(* What is in a queue.                                                     *)
In(s) == {s[i] : i \in DOMAIN s}

(* What main does now, or "idle": the place of main in its program.        *)
Now == IF todo = <<>> THEN "idle" ELSE Head(todo)

Step == {"take", "join", "stopped", "connecting", "bind", "store", "config",
         "copy", "write", "emit", "respond", "snapshot"}

(* The steps of all the programs that commands leave in todo.              *)
Follows(a, b) ==
    \/ a = "take" /\ b = "join"
    \/ a = "join" /\ b = "stopped"
    \/ a = "stopped" /\ b \in {"connecting", "respond"}
    \/ a = "connecting" /\ b = "bind"
    \/ a = "bind" /\ b = "store"
    \/ a = "store" /\ b = "respond"
    \/ a = "config" /\ b = "copy"
    \/ a = "copy" /\ b = "write"
    \/ a = "write" /\ b = "emit"
    \/ a = "emit" /\ b = "respond"

IsProgram(s) ==
    /\ s \in Seq(Step)
    /\ \A i \in 1 .. Len(s) - 1 : Follows(s[i], s[i + 1])
    /\ s # <<>> => s[Len(s)] \in {"store", "respond", "snapshot"}

(* The program of main ends with an answer: a status that is yet to be read. *)
Due == todo # <<>> /\ todo[Len(todo)] \in {"respond", "snapshot"}

Updating == {"config", "copy", "write", "emit"}

Status == [state : State, total : Nat, config : Config, version : Nat]
Answer == [to : Step, status : Status \cup {Failed}]

Typed ==
    /\ config \in Config /\ status \in Status /\ copy \in [Source -> Status]
    /\ handle \in BOOLEAN /\ stop \in BOOLEAN /\ lost \in BOOLEAN /\ bound \in BOOLEAN
    /\ thread \in {"none", "loop", "recv", "config", "status", "write", "emit",
                   "ended", "panicked"}
    /\ change \in {"listening", "receiving", "rate", "quiet", "failed"}
    /\ received \in Nat /\ updates \in Nat /\ missed \in Nat
    /\ events \in [Source -> Seq(Status)] /\ responses \in Seq(Answer)

MainTyped ==
    /\ IsProgram(todo)
    /\ Now \in Updating => Due

(* The thread is there while main keeps its handle, and on the way from    *)
(* bind to store and from take to join; it is told to stop only then.      *)
HandleInv ==
    /\ Now \in {"join", "store"} => ~handle /\ thread # "none"
    /\ Now \in {"stopped", "connecting", "bind"} => thread = "none"
    /\ Now \notin {"join", "store"} => (handle <=> thread # "none")
    /\ stop => Now = "join"

(* A copy of the status that is not stale has what the status has.         *)
Copied(c) ==
    /\ c.version <= status.version
    /\ c.version = status.version =>
        c.state = status.state /\ c.total = status.total

CopyInv ==
    /\ thread = "write" => Copied(copy["thread"])
    /\ Now = "write" => Copied(copy["main"]) /\ copy["main"].config = config

(* Before the first change of the configuration nothing can get stale.     *)
CleanInv ==
    updates = 0 =>
        /\ ~lost /\ Now \notin Updating
        /\ thread \in {"status", "write"} => copy["thread"].config = config
        /\ thread = "write" => copy["thread"].version = status.version

Runs ==
    /\ status.state \in {"listening", "receiving"}
    /\ status.state = "receiving" => status.total > 0

(* What the status says at every step of the thread, and of main.          *)
ThreadTruth ==
    /\ thread \in {"config", "status", "write"} =>
        /\ change = "listening" =>
            status.state = "connecting" /\ status.total = 0 /\ received = 0
        /\ change = "receiving" => Runs /\ status.total + 1 = received
        /\ change \in {"rate", "quiet", "failed"} => Runs /\ status.total = received
    /\ thread = "emit" /\ change = "failed" => status.state = "error"
    /\ thread = "emit" /\ change # "failed" => Runs /\ status.total = received
    /\ thread \in {"loop", "recv"} => Runs /\ status.total = received
    /\ thread = "ended" => stop \/ status.state = "error"

MainTruth ==
    /\ Now \in {"copy", "write"} \/ status.config = config
    /\ thread = "none" /\ Now \notin {"stopped", "connecting", "bind"} =>
        status.state \in {"stopped", "error"}
    /\ Now = "bind" => status.state = "connecting" /\ status.total = 0

TruthInv == ~lost => ThreadTruth /\ MainTruth

ListenerInv ==
    Typed /\ MainTyped /\ HandleInv /\ CopyInv /\ CleanInv /\ TruthInv

(* A version names one status, and none is newer than the status itself.   *)
AtMost(s, last) ==
    s.version <= last.version /\ (s.version = last.version => s = last)

VersionInv ==
    /\ thread = "emit" => AtMost(copy["thread"], status)
    /\ Now = "emit" => AtMost(copy["main"], status)
    /\ \A s \in Source : \A e \in In(events[s]) : AtMost(e, status)
    /\ \A r \in In(responses) : r.status # Failed => AtMost(r.status, status)

UiInv ==
    /\ ui \in Status /\ newest \in Nat
    /\ AtMost(ui, status) /\ newest <= status.version
    /\ ui.version <= newest /\ (~stale => ui.version = newest)

(* The status is known to the user interface, or on its way there, or will *)
(* be read for an answer - or it was told to nobody, and last so.          *)
Told ==
    \/ newest = status.version
    \/ \E s \in Source : \E e \in In(events[s]) : e.version = status.version
    \/ \E r \in In(responses) : r.status.version = status.version
    \/ thread = "emit" /\ copy["thread"].version = status.version
    \/ Due
    \/ missed = status.version /\ thread # "emit"

UiShowsInv == ListenerInv /\ VersionInv /\ UiInv /\ Told

-----------------------------------------------------------------------------
(* Queues and programs.                                                    *)

LEMMA InAppend ==
    ASSUME NEW S, NEW s \in Seq(S), NEW e \in S
    PROVE  Append(s, e) \in Seq(S) /\ In(Append(s, e)) = In(s) \cup {e}
<1>1. /\ DOMAIN Append(s, e) = DOMAIN s \cup {Len(s) + 1}
      /\ \A i \in DOMAIN s : Append(s, e)[i] = s[i]
      /\ Append(s, e)[Len(s) + 1] = e
  OBVIOUS
<1>2. Append(s, e) \in Seq(S)
  OBVIOUS
<1> DEFINE a == Append(s, e)
<1>3. /\ DOMAIN a = DOMAIN s \cup {Len(s) + 1}
      /\ \A i \in DOMAIN s : a[i] = s[i]
      /\ a[Len(s) + 1] = e
  BY <1>1
<1> HIDE DEF a
<1>4. In(a) = In(s) \cup {e}
  BY <1>3 DEF In
<1> QED BY <1>2, <1>4 DEF a

LEMMA InTail ==
    ASSUME NEW S, NEW s \in Seq(S), s # <<>>
    PROVE  /\ Tail(s) \in Seq(S) /\ Head(s) \in S
           /\ In(s) = In(Tail(s)) \cup {Head(s)}
<1>1. /\ DOMAIN s = 1 .. Len(s) /\ Len(s) \in Nat \ {0} /\ Head(s) = s[1]
      /\ DOMAIN Tail(s) = 1 .. Len(s) - 1
      /\ \A i \in DOMAIN Tail(s) : Tail(s)[i] = s[i + 1]
  OBVIOUS
<1>2. Tail(s) \in Seq(S) /\ Head(s) \in S
  OBVIOUS
<1> DEFINE t == Tail(s)
           n == Len(s)
<1>3. /\ DOMAIN s = 1 .. n /\ n \in Nat \ {0} /\ Head(s) = s[1]
      /\ DOMAIN t = 1 .. n - 1
      /\ \A i \in DOMAIN t : t[i] = s[i + 1]
  BY <1>1
<1> HIDE DEF t, n
<1>4. ASSUME NEW i \in 1 .. n PROVE s[i] \in In(t) \cup {Head(s)}
  <2>1. CASE i = 1
    BY <1>3, <2>1
  <2>2. CASE i # 1
    <3>1. i - 1 \in DOMAIN t /\ t[i - 1] = s[i]
      BY <1>3, <2>2
    <3> QED BY <3>1 DEF In
  <2> QED BY <2>1, <2>2
<1>5. In(t) \subseteq In(s)
  BY <1>3 DEF In
<1>6. In(s) = In(t) \cup {Head(s)}
  BY <1>3, <1>4, <1>5 DEF In
<1> QED BY <1>2, <1>6 DEF t

LEMMA Concatenation ==
    ASSUME NEW S, NEW s \in Seq(S), NEW t \in Seq(S)
    PROVE  /\ s \o t \in Seq(S) /\ Len(s \o t) = Len(s) + Len(t)
           /\ \A i \in 1 .. Len(s) + Len(t) :
                (s \o t)[i] = IF i <= Len(s) THEN s[i] ELSE t[i - Len(s)]
OBVIOUS

LEMMA InEmpty == In(<<>>) = {}
BY DEF In

LEMMA ProgramTail ==
    ASSUME NEW s, IsProgram(s), s # <<>>
    PROVE  /\ IsProgram(Tail(s))
           /\ Tail(s) = <<>> => /\ Head(s) \in {"store", "respond", "snapshot"}
                               /\ s[Len(s)] = Head(s)
           /\ Tail(s) # <<>> => /\ Follows(Head(s), Head(Tail(s)))
                               /\ Tail(s)[Len(Tail(s))] = s[Len(s)]
<1> DEFINE t == Tail(s)
           n == Len(s)
<1>1. /\ s \in Seq(Step) /\ n \in Nat \ {0} /\ Head(s) = s[1]
      /\ t \in Seq(Step) /\ Len(t) = n - 1
      /\ \A i \in 1 .. n - 1 : t[i] = s[i + 1]
  BY DEF IsProgram
<1>2. /\ \A i \in 1 .. n - 1 : Follows(s[i], s[i + 1])
      /\ s[n] \in {"store", "respond", "snapshot"}
  BY DEF IsProgram
<1> HIDE DEF t
<1>3. (t # <<>> <=> n > 1) /\ (n > 1 => Head(t) = s[2])
  BY <1>1
<1>4. IsProgram(t)
  BY <1>1, <1>2 DEF IsProgram
<1>5. CASE n = 1
  BY <1>1, <1>2, <1>3, <1>4, <1>5 DEF t
<1>6. CASE n # 1
  <2>1. Follows(s[1], s[2]) /\ t[Len(t)] = s[n]
    BY <1>1, <1>2, <1>6
  <2> QED BY <1>1, <1>3, <1>4, <1>6, <2>1 DEF t
<1> QED BY <1>5, <1>6

(* A step of main ends its program, or goes on to what follows.            *)
LEMMA Proceeds ==
    ASSUME MainTyped, NEW a \in Step, At(a), Proceed
    PROVE  /\ MainTyped' /\ Now = a
           /\ \/ a \in {"store", "respond", "snapshot"} /\ Now' = "idle"
              \/ Follows(a, Now') /\ (Due => Due')
           /\ a \notin {"respond", "snapshot"} => (Due => Due')
<1>1. IsProgram(todo) /\ todo # <<>> /\ Head(todo) = a /\ Now = a /\ todo' = Tail(todo)
  BY DEF MainTyped, At, Now, Proceed
<1>2. IsProgram(todo')
  BY <1>1, ProgramTail
<1>3. CASE todo' = <<>>
  <2>1. a \in {"store", "respond", "snapshot"} /\ Now' = "idle"
    BY <1>1, <1>3, ProgramTail DEF Now
  <2>2. a \notin {"respond", "snapshot"} => ~Due
    BY <1>1, <1>3, ProgramTail DEF Due
  <2> QED BY <1>1, <1>2, <2>1, <2>2 DEF MainTyped, Updating
<1>4. CASE todo' # <<>>
  <2>1. Follows(a, Now') /\ (Due => Due')
    BY <1>1, <1>4, ProgramTail DEF Now, Due
  <2>2. Now' \in Updating /\ Now' # "config" => a \in Updating
    BY <2>1 DEF Follows, Updating
  <2>3. Now' # "config"
    BY <2>1 DEF Follows
  <2> QED BY <1>1, <1>2, <2>1, <2>2, <2>3 DEF MainTyped
<1> QED BY <1>3, <1>4

LEMMA SameProgram ==
    ASSUME MainTyped, UNCHANGED todo
    PROVE  MainTyped' /\ Now' = Now /\ Due' = Due
BY DEF MainTyped, Now, Due

(* A chain of steps, and what it is with the answer of a command.          *)
IsChain(s) ==
    /\ s \in Seq(Step) /\ s # <<>>
    /\ \A i \in 1 .. Len(s) - 1 : Follows(s[i], s[i + 1])

LEMMA Answering ==
    ASSUME NEW s, IsChain(s), Follows(s[Len(s)], "respond")
    PROVE  LET a == Append(s, "respond")
           IN  IsProgram(a) /\ a # <<>> /\ a[Len(a)] = "respond" /\ Head(a) = s[1]
<1> DEFINE a == Append(s, "respond")
           n == Len(s)
<1>1. s \in Seq(Step) /\ n \in Nat \ {0} /\ "respond" \in Step
  BY DEF IsChain, Step
<1>2. /\ a \in Seq(Step) /\ Len(a) = n + 1 /\ a[n + 1] = "respond"
      /\ \A i \in 1 .. n : a[i] = s[i]
  BY <1>1
<1>3. \A i \in 1 .. n - 1 : Follows(s[i], s[i + 1])
  BY DEF IsChain
<1>4. Follows(s[n], "respond")
  OBVIOUS
<1> HIDE DEF a, n
<1>5. \A i \in 1 .. n : Follows(a[i], a[i + 1])
  BY <1>1, <1>2, <1>3, <1>4
<1>6. a # <<>> /\ Head(a) = s[1]
  BY <1>1, <1>2
<1>7. IsProgram(a)
  BY <1>1, <1>2, <1>5, <1>6 DEF IsProgram
<1>8. IsProgram(a) /\ a # <<>> /\ a[Len(a)] = "respond" /\ Head(a) = s[1]
  BY <1>2, <1>6, <1>7
<1> QED BY <1>8 DEF a

(* The programs that main is given.                                        *)
LEMMA Programs ==
    /\ IsProgram(<<>>)
    /\ IsProgram(Start) /\ Start # <<>> /\ Head(Start) = "take"
    /\ \A s \in {<<"snapshot">>, Append(Start, "respond"), Append(Stop, "respond"),
                 Append(<<"config", "copy", "write", "emit">>, "respond")} :
        /\ IsProgram(s) /\ s # <<>> /\ s[Len(s)] \in {"respond", "snapshot"}
        /\ Head(s) \in {"snapshot", "take", "config"}
    /\ Head(Append(Start, "respond")) = "take"
    /\ Head(Append(Stop, "respond")) = "take"
    /\ Head(Append(<<"config", "copy", "write", "emit">>, "respond")) = "config"
<1>1. IsProgram(<<>>)
  <2>1. <<>> \in Seq(Step) /\ Len(<<>>) = 0
    OBVIOUS
  <2>2. 1 .. 0 - 1 = {}
    OBVIOUS
  <2> QED BY <2>1, <2>2 DEF IsProgram
<1>2. /\ IsProgram(<<"snapshot">>) /\ <<"snapshot">> # <<>>
      /\ Head(<<"snapshot">>) = "snapshot"
  <2> DEFINE p == <<"snapshot">>
  <2>1. p \in Seq(Step) /\ Len(p) = 1 /\ p[1] = "snapshot"
    BY DEF Step
  <2> HIDE DEF p
  <2>2. p # <<>> /\ Head(p) = "snapshot"
    <3>1. Len(<<>>) = 0 /\ 0 # 1
      OBVIOUS
    <3>2. p # <<>>
      BY <2>1, <3>1, Zenon
    <3>3. Head(p) = p[1]
      BY <2>1, <3>2
    <3> QED BY <2>1, <3>2, <3>3
  <2>3. \A i \in 1 .. Len(p) - 1 : Follows(p[i], p[i + 1])
    BY <2>1
  <2>4. IsProgram(p)
    BY <2>1, <2>2, <2>3 DEF IsProgram
  <2> QED BY <2>2, <2>4 DEF p
<1>3. IsChain(Start) /\ Start[1] = "take" /\ Start[Len(Start)] = "store"
  <2> DEFINE rest == <<"connecting", "bind", "store">>
  <2>1. /\ Stop \in Seq(Step) /\ Len(Stop) = 3
        /\ Stop[1] = "take" /\ Stop[2] = "join" /\ Stop[3] = "stopped"
    BY DEF Stop, Step
  <2>2. /\ rest \in Seq(Step) /\ Len(rest) = 3
        /\ rest[1] = "connecting" /\ rest[2] = "bind" /\ rest[3] = "store"
    BY DEF Step
  <2>3. Start = Stop \o rest
    BY DEF Start
  <2> HIDE DEF rest
  <2>4. Start \in Seq(Step) /\ Len(Start) = Len(Stop) + Len(rest)
    BY <2>1, <2>2, <2>3, Concatenation
  <2>5. \A i \in 1 .. 6 : Start[i] = IF i <= 3 THEN Stop[i] ELSE rest[i - 3]
    <3>1. \A i \in 1 .. Len(Stop) + Len(rest) :
            (Stop \o rest)[i] = IF i <= Len(Stop) THEN Stop[i] ELSE rest[i - Len(Stop)]
      BY <2>1, <2>2, Concatenation
    <3>2. Len(Stop) = 3 /\ Len(rest) = 3 /\ 3 + 3 = 6
      BY <2>1, <2>2
    <3> QED BY <2>3, <3>1, <3>2, Zenon
  <2>6. /\ Start \in Seq(Step) /\ Len(Start) = 6
        /\ Start[1] = "take" /\ Start[2] = "join" /\ Start[3] = "stopped"
        /\ Start[4] = "connecting" /\ Start[5] = "bind" /\ Start[6] = "store"
    <3>1. \A i \in 1 .. 3 : Start[i] = Stop[i] /\ Start[i + 3] = rest[i]
      <4>1. SUFFICES ASSUME NEW i \in 1 .. 3
                     PROVE  Start[i] = Stop[i] /\ Start[i + 3] = rest[i]
        OBVIOUS
      <4>2. i \in 1 .. 6 /\ i + 3 \in 1 .. 6 /\ i <= 3 /\ ~(i + 3 <= 3) /\ i + 3 - 3 = i
        OBVIOUS
      <4> QED BY <2>5, <4>2
    <3>2. /\ Start[1] = Stop[1] /\ Start[2] = Stop[2] /\ Start[3] = Stop[3]
          /\ Start[4] = rest[1] /\ Start[5] = rest[2] /\ Start[6] = rest[3]
      BY <3>1, 1 \in 1 .. 3, 2 \in 1 .. 3, 3 \in 1 .. 3,
         1 + 3 = 4, 2 + 3 = 5, 3 + 3 = 6
    <3> QED BY <2>1, <2>2, <2>4, <3>2
  <2>7. \A i \in 1 .. 5 : Follows(Start[i], Start[i + 1])
    <3>1. \A i \in 1 .. 5 : i = 1 \/ i = 2 \/ i = 3 \/ i = 4 \/ i = 5
      OBVIOUS
    <3> QED BY <2>6, <3>1 DEF Follows
  <2> QED BY <2>6, <2>7 DEF IsChain
<1>4. IsProgram(Start) /\ Start # <<>> /\ Head(Start) = "take"
  BY <1>3 DEF IsChain, IsProgram
<1>5. IsChain(Stop) /\ Stop[1] = "take" /\ Stop[Len(Stop)] = "stopped"
  <2>1. /\ Stop \in Seq(Step) /\ Len(Stop) = 3
        /\ Stop[1] = "take" /\ Stop[2] = "join" /\ Stop[3] = "stopped"
    BY DEF Stop, Step
  <2>2. \A i \in 1 .. 2 : i = 1 \/ i = 2
    OBVIOUS
  <2> QED BY <2>1, <2>2 DEF IsChain, Follows
<1>6. /\ IsChain(<<"config", "copy", "write", "emit">>)
      /\ <<"config", "copy", "write", "emit">>[1] = "config"
      /\ LET p == <<"config", "copy", "write", "emit">> IN p[Len(p)] = "emit"
  <2> DEFINE p == <<"config", "copy", "write", "emit">>
  <2>1. /\ p \in Seq(Step) /\ Len(p) = 4
        /\ p[1] = "config" /\ p[2] = "copy" /\ p[3] = "write" /\ p[4] = "emit"
    BY DEF Step
  <2>2. \A i \in 1 .. 3 : i = 1 \/ i = 2 \/ i = 3
    OBVIOUS
  <2> HIDE DEF p
  <2>3. IsChain(p) /\ p[1] = "config" /\ p[Len(p)] = "emit"
    BY <2>1, <2>2 DEF IsChain, Follows
  <2> QED BY <2>3 DEF p
<1>7. /\ Follows("store", "respond") /\ Follows("stopped", "respond")
      /\ Follows("emit", "respond")
  BY DEF Follows
<1>8. \A p \in {Start, Stop, <<"config", "copy", "write", "emit">>} :
        LET a == Append(p, "respond")
        IN  IsProgram(a) /\ a # <<>> /\ a[Len(a)] = "respond" /\ Head(a) = p[1]
  BY <1>3, <1>5, <1>6, <1>7, Answering
<1>9. LET p == <<"snapshot">> IN p[Len(p)] = "snapshot"
  OBVIOUS
<1> QED BY <1>1, <1>2, <1>3, <1>4, <1>5, <1>6, <1>8, <1>9

-----------------------------------------------------------------------------
(* Statuses, and what is told of them.                                     *)

LEMMA Configured ==
    ASSUME NEW s \in Status, NEW c \in Config
    PROVE  LET new == [s EXCEPT !.config = c]
           IN  /\ new \in Status /\ new.config = c /\ new.state = s.state
               /\ new.total = s.total /\ new.version = s.version
BY DEF Status

LEMMA Versioned ==
    ASSUME NEW s \in Status, NEW n \in Nat
    PROVE  LET new == [s EXCEPT !.version = n]
           IN  /\ new \in Status /\ new.config = s.config /\ new.state = s.state
               /\ new.total = s.total /\ new.version = n
BY DEF Status

LEMMA StatusFields ==
    ASSUME NEW s \in Status
    PROVE  /\ s.state \in State /\ s.total \in Nat /\ s.config \in Config
           /\ s.version \in Nat /\ s # Failed
BY DEF Status, Failed

LEMMA New ==
    /\ NewStatus \in Status /\ NewStatus.state = "stopped" /\ NewStatus.total = 0
    /\ NewStatus.config = DefaultConfig /\ NewStatus.version = 0
BY ListenerAssumption DEF NewStatus, Status, State

LEMMA EmitTyped ==
    ASSUME Typed, NEW s \in Source, NEW w \in Status, Emit(s, w)
    PROVE  events' \in [Source -> Seq(Status)] /\ missed' \in Nat /\ bound' = bound
<1>1. Append(events[s], w) \in Seq(Status)
  BY InAppend DEF Typed
<1> QED BY <1>1, StatusFields DEF Typed, Emit

LEMMA SetStatusTyped ==
    ASSUME Typed, NEW state \in State, SetStatus(state)
    PROVE  /\ status' \in Status /\ status'.state = state /\ status'.total = 0
           /\ status'.config = config /\ status'.version = status.version + 1
           /\ Emit("main", status')
           /\ events' \in [Source -> Seq(Status)] /\ missed' \in Nat /\ bound' = bound
<1>1. /\ status' \in Status /\ status'.state = state /\ status'.total = 0
      /\ status'.config = config /\ status'.version = status.version + 1
  BY StatusFields DEF SetStatus, Typed, Status
<1>2. Emit("main", status') /\ "main" \in Source
  BY DEF SetStatus, Source
<1>3. PICK w : w = status'
  OBVIOUS
<1>4. Emit("main", w)
  BY <1>2, <1>3
<1>5. events' \in [Source -> Seq(Status)] /\ missed' \in Nat /\ bound' = bound
  BY <1>1, <1>2, <1>3, <1>4, EmitTyped
<1> QED BY <1>1, <1>2, <1>5

LEMMA WriteBackTyped ==
    ASSUME Typed, NEW s \in Source, NEW new \in Status, WriteBack(s, new)
    PROVE  /\ status' \in Status /\ status'.state = new.state
           /\ status'.total = new.total /\ status'.config = new.config
           /\ status'.version = status.version + 1
           /\ copy' \in [Source -> Status] /\ copy'[s] = status'
           /\ \A t \in Source \ {s} : copy'[t] = copy[t]
           /\ lost' \in BOOLEAN
           /\ ~lost' => /\ ~lost /\ copy[s].version = status.version
                       /\ new.config = config
           /\ lost' => \/ lost \/ copy[s].version # status.version
                       \/ new.config # config
<1>1. /\ status' \in Status /\ status'.state = new.state
      /\ status'.total = new.total /\ status'.config = new.config
      /\ status'.version = status.version + 1
  <2>1. status.version + 1 \in Nat
    BY StatusFields DEF Typed
  <2> QED BY <2>1, Versioned DEF WriteBack
<1>2. /\ copy' \in [Source -> Status] /\ copy'[s] = status'
      /\ \A t \in Source \ {s} : copy'[t] = copy[t]
  BY <1>1 DEF WriteBack, Typed
<1>3. lost' \in BOOLEAN
  BY DEF WriteBack
<1>4. ~lost' => ~lost /\ copy[s].version = status.version /\ new.config = config
  BY DEF WriteBack
<1>5. lost' => lost \/ copy[s].version # status.version \/ new.config # config
  BY DEF WriteBack
<1> QED BY <1>1, <1>2, <1>3, <1>4, <1>5

-----------------------------------------------------------------------------
(* What the status tells, step by step: main first.                        *)

LEMMA TakeInv ==
    ASSUME ListenerInv, Take
    PROVE  ListenerInv'
<1> USE DEF ListenerInv, threadVars, channelVars, eventVars, historyVars
<1>1. MainTyped' /\ Now = "take" /\ Now' = IF handle THEN "join" ELSE "stopped"
  <2>1. IsProgram(todo) /\ todo # <<>> /\ Head(todo) = "take" /\ Now = "take"
    BY DEF MainTyped, At, Now, Take
  <2>2. IsProgram(Tail(todo)) /\ Tail(todo) # <<>> /\ Head(Tail(todo)) = "join"
    BY <2>1, ProgramTail DEF Follows
  <2> DEFINE t == Tail(Tail(todo))
  <2>3. IsProgram(t) /\ t # <<>> /\ Head(t) = "stopped"
    BY <2>2, ProgramTail DEF Follows
  <2>4. todo' = IF handle THEN Tail(todo) ELSE t
    BY DEF Take
  <2> HIDE DEF t
  <2>5. IsProgram(todo') /\ Now' = IF handle THEN "join" ELSE "stopped"
    <3>1. CASE handle
      BY <2>2, <2>4, <3>1 DEF Now
    <3>2. CASE ~handle
      BY <2>3, <2>4, <3>2 DEF Now
    <3> QED BY <3>1, <3>2
  <2>6. Now' \notin Updating
    BY <2>5 DEF Updating
  <2> QED BY <2>1, <2>5, <2>6 DEF MainTyped
<1>2. Typed'
  BY <1>1 DEF Take, Typed
<1>3. HandleInv'
  BY <1>1 DEF Take, HandleInv
<1>4. CopyInv'
  BY <1>1 DEF Take, CopyInv, Copied
<1>5. CleanInv'
  BY <1>1 DEF Take, CleanInv, Updating
<1>6. TruthInv'
  BY <1>1 DEF Take, TruthInv, ThreadTruth, MainTruth, Runs,
              HandleInv, CopyInv, Copied
<1> QED BY <1>1, <1>2, <1>3, <1>4, <1>5, <1>6

LEMMA JoinInv ==
    ASSUME ListenerInv, Join
    PROVE  ListenerInv'
<1> USE DEF ListenerInv, threadVars, channelVars, eventVars, historyVars
<1>1. MainTyped' /\ Now = "join" /\ Now' = "stopped"
  BY Proceeds DEF Join, Follows, Step
<1>2. Typed'
  BY <1>1 DEF Join, Typed
<1>3. HandleInv'
  BY <1>1 DEF Join, HandleInv
<1>4. CopyInv'
  BY <1>1 DEF Join, CopyInv, Copied
<1>5. CleanInv'
  BY <1>1 DEF Join, CleanInv, Updating
<1>6. TruthInv'
  BY <1>1 DEF Join, TruthInv, ThreadTruth, MainTruth, Runs,
              HandleInv, CopyInv, Copied
<1> QED BY <1>1, <1>2, <1>3, <1>4, <1>5, <1>6

LEMMA PublishInv ==
    ASSUME ListenerInv, Publish
    PROVE  ListenerInv'
<1> USE DEF ListenerInv, threadVars, channelVars, eventVars, historyVars
<1>1. /\ MainTyped'
      /\ \/ Now = "stopped" /\ Now' \in {"connecting", "respond"} /\ SetStatus("stopped")
         \/ Now = "connecting" /\ Now' = "bind" /\ SetStatus("connecting")
  BY Proceeds DEF Publish, Follows, Step
<1>2. /\ status' \in Status /\ status'.state = Now /\ status'.total = 0
      /\ status'.config = config
      /\ events' \in [Source -> Seq(Status)] /\ missed' \in Nat /\ bound' = bound
  BY <1>1, SetStatusTyped DEF State
<1>3. thread = "none"
  BY <1>1 DEF HandleInv
<1>4. Typed'
  BY <1>1, <1>2, <1>3 DEF Publish, Typed
<1>5. HandleInv'
  BY <1>1, <1>2, <1>3 DEF Publish, HandleInv
<1>6. CopyInv'
  BY <1>1, <1>2, <1>3 DEF Publish, CopyInv, Copied
<1>7. CleanInv'
  BY <1>1, <1>2, <1>3 DEF Publish, CleanInv, Updating
<1>8. TruthInv'
  BY <1>1, <1>2, <1>3 DEF Publish, TruthInv, ThreadTruth, MainTruth, Runs,
              HandleInv, CopyInv, Copied
<1> QED BY <1>1, <1>4, <1>5, <1>6, <1>7, <1>8

LEMMA StoreInv ==
    ASSUME ListenerInv, Store
    PROVE  ListenerInv'
<1> USE DEF ListenerInv, threadVars, channelVars, eventVars, historyVars
<1>1. MainTyped' /\ Now = "store" /\ Now' \in {"idle", "respond"}
  BY Proceeds DEF Store, Follows, Step
<1>2. Typed'
  BY <1>1 DEF Store, Typed
<1>3. HandleInv'
  BY <1>1 DEF Store, HandleInv
<1>4. CopyInv'
  BY <1>1 DEF Store, CopyInv, Copied
<1>5. CleanInv'
  BY <1>1 DEF Store, CleanInv, Updating
<1>6. TruthInv'
  BY <1>1 DEF Store, TruthInv, ThreadTruth, MainTruth, Runs,
              HandleInv, CopyInv, Copied
<1> QED BY <1>1, <1>2, <1>3, <1>4, <1>5, <1>6

LEMMA SetConfigInv ==
    ASSUME ListenerInv, SetConfig
    PROVE  ListenerInv'
<1> USE DEF ListenerInv, threadVars, channelVars, eventVars, historyVars
<1>1. MainTyped' /\ Now = "config" /\ Now' = "copy"
  BY Proceeds DEF SetConfig, Follows, Step
<1>2. Typed'
  BY <1>1 DEF SetConfig, Typed
<1>3. HandleInv'
  BY <1>1 DEF SetConfig, HandleInv
<1>4. CopyInv'
  BY <1>1 DEF SetConfig, CopyInv, Copied
<1>5. CleanInv'
  BY <1>1 DEF SetConfig, CleanInv, Updating
<1>6. TruthInv'
  BY <1>1 DEF SetConfig, TruthInv, ThreadTruth, MainTruth, Runs,
              HandleInv, CopyInv, Copied
<1> QED BY <1>1, <1>2, <1>3, <1>4, <1>5, <1>6

LEMMA RespondInv ==
    ASSUME ListenerInv, Respond
    PROVE  ListenerInv'
<1> USE DEF ListenerInv, threadVars, channelVars, eventVars, historyVars
<1>1. MainTyped' /\ Now \in {"respond", "snapshot"} /\ Now' = "idle"
  BY Proceeds DEF Respond, Follows, Step
<1>2. responses' \in Seq(Answer)
  <2>1. todo[Len(todo)] \in Step
    BY DEF MainTyped, IsProgram, Respond, At
  <2>2. [to |-> todo[Len(todo)], status |-> status] \in Answer
    BY <2>1 DEF Answer, Typed
  <2> QED BY <2>2, InAppend DEF Typed, Respond, Answered
<1>3. Typed'
  BY <1>1, <1>2 DEF Respond, Typed
<1>4. HandleInv'
  BY <1>1, <1>2 DEF Respond, HandleInv
<1>5. CopyInv'
  BY <1>1, <1>2 DEF Respond, CopyInv, Copied
<1>6. CleanInv'
  BY <1>1, <1>2 DEF Respond, CleanInv, Updating
<1>7. TruthInv'
  BY <1>1, <1>2 DEF Respond, TruthInv, ThreadTruth, MainTruth, Runs,
              HandleInv, CopyInv, Copied
<1> QED BY <1>1, <1>3, <1>4, <1>5, <1>6, <1>7

LEMMA MainCopiesInv ==
    ASSUME ListenerInv, MainCopies
    PROVE  ListenerInv'
<1> USE DEF ListenerInv, threadVars, channelVars, eventVars, historyVars
<1>1. MainTyped' /\ Now = "copy" /\ Now' = "write"
  BY Proceeds DEF MainCopies, Follows, Step
<1>2. /\ copy' \in [Source -> Status] /\ copy'["thread"] = copy["thread"]
      /\ copy'["main"].config = config /\ copy'["main"].version = status.version
      /\ copy'["main"].state = status.state /\ copy'["main"].total = status.total
  BY Configured DEF MainCopies, Typed, Source
<1>3. status.version \in Nat
  BY StatusFields DEF Typed
<1>4. Typed'
  BY <1>1, <1>2, <1>3 DEF MainCopies, Typed
<1>5. HandleInv'
  BY <1>1, <1>2, <1>3 DEF MainCopies, HandleInv
<1>6. CopyInv'
  BY <1>1, <1>2, <1>3 DEF MainCopies, CopyInv, Copied
<1>7. CleanInv'
  BY <1>1, <1>2, <1>3 DEF MainCopies, CleanInv, Updating
<1>8. TruthInv'
  BY <1>1, <1>2, <1>3 DEF MainCopies, TruthInv, ThreadTruth, MainTruth, Runs,
              HandleInv, CopyInv, Copied
<1> QED BY <1>1, <1>4, <1>5, <1>6, <1>7, <1>8

LEMMA MainWritesInv ==
    ASSUME ListenerInv, MainWrites
    PROVE  ListenerInv'
<1> USE DEF ListenerInv, threadVars, channelVars, eventVars, historyVars
<1>1. MainTyped' /\ Now = "write" /\ Now' = "emit"
  BY Proceeds DEF MainWrites, Follows, Step
<1>2. "main" \in Source /\ "thread" \in Source \ {"main"} /\ copy["main"] \in Status
  BY DEF Source, Typed
<1>3. /\ status' \in Status /\ status'.state = copy["main"].state
      /\ status'.total = copy["main"].total /\ status'.config = copy["main"].config
      /\ status'.version = status.version + 1
      /\ copy' \in [Source -> Status] /\ copy'["thread"] = copy["thread"]
      /\ lost' \in BOOLEAN
      /\ ~lost' => ~lost /\ copy["main"].version = status.version
  BY <1>2, WriteBackTyped DEF MainWrites
<1>4. /\ copy["main"].config = config
      /\ ~lost' => status'.state = status.state /\ status'.total = status.total
  BY <1>1, <1>3 DEF CopyInv, Copied
<1>5. status.version \in Nat /\ copy["thread"].version \in Nat
  BY <1>2, StatusFields DEF Typed
<1>6. Typed'
  BY <1>1, <1>2, <1>3, <1>4, <1>5 DEF MainWrites, Typed
<1>7. HandleInv'
  BY <1>1, <1>2, <1>3, <1>4, <1>5 DEF MainWrites, HandleInv
<1>8. CopyInv'
  BY <1>1, <1>2, <1>3, <1>4, <1>5 DEF MainWrites, CopyInv, Copied
<1>9. CleanInv'
  BY <1>1, <1>2, <1>3, <1>4, <1>5 DEF MainWrites, CleanInv, Updating
<1>10. TruthInv'
  BY <1>1, <1>2, <1>3, <1>4, <1>5
  DEF MainWrites, TruthInv, ThreadTruth, MainTruth, Runs,
              HandleInv, CopyInv, Copied
<1> QED BY <1>1, <1>6, <1>7, <1>8, <1>9, <1>10

LEMMA MainEmitsInv ==
    ASSUME ListenerInv, MainEmits
    PROVE  ListenerInv'
<1> USE DEF ListenerInv, threadVars, channelVars, eventVars, historyVars
<1>1. MainTyped' /\ Now = "emit" /\ Now' = "respond"
  BY Proceeds DEF MainEmits, Follows, Step
<1>2. "main" \in Source /\ "thread" \in Source /\ copy["main"] \in Status
  BY DEF Source, Typed
<1>3. events' \in [Source -> Seq(Status)] /\ missed' \in Nat /\ bound' = bound
  BY <1>2, EmitTyped DEF MainEmits
<1>4. copy' \in [Source -> Status] /\ copy'["thread"] = copy["thread"]
  BY <1>2, New DEF MainEmits, Typed
<1>5. Typed'
  BY <1>1, <1>3, <1>4 DEF MainEmits, Typed
<1>6. HandleInv'
  BY <1>1, <1>3, <1>4 DEF MainEmits, HandleInv
<1>7. CopyInv'
  BY <1>1, <1>3, <1>4 DEF MainEmits, CopyInv, Copied
<1>8. CleanInv'
  BY <1>1, <1>3, <1>4 DEF MainEmits, CleanInv, Updating
<1>9. TruthInv'
  BY <1>1, <1>3, <1>4 DEF MainEmits, TruthInv, ThreadTruth, MainTruth, Runs,
              HandleInv, CopyInv, Copied
<1> QED BY <1>1, <1>5, <1>6, <1>7, <1>8, <1>9

(* The thread starts and is told nothing yet, or the listener is not bound. *)
LEMMA BindInv ==
    ASSUME ListenerInv, Bind
    PROVE  ListenerInv'
<1> USE DEF ListenerInv, threadVars, channelVars, eventVars, historyVars
<1>1. /\ Now = "bind" /\ thread = "none" /\ ~handle /\ ~stop
      /\ status.state = "connecting" \/ lost
      /\ status.total = 0 \/ lost
  BY DEF Bind, At, Now, HandleInv, TruthInv, MainTruth
<1>2. UNCHANGED <<config, handle, copy, lost, updates>>
  BY DEF Bind
<1>3. CASE /\ thread' = "config" /\ change' = "listening" /\ stop' = FALSE
           /\ received' = 0 /\ Proceed /\ UNCHANGED <<status, channelVars>>
  <2>1. MainTyped' /\ Now' = "store"
    BY <1>3, Proceeds DEF Bind, Follows, Step
  <2>2. Typed'
    BY <1>2, <1>3 DEF Typed
  <2>3. HandleInv' /\ CopyInv'
    BY <1>1, <1>2, <1>3, <2>1 DEF HandleInv, CopyInv
  <2>4. CleanInv'
    BY <1>1, <1>2, <1>3, <2>1 DEF CleanInv, Updating
  <2>5. TruthInv'
    BY <1>1, <1>2, <1>3, <2>1 DEF TruthInv, ThreadTruth, MainTruth, Runs
  <2> QED BY <2>1, <2>2, <2>3, <2>4, <2>5
<1>4. CASE /\ SetStatus("error") /\ todo' = <<>>
           /\ responses' = IF todo[Len(todo)] = "respond" THEN Answered(Failed)
                           ELSE responses
           /\ UNCHANGED <<threadVars, received>>
  <2>1. MainTyped' /\ Now' = "idle"
    BY <1>4, Programs DEF MainTyped, Now, Updating
  <2>2. /\ status' \in Status /\ status'.state = "error" /\ status'.config = config
        /\ events' \in [Source -> Seq(Status)] /\ missed' \in Nat /\ bound' = bound
    BY <1>4, SetStatusTyped DEF State
  <2>3. responses' \in Seq(Answer)
    <3>1. [to |-> "respond", status |-> Failed] \in Answer
      BY DEF Answer, Step
    <3>2. Append(responses, [to |-> "respond", status |-> Failed]) \in Seq(Answer)
      BY <3>1, InAppend DEF Typed
    <3>3. todo[Len(todo)] = "respond" =>
            Answered(Failed) = Append(responses, [to |-> "respond", status |-> Failed])
      BY DEF Answered
    <3> QED BY <1>4, <3>2, <3>3 DEF Typed
  <2>4. Typed'
    BY <1>2, <1>4, <2>2, <2>3 DEF Typed
  <2>5. HandleInv' /\ CopyInv'
    BY <1>1, <1>2, <1>4, <2>1 DEF HandleInv, CopyInv
  <2>6. CleanInv'
    BY <1>1, <1>2, <1>4, <2>1 DEF CleanInv, Updating
  <2>7. TruthInv'
    BY <1>1, <1>2, <1>4, <2>1, <2>2 DEF TruthInv, ThreadTruth, MainTruth
  <2> QED BY <2>1, <2>4, <2>5, <2>6, <2>7
<1> QED BY <1>3, <1>4 DEF Bind

-----------------------------------------------------------------------------
(* The thread.                                                             *)

LEMMA ChangedFields ==
    ASSUME Typed
    PROVE  /\ Changed(copy["thread"]) \in Status
           /\ Changed(copy["thread"]).config = copy["thread"].config
           /\ Changed(copy["thread"]).total =
                 copy["thread"].total + (IF change = "receiving" THEN 1 ELSE 0)
           /\ Changed(copy["thread"]).state =
                 IF change \in {"listening", "receiving"} THEN change
                 ELSE IF change = "failed" THEN "error"
                 ELSE IF change = "quiet" /\ copy["thread"].state = "receiving" THEN "listening"
                 ELSE copy["thread"].state
<1>1. copy["thread"] \in Status
  BY DEF Typed, Source
<1>2. change \in {"listening", "receiving", "rate", "quiet", "failed"}
  BY DEF Typed
<1>3. CASE change = "listening"
  BY <1>1, <1>3 DEF Changed, Status, State
<1>4. CASE change = "receiving"
  <2>1. Changed(copy["thread"]) =
          [copy["thread"] EXCEPT !.state = "receiving", !.total = copy["thread"].total + 1]
    BY <1>4 DEF Changed
  <2>2. copy["thread"].total + 1 \in Nat
    BY <1>1, StatusFields
  <2>3. PICK c \in Status : c = copy["thread"]
    BY <1>1
  <2>4. PICK n \in Nat : n = copy["thread"].total + 1
    BY <2>2
  <2>5. PICK new : new = Changed(copy["thread"])
    OBVIOUS
  <2>6. new = [c EXCEPT !.state = "receiving", !.total = n]
    BY <2>1, <2>3, <2>4, <2>5
  <2>7. new \in Status /\ new.config = c.config /\ new.state = "receiving" /\ new.total = n
    BY <2>3, <2>4, <2>6 DEF Status, State
  <2>8. /\ Changed(copy["thread"]) \in Status
        /\ Changed(copy["thread"]).config = copy["thread"].config
        /\ Changed(copy["thread"]).total = copy["thread"].total + 1
        /\ Changed(copy["thread"]).state = "receiving"
    BY <2>3, <2>4, <2>5, <2>7
  <2> QED BY <1>4, <2>8
<1>5. CASE change = "rate"
  BY <1>1, <1>5 DEF Changed, Status, State
<1>6. CASE change = "quiet"
  BY <1>1, <1>6 DEF Changed, Status, State
<1>7. CASE change = "failed"
  BY <1>1, <1>7 DEF Changed, Status, State
<1> QED BY <1>2, <1>3, <1>4, <1>5, <1>6, <1>7

LEMMA CopyConfigInv ==
    ASSUME ListenerInv, CopyConfig
    PROVE  ListenerInv'
<1> USE DEF ListenerInv, threadVars, channelVars, eventVars, historyVars
<1>1. MainTyped' /\ Now' = Now
  BY SameProgram DEF CopyConfig, ThreadUnchanged
<1>2. /\ copy' \in [Source -> Status] /\ copy'["thread"].config = config
      /\ copy'["main"] = copy["main"]
  BY Configured DEF CopyConfig, Typed, Source
<1>3. Typed'
  BY <1>1, <1>2 DEF CopyConfig, ThreadUnchanged, Typed
<1>4. HandleInv'
  BY <1>1, <1>2 DEF CopyConfig, ThreadUnchanged, HandleInv
<1>5. CopyInv'
  BY <1>1, <1>2 DEF CopyConfig, ThreadUnchanged, CopyInv, Copied
<1>6. CleanInv'
  BY <1>1, <1>2 DEF CopyConfig, ThreadUnchanged, CleanInv, Updating
<1>7. TruthInv'
  BY <1>1, <1>2
  DEF CopyConfig, ThreadUnchanged, TruthInv, ThreadTruth, MainTruth, Runs,
              HandleInv, CopyInv, Copied
<1> QED BY <1>1, <1>3, <1>4, <1>5, <1>6, <1>7

LEMMA CopyStatusInv ==
    ASSUME ListenerInv, CopyStatus
    PROVE  ListenerInv'
<1> USE DEF ListenerInv, threadVars, channelVars, eventVars, historyVars
<1>1. MainTyped' /\ Now' = Now
  BY SameProgram DEF CopyStatus, ThreadUnchanged
<1>2. copy["thread"] \in Status /\ copy["thread"].config \in Config
  BY StatusFields DEF Typed, Source
<1>3. /\ copy' \in [Source -> Status] /\ copy'["thread"].config = copy["thread"].config
      /\ copy'["thread"].state = status.state /\ copy'["thread"].total = status.total
      /\ copy'["thread"].version = status.version /\ copy'["main"] = copy["main"]
  BY <1>2, Configured DEF CopyStatus, Typed, Source
<1>4. status.version \in Nat
  BY StatusFields DEF Typed
<1>5. Typed'
  BY <1>1, <1>2, <1>3, <1>4 DEF CopyStatus, ThreadUnchanged, Typed
<1>6. HandleInv'
  BY <1>1, <1>2, <1>3, <1>4 DEF CopyStatus, ThreadUnchanged, HandleInv
<1>7. CopyInv'
  BY <1>1, <1>2, <1>3, <1>4 DEF CopyStatus, ThreadUnchanged, CopyInv, Copied
<1>8. CleanInv'
  BY <1>1, <1>2, <1>3, <1>4 DEF CopyStatus, ThreadUnchanged, CleanInv, Updating
<1>9. TruthInv'
  BY <1>1, <1>2, <1>3, <1>4
  DEF CopyStatus, ThreadUnchanged, TruthInv, ThreadTruth, MainTruth, Runs,
              HandleInv, CopyInv, Copied
<1> QED BY <1>1, <1>5, <1>6, <1>7, <1>8, <1>9

LEMMA ThreadWritesInv ==
    ASSUME ListenerInv, ThreadWrites
    PROVE  ListenerInv'
<1> USE DEF ListenerInv, threadVars, channelVars, eventVars, historyVars
<1>1. MainTyped' /\ Now' = Now
  BY SameProgram DEF ThreadWrites, ThreadUnchanged
<1>2. /\ "thread" \in Source /\ "main" \in Source \ {"thread"} /\ copy["thread"] \in Status
      /\ copy["main"] \in Status
  BY DEF Source, Typed
<1>3. /\ Changed(copy["thread"]) \in Status
      /\ Changed(copy["thread"]).config = copy["thread"].config
      /\ Changed(copy["thread"]).total =
            copy["thread"].total + (IF change = "receiving" THEN 1 ELSE 0)
      /\ Changed(copy["thread"]).state =
            IF change \in {"listening", "receiving"} THEN change
            ELSE IF change = "failed" THEN "error"
            ELSE IF change = "quiet" /\ copy["thread"].state = "receiving" THEN "listening"
            ELSE copy["thread"].state
  BY ChangedFields
<1>4. /\ status' \in Status /\ status'.state = Changed(copy["thread"]).state
      /\ status'.total = Changed(copy["thread"]).total
      /\ status'.config = copy["thread"].config
      /\ status'.version = status.version + 1
      /\ copy' \in [Source -> Status] /\ copy'["main"] = copy["main"]
      /\ lost' \in BOOLEAN
      /\ ~lost' => /\ ~lost /\ copy["thread"].version = status.version
                  /\ copy["thread"].config = config
      /\ lost' => \/ lost \/ copy["thread"].version # status.version
                  \/ copy["thread"].config # config
  <2>1. WriteBack("thread", Changed(copy["thread"]))
    BY DEF ThreadWrites
  <2> QED BY <1>2, <1>3, <2>1, WriteBackTyped
<1>5. thread = "write" /\ thread' = "emit" /\ Copied(copy["thread"])
  BY DEF ThreadWrites, CopyInv
<1>6. ~lost' => status.state = copy["thread"].state /\ status.total = copy["thread"].total
  BY <1>4, <1>5 DEF Copied
<1>7. /\ status.version \in Nat /\ copy["main"].version \in Nat
       /\ copy["thread"].total \in Nat
  BY <1>2, StatusFields DEF Typed
<1>8. updates = 0 => ~lost'
  BY <1>4, <1>5 DEF CleanInv
<1>9. Typed'
  BY <1>1, <1>2, <1>3, <1>4, <1>5, <1>6, <1>7, <1>8
  DEF ThreadWrites, ThreadUnchanged, Typed
<1>10. HandleInv'
  BY <1>1, <1>2, <1>3, <1>4, <1>5, <1>6, <1>7, <1>8
  DEF ThreadWrites, ThreadUnchanged, HandleInv
<1>11. CopyInv'
  BY <1>1, <1>2, <1>3, <1>4, <1>5, <1>6, <1>7, <1>8
  DEF ThreadWrites, ThreadUnchanged, CopyInv, Copied
<1>12. CleanInv'
  BY <1>1, <1>2, <1>3, <1>4, <1>5, <1>6, <1>7, <1>8
  DEF ThreadWrites, ThreadUnchanged, CleanInv, Updating
<1>13. TruthInv'
  <2> SUFFICES ASSUME ~lost' PROVE ThreadTruth' /\ MainTruth'
    BY DEF TruthInv
  <2>1. ~lost /\ ThreadTruth /\ MainTruth
    BY <1>4 DEF TruthInv
  <2>2. UNCHANGED <<change, received, config, handle, stop, updates>> /\ received \in Nat
    BY DEF ThreadWrites, ThreadUnchanged, Typed
  <2>3. change = "failed" => status'.state = "error"
    BY <1>3, <1>4
  <2>4. change = "listening" => Runs' /\ status'.total = received
    BY <1>3, <1>4, <1>5, <1>6, <2>1 DEF ThreadTruth, Runs
  <2>5. change = "receiving" => Runs' /\ status'.total = received
    BY <1>3, <1>4, <1>5, <1>6, <1>7, <2>1 DEF ThreadTruth, Runs
  <2>6. change \in {"rate", "quiet"} => Runs' /\ status'.total = received
    BY <1>3, <1>4, <1>5, <1>6, <1>7, <2>1 DEF ThreadTruth, Runs
  <2>7. ThreadTruth'
    BY <1>5, <2>2, <2>3, <2>4, <2>5, <2>6 DEF ThreadTruth, Typed
  <2>8. MainTruth'
    BY <1>1, <1>4, <1>5, <2>2 DEF MainTruth, HandleInv
  <2> QED BY <2>7, <2>8
<1> QED BY <1>1, <1>9, <1>10, <1>11, <1>12, <1>13

LEMMA ThreadEmitsInv ==
    ASSUME ListenerInv, ThreadEmits
    PROVE  ListenerInv'
<1> USE DEF ListenerInv, threadVars, channelVars, eventVars, historyVars
<1>1. MainTyped' /\ Now' = Now
  BY SameProgram DEF ThreadEmits, ThreadUnchanged
<1>2. "main" \in Source /\ "thread" \in Source /\ copy["thread"] \in Status
  BY DEF Source, Typed
<1>3. events' \in [Source -> Seq(Status)] /\ missed' \in Nat /\ bound' = bound
  BY <1>2, EmitTyped DEF ThreadEmits
<1>4. copy' \in [Source -> Status] /\ copy'["main"] = copy["main"]
  BY <1>2, New DEF ThreadEmits, Typed
<1>5. Typed'
  BY <1>1, <1>3, <1>4 DEF ThreadEmits, ThreadUnchanged, Typed
<1>6. HandleInv'
  BY <1>1, <1>3, <1>4 DEF ThreadEmits, ThreadUnchanged, HandleInv
<1>7. CopyInv'
  BY <1>1, <1>3, <1>4 DEF ThreadEmits, ThreadUnchanged, CopyInv, Copied
<1>8. CleanInv'
  BY <1>1, <1>3, <1>4 DEF ThreadEmits, ThreadUnchanged, CleanInv, Updating
<1>9. TruthInv'
  BY <1>1, <1>3, <1>4
  DEF ThreadEmits, ThreadUnchanged, TruthInv, ThreadTruth, MainTruth, Runs,
              HandleInv, CopyInv, Copied
<1> QED BY <1>1, <1>5, <1>6, <1>7, <1>8, <1>9

LEMMA LoopInv ==
    ASSUME ListenerInv, Loop
    PROVE  ListenerInv'
<1> USE DEF ListenerInv, threadVars, channelVars, eventVars, historyVars
<1>1. MainTyped' /\ Now' = Now
  BY SameProgram DEF Loop, ThreadUnchanged
<1>2. Typed'
  BY <1>1 DEF Loop, ThreadUnchanged, Typed
<1>3. HandleInv'
  BY <1>1 DEF Loop, ThreadUnchanged, HandleInv
<1>4. CopyInv'
  BY <1>1 DEF Loop, ThreadUnchanged, CopyInv, Copied
<1>5. CleanInv'
  BY <1>1 DEF Loop, ThreadUnchanged, CleanInv, Updating
<1>6. TruthInv'
  BY <1>1 DEF Loop, ThreadUnchanged, TruthInv, ThreadTruth, MainTruth, Runs,
              HandleInv, CopyInv, Copied
<1> QED BY <1>1, <1>2, <1>3, <1>4, <1>5, <1>6

LEMMA PacketInv ==
    ASSUME ListenerInv, Packet
    PROVE  ListenerInv'
<1> USE DEF ListenerInv, threadVars, channelVars, eventVars, historyVars
<1>1. MainTyped' /\ Now' = Now
  BY SameProgram DEF Packet, ThreadUnchanged
<1>2. Typed'
  BY <1>1 DEF Packet, ThreadUnchanged, Typed
<1>3. HandleInv'
  BY <1>1 DEF Packet, ThreadUnchanged, HandleInv
<1>4. CopyInv'
  BY <1>1 DEF Packet, ThreadUnchanged, CopyInv, Copied
<1>5. CleanInv'
  BY <1>1 DEF Packet, ThreadUnchanged, CleanInv, Updating
<1>6. TruthInv'
  BY <1>1 DEF Packet, ThreadUnchanged, TruthInv, ThreadTruth, MainTruth, Runs,
              HandleInv, CopyInv, Copied
<1> QED BY <1>1, <1>2, <1>3, <1>4, <1>5, <1>6

LEMMA TimeoutInv ==
    ASSUME ListenerInv, Timeout
    PROVE  ListenerInv'
<1> USE DEF ListenerInv, threadVars, channelVars, eventVars, historyVars
<1>1. MainTyped' /\ Now' = Now
  BY SameProgram DEF Timeout, ThreadUnchanged
<1>2. Typed'
  BY <1>1 DEF Timeout, ThreadUnchanged, Typed
<1>3. HandleInv'
  BY <1>1 DEF Timeout, ThreadUnchanged, HandleInv
<1>4. CopyInv'
  BY <1>1 DEF Timeout, ThreadUnchanged, CopyInv, Copied
<1>5. CleanInv'
  BY <1>1 DEF Timeout, ThreadUnchanged, CleanInv, Updating
<1>6. TruthInv'
  BY <1>1 DEF Timeout, ThreadUnchanged, TruthInv, ThreadTruth, MainTruth, Runs,
              HandleInv, CopyInv, Copied
<1> QED BY <1>1, <1>2, <1>3, <1>4, <1>5, <1>6

LEMMA ReceiveFailsInv ==
    ASSUME ListenerInv, ReceiveFails
    PROVE  ListenerInv'
<1> USE DEF ListenerInv, threadVars, channelVars, eventVars, historyVars
<1>1. MainTyped' /\ Now' = Now
  BY SameProgram DEF ReceiveFails, ThreadUnchanged
<1>2. Typed'
  BY <1>1 DEF ReceiveFails, ThreadUnchanged, Typed
<1>3. HandleInv'
  BY <1>1 DEF ReceiveFails, ThreadUnchanged, HandleInv
<1>4. CopyInv'
  BY <1>1 DEF ReceiveFails, ThreadUnchanged, CopyInv, Copied
<1>5. CleanInv'
  BY <1>1 DEF ReceiveFails, ThreadUnchanged, CleanInv, Updating
<1>6. TruthInv'
  BY <1>1 DEF ReceiveFails, ThreadUnchanged, TruthInv, ThreadTruth, MainTruth, Runs,
              HandleInv, CopyInv, Copied
<1> QED BY <1>1, <1>2, <1>3, <1>4, <1>5, <1>6


-----------------------------------------------------------------------------
(* The user interface.                                                     *)

LEMMA CallsInv ==
    ASSUME ListenerInv, NEW s, Calls(s), IsProgram(s), s # <<>>,
           s[Len(s)] \in {"respond", "snapshot"}, Head(s) \in {"snapshot", "take", "config"},
           Head(s) = "config" => updates' = updates + 1,
           Head(s) # "config" => updates' = updates
    PROVE  ListenerInv'
<1> USE DEF ListenerInv, threadVars, channelVars, eventVars, historyVars
<1>1. MainTyped' /\ Now = "idle" /\ Now' = Head(s)
  BY DEF Calls, MainTyped, Now, Due
<1>2. Typed'
  BY DEF Calls, Typed
<1>3. HandleInv'
  BY <1>1 DEF Calls, HandleInv
<1>4. CopyInv'
  BY <1>1 DEF Calls, CopyInv, Copied
<1>5. CleanInv'
  BY <1>1 DEF Calls, CleanInv, Updating, Typed
<1>6. TruthInv'
  BY <1>1 DEF Calls, TruthInv, ThreadTruth, MainTruth, Runs
<1> QED BY <1>1, <1>2, <1>3, <1>4, <1>5, <1>6

LEMMA UiStepInv ==
    ASSUME ListenerInv, Mount \/ BindListeners \/ Invoke \/ Deliver
    PROVE  ListenerInv'
<1>1. CASE Mount
  <2>1. IsProgram(<<"snapshot">>) /\ <<"snapshot">> # <<>>
    BY Programs
  <2>2. LET s == <<"snapshot">>
        IN  s[Len(s)] = "snapshot" /\ Head(s) = "snapshot"
    OBVIOUS
  <2>3. Calls(<<"snapshot">>) /\ updates' = updates
    BY <1>1 DEF Mount, get_app_state
  <2> QED BY <2>1, <2>2, <2>3, CallsInv
<1>2. CASE BindListeners \/ Deliver
  <2> USE DEF ListenerInv, threadVars, channelVars, eventVars, historyVars,
              BindListeners, Deliver, Response, Event, DeliverUnchanged
  <2>1. MainTyped' /\ Now' = Now
    BY <1>2, SameProgram
  <2>2. Typed'
    <3>1. CASE BindListeners
      BY <3>1 DEF Typed
    <3>2. CASE Response
      <4>1. responses' \in Seq(Answer)
        BY <3>2, InTail DEF Typed
      <4> QED BY <3>2, <4>1 DEF Typed
    <3>3. CASE Event
      <4>1. PICK s \in Source :
              events[s] # <<>> /\ events' = [events EXCEPT ![s] = Tail(@)]
        BY <3>3
      <4>2. Tail(events[s]) \in Seq(Status)
        BY <4>1, InTail DEF Typed
      <4>3. events' \in [Source -> Seq(Status)]
        BY <4>1, <4>2 DEF Typed
      <4> QED BY <3>3, <4>3 DEF Typed
    <3> QED BY <1>2, <3>1, <3>2, <3>3
  <2>3. UNCHANGED <<config, status, handle, stop, thread, change, copy, lost, received,
                    updates>>
    BY <1>2
  <2>4. HandleInv' /\ CopyInv' /\ CleanInv' /\ TruthInv'
    BY <2>1, <2>3
    DEF HandleInv, CopyInv, Copied, CleanInv, TruthInv, ThreadTruth, MainTruth, Runs
  <2> QED BY <2>1, <2>2, <2>4
<1>3. CASE Invoke
  <2>1. CASE start_dcsbios
    <3>1. Calls(Append(Start, "respond")) /\ updates' = updates
      BY <2>1 DEF start_dcsbios, Command
    <3>2. Head(Append(Start, "respond")) # "config"
      BY Programs
    <3> QED BY <3>1, <3>2, Programs, CallsInv
  <2>2. CASE stop_dcsbios
    <3>1. Calls(Append(Stop, "respond")) /\ updates' = updates
      BY <2>2 DEF stop_dcsbios, Command
    <3>2. Head(Append(Stop, "respond")) # "config"
      BY Programs
    <3> QED BY <3>1, <3>2, Programs, CallsInv
  <2>3. CASE update_dcsbios_config
    <3> DEFINE p == Append(<<"config", "copy", "write", "emit">>, "respond")
    <3>1. Calls(p) /\ updates' = updates + 1
      BY <2>3 DEF update_dcsbios_config, Command
    <3>2. Head(p) = "config"
      BY Programs
    <3>3. IsProgram(p) /\ p # <<>> /\ p[Len(p)] \in {"respond", "snapshot"}
      BY Programs
    <3> HIDE DEF p
    <3> QED BY <3>1, <3>2, <3>3, CallsInv
  <2> QED BY <1>3, <2>1, <2>2, <2>3 DEF Invoke
<1> QED BY <1>1, <1>2, <1>3

(* Every step keeps what the status tells.                                 *)
LEMMA ListenerStep ==
    ASSUME ListenerInv, [Next]_vars
    PROVE  ListenerInv'
<1>1. CASE MainStep
  BY <1>1, TakeInv, JoinInv, PublishInv, BindInv, StoreInv, SetConfigInv, RespondInv,
     MainCopiesInv, MainWritesInv, MainEmitsInv DEF MainStep
<1>2. CASE ThreadStep
  BY <1>2, CopyConfigInv, CopyStatusInv, ThreadWritesInv, ThreadEmitsInv, LoopInv,
     PacketInv, TimeoutInv, ReceiveFailsInv DEF ThreadStep
<1>3. CASE Mount \/ BindListeners \/ Invoke \/ Deliver
  BY <1>3, UiStepInv
<1>4. CASE UNCHANGED vars
  <2>1. UNCHANGED <<config, status, handle, stop, thread, change, copy, todo, bound,
                    events, missed, responses, lost, received, updates>>
    BY <1>4 DEF vars, listenerVars, threadVars, channelVars, eventVars, historyVars
  <2>2. MainTyped' /\ Now' = Now
    BY <2>1, SameProgram DEF ListenerInv
  <2>3. Typed' /\ HandleInv' /\ CopyInv' /\ CleanInv' /\ TruthInv'
    BY <2>1, <2>2
    DEF ListenerInv, Typed, HandleInv, CopyInv, Copied, CleanInv, TruthInv,
        ThreadTruth, MainTruth, Runs
  <2> QED BY <2>2, <2>3 DEF ListenerInv
<1> QED BY <1>1, <1>2, <1>3, <1>4 DEF Next

LEMMA ListenerStart == Init => ListenerInv
<1> SUFFICES ASSUME Init PROVE ListenerInv
  OBVIOUS
<1> USE DEF Init, ListenerInit
<1>1. MainTyped /\ Now = "take"
  BY Programs DEF MainTyped, Now, Updating
<1>2. Typed
  <2>1. /\ events \in [Source -> Seq(Status)] /\ responses \in Seq(Answer)
        /\ copy \in [Source -> Status]
    BY New
  <2>2. config \in Config /\ status \in Status
    BY New, ListenerAssumption
  <2> QED BY <2>1, <2>2 DEF Typed
<1>3. HandleInv /\ CopyInv /\ CleanInv
  BY <1>1 DEF HandleInv, CopyInv, CleanInv, Updating
<1>4. TruthInv
  BY <1>1, New DEF TruthInv, ThreadTruth, MainTruth
<1> QED BY <1>1, <1>2, <1>3, <1>4 DEF ListenerInv

(* Where main and the thread are, and what the status says there, whatever *)
(* commands and datagrams come.                                            *)
THEOREM ListenerInvariant == Spec => []ListenerInv
<1> QED BY ListenerStart, ListenerStep, PTL DEF Spec

(* What the status says is so, unless a stale copy of it was written or    *)
(* the thread panicked; and no copy gets stale before the first change of  *)
(* the configuration.                                                      *)
THEOREM StatusTells == Spec => []StatusTruthful
<1>1. ListenerInv => StatusTruthful
  <2> SUFFICES ASSUME ListenerInv PROVE StatusTruthful
    OBVIOUS
  <2>1. lost => updates > 0
    BY DEF ListenerInv, CleanInv, Typed
  <2>2. ASSUME AtRest, ~lost, thread # "panicked"
        PROVE  /\ status.config = config
               /\ thread = "none" => status.state \in {"stopped", "error"}
               /\ thread = "ended" => status.state = "error"
               /\ thread \in {"loop", "recv"} =>
                    /\ status.state \in {"listening", "receiving"}
                    /\ status.state = "receiving" => status.total > 0
                    /\ status.total = received
    <3>1. Now = "idle" /\ ~stop
      BY <2>2 DEF AtRest, Now, ListenerInv, HandleInv
    <3> QED
      BY <2>2, <3>1 DEF ListenerInv, TruthInv, ThreadTruth, MainTruth, Runs
  <2> QED BY <2>1, <2>2 DEF StatusTruthful
<1> QED BY <1>1, ListenerInvariant, PTL

-----------------------------------------------------------------------------
(* What the user interface shows.                                          *)

UiParts == VersionInv /\ UiInv /\ Told

LEMMA Older ==
    ASSUME NEW s \in Status, NEW old \in Status, NEW last \in Status,
           AtMost(s, old), last.version = old.version + 1
    PROVE  AtMost(s, last) /\ s.version # last.version
BY StatusFields DEF AtMost

LEMMA Itself == ASSUME NEW s \in Status PROVE AtMost(s, s)
BY StatusFields DEF AtMost

LEMMA InEvents ==
    ASSUME Typed, NEW s \in Source
    PROVE  events[s] \in Seq(Status) /\ \A e \in In(events[s]) : e \in Status
BY DEF Typed, In

LEMMA InResponses ==
    ASSUME Typed
    PROVE  \A r \in In(responses) : r \in Answer /\ (r.status # Failed => r.status \in Status)
<1>1. \A r \in In(responses) : r \in Answer
  BY DEF Typed, In
<1> QED BY <1>1 DEF Answer

(* Steps that tell nothing and change nothing that is told.                *)
LEMMA Quiet ==
    ASSUME UiParts, UNCHANGED <<status, events, missed, responses, ui, newest, stale>>,
           thread' = "emit" <=> thread = "emit",
           thread = "emit" => copy'["thread"] = copy["thread"],
           Now' = "emit" => Now = "emit" /\ copy'["main"] = copy["main"],
           Due => Due'
    PROVE  UiParts'
<1> USE DEF UiParts
<1>1. VersionInv'
  BY DEF VersionInv
<1>2. UiInv'
  BY DEF UiInv
<1>3. Told'
  BY DEF Told
<1> QED BY <1>1, <1>2, <1>3

(* What an emission adds to the events, of a status that is not too new.   *)
LEMMA Emitted ==
    ASSUME Typed, NEW s \in Source, NEW w \in Status, Emit(s, w)
    PROVE  /\ \A t \in Source : \A e \in In(events'[t]) : e \in In(events[t]) \/ e = w
           /\ \A t \in Source : \A e \in In(events[t]) : e \in In(events'[t])
           /\ bound => w \in In(events'[s])
           /\ ~bound => missed' = w.version
           /\ bound => missed' = missed
<1>1. events[s] \in Seq(Status) /\ events \in [Source -> Seq(Status)]
  BY DEF Typed
<1>2. In(Append(events[s], w)) = In(events[s]) \cup {w}
  BY <1>1, InAppend
<1>3. CASE bound
  <2>1. events' = [events EXCEPT ![s] = Append(@, w)] /\ missed' = missed
    BY <1>3 DEF Emit
  <2>2. events'[s] = Append(events[s], w) /\ \A t \in Source \ {s} : events'[t] = events[t]
    BY <1>1, <2>1
  <2>3. In(events'[s]) = In(events[s]) \cup {w}
    BY <1>2, <2>2
  <2>4. ASSUME NEW t \in Source
        PROVE  /\ \A e \in In(events'[t]) : e \in In(events[t]) \/ e = w
               /\ \A e \in In(events[t]) : e \in In(events'[t])
    <3>1. CASE t = s
      BY <2>3, <3>1
    <3>2. CASE t # s
      BY <2>2, <3>2
    <3> QED BY <3>1, <3>2
  <2> QED BY <1>3, <2>1, <2>3, <2>4
<1>4. CASE ~bound
  <2>1. events' = events /\ missed' = w.version
    BY <1>4 DEF Emit
  <2> QED BY <1>4, <2>1
<1> QED BY <1>3, <1>4

(* A new status makes everything that is on its way older.                 *)
LEMMA NewVersion ==
    ASSUME Typed, VersionInv, UiInv, status' \in Status,
           status'.version = status.version + 1,
           \A t \in Source : \A e \in In(events'[t]) : e \in In(events[t]) \/ e = status',
           \A r \in In(responses') : r \in In(responses) \/ r.status = Failed,
           UNCHANGED <<ui, newest, stale>>,
           thread' = "emit" =>
               \/ copy'["thread"] = status'
               \/ thread = "emit" /\ copy'["thread"] = copy["thread"],
           Now' = "emit" =>
               \/ copy'["main"] = status'
               \/ Now = "emit" /\ copy'["main"] = copy["main"]
    PROVE  VersionInv' /\ UiInv'
<1>1. status \in Status /\ copy["thread"] \in Status /\ copy["main"] \in Status
  BY DEF Typed, Source
<1>2. PICK last \in Status : last = status'
  OBVIOUS
<1>3. \A s \in Status : AtMost(s, status) => AtMost(s, last)
  BY <1>1, <1>2, Older
<1>4. AtMost(last, last)
  BY Itself
<1>5. thread' = "emit" => AtMost(copy'["thread"], last)
  BY <1>1, <1>2, <1>3, <1>4 DEF VersionInv
<1>6. Now' = "emit" => AtMost(copy'["main"], last)
  BY <1>1, <1>2, <1>3, <1>4 DEF VersionInv
<1>7. \A t \in Source : \A e \in In(events'[t]) : AtMost(e, last)
  BY <1>2, <1>3, <1>4, InEvents DEF VersionInv
<1>8. \A r \in In(responses') : r.status # Failed => AtMost(r.status, last)
  BY <1>3, InResponses DEF VersionInv
<1>9. VersionInv'
  BY <1>2, <1>5, <1>6, <1>7, <1>8 DEF VersionInv
<1>10. AtMost(ui, last) /\ newest <= last.version
  BY <1>1, <1>2, <1>3, StatusFields DEF UiInv
<1>11. UiInv'
  BY <1>2, <1>10 DEF UiInv
<1> QED BY <1>9, <1>11

(* A new status that is told at once, while there is no thread.            *)
LEMMA ToldAtOnce ==
    ASSUME Typed, VersionInv, UiInv, NEW state \in State, SetStatus(state),
           \A r \in In(responses') : r \in In(responses) \/ r.status = Failed,
           UNCHANGED <<ui, newest, stale>>, thread' # "emit", Now' # "emit"
    PROVE  UiParts'
<1>1. /\ status' \in Status /\ status'.version = status.version + 1
      /\ Emit("main", status') /\ bound' = bound
  BY SetStatusTyped
<1>2. "main" \in Source
  BY DEF Source
<1>3. PICK w \in Status : w = status'
  BY <1>1
<1>4. Emit("main", w)
  BY <1>1, <1>3
<1>5. /\ \A t \in Source : \A e \in In(events'[t]) : e \in In(events[t]) \/ e = status'
      /\ bound => status' \in In(events'["main"])
      /\ ~bound => missed' = status'.version
  BY <1>2, <1>3, <1>4, Emitted
<1>6. VersionInv' /\ UiInv'
  BY <1>1, <1>5, NewVersion
<1>7. Told'
  <2>1. CASE bound
    BY <1>2, <1>5, <2>1 DEF Told
  <2>2. CASE ~bound
    BY <1>5, <2>2 DEF Told
  <2> QED BY <2>1, <2>2
<1> QED BY <1>6, <1>7 DEF UiParts

(* Of the steps of main that tell nothing.                                 *)
LEMMA MainQuietParts ==
    ASSUME ListenerInv, UiParts, UNCHANGED uiVars,
           Take \/ Join \/ Store \/ SetConfig \/ MainCopies
    PROVE  UiParts'
<1> USE DEF ListenerInv, threadVars, channelVars, eventVars, historyVars, uiVars
<1>1. CASE Take
  <2>1. IsProgram(todo) /\ todo # <<>> /\ Head(todo) = "take"
    BY <1>1 DEF MainTyped, At, Take
  <2>2. /\ IsProgram(Tail(todo)) /\ Tail(todo) # <<>> /\ Head(Tail(todo)) = "join"
        /\ Tail(todo)[Len(Tail(todo))] = todo[Len(todo)]
    BY <2>1, ProgramTail DEF Follows
  <2> DEFINE t == Tail(Tail(todo))
  <2>3. /\ IsProgram(t) /\ t # <<>> /\ Head(t) = "stopped"
        /\ t[Len(t)] = Tail(todo)[Len(Tail(todo))]
    BY <2>2, ProgramTail DEF Follows
  <2>4. todo' = IF handle THEN Tail(todo) ELSE t
    BY <1>1 DEF Take
  <2> HIDE DEF t
  <2>5. /\ todo' # <<>> /\ Head(todo') \in {"join", "stopped"}
        /\ todo'[Len(todo')] = todo[Len(todo)]
    <3>1. CASE handle
      BY <2>2, <2>4, <3>1
    <3>2. CASE ~handle
      BY <2>2, <2>3, <2>4, <3>2
    <3> QED BY <3>1, <3>2
  <2>6. Now' # "emit" /\ (Due => Due')
    BY <2>5 DEF Now, Due
  <2> QED BY <1>1, <2>6, Quiet DEF Take
<1>2. CASE Join
  <2>1. thread # "emit" /\ thread' # "emit" /\ Now' # "emit" /\ (Due => Due')
    BY <1>2, Proceeds DEF Join, Follows, Step
  <2> QED BY <1>2, <2>1, Quiet DEF Join
<1>3. CASE Store
  <2>1. Now' # "emit" /\ (Due => Due')
    BY <1>3, Proceeds DEF Store, Follows, Step
  <2> QED BY <1>3, <2>1, Quiet DEF Store
<1>4. CASE SetConfig
  <2>1. Now' # "emit" /\ (Due => Due')
    BY <1>4, Proceeds DEF SetConfig, Follows, Step
  <2> QED BY <1>4, <2>1, Quiet DEF SetConfig
<1>5. CASE MainCopies
  <2>1. Now' # "emit" /\ (Due => Due')
    BY <1>5, Proceeds DEF MainCopies, Follows, Step
  <2>2. copy'["thread"] = copy["thread"]
    BY <1>5 DEF MainCopies, Typed, Source
  <2> QED BY <1>5, <2>1, <2>2, Quiet DEF MainCopies
<1> QED BY <1>1, <1>2, <1>3, <1>4, <1>5

(* The statuses that main sets while there is no thread.                   *)
LEMMA PublishParts ==
    ASSUME ListenerInv, UiParts, UNCHANGED uiVars, Publish
    PROVE  UiParts'
<1>1. /\ \E state \in State : SetStatus(state)
      /\ Now \in {"stopped", "connecting"} /\ Now' # "emit"
  BY Proceeds DEF Publish, Follows, Step, State, ListenerInv
<1>2. thread' # "emit"
  BY <1>1 DEF Publish, ListenerInv, HandleInv, threadVars
<1> QED
  BY <1>1, <1>2, ToldAtOnce DEF Publish, UiParts, ListenerInv, uiVars

LEMMA BindParts ==
    ASSUME ListenerInv, UiParts, UNCHANGED uiVars, Bind
    PROVE  UiParts'
<1> USE DEF ListenerInv, threadVars, channelVars, eventVars, historyVars, uiVars
<1>1. Now = "bind" /\ thread = "none"
  BY DEF Bind, At, Now, HandleInv
<1>2. CASE thread' = "config" /\ Proceed /\ UNCHANGED <<status, channelVars>>
  <2>1. Now' # "emit" /\ (Due => Due')
    BY <1>2, Proceeds DEF Bind, Follows, Step
  <2> QED BY <1>1, <1>2, <2>1, Quiet DEF Bind
<1>3. CASE /\ SetStatus("error") /\ todo' = <<>> /\ UNCHANGED threadVars
           /\ responses' = IF todo[Len(todo)] = "respond" THEN Answered(Failed)
                           ELSE responses
  <2>1. Now' # "emit" /\ thread' # "emit" /\ "error" \in State
    BY <1>1, <1>3 DEF Now, State
  <2>2. \A r \in In(responses') : r \in In(responses) \/ r.status = Failed
    <3> DEFINE a == [to |-> "respond", status |-> Failed]
    <3>1. CASE todo[Len(todo)] = "respond"
      <4>1. responses' = Append(responses, a)
        BY <1>3, <3>1 DEF Answered
      <4>2. a \in Answer /\ a.status = Failed
        BY DEF Answer, Step
      <4> HIDE DEF a
      <4>3. In(responses') = In(responses) \cup {a}
        BY <4>1, <4>2, InAppend DEF Typed
      <4> QED BY <4>2, <4>3
    <3>2. CASE todo[Len(todo)] # "respond"
      BY <1>3, <3>2
    <3> QED BY <3>1, <3>2
  <2> QED BY <1>3, <2>1, <2>2, ToldAtOnce DEF UiParts
<1> QED BY <1>2, <1>3 DEF Bind

(* An answer carries the status as it is.                                  *)
LEMMA RespondParts ==
    ASSUME ListenerInv, UiParts, UNCHANGED uiVars, Respond
    PROVE  UiParts'
<1> USE DEF ListenerInv, threadVars, channelVars, eventVars, historyVars, uiVars
<1>1. Now' # "emit"
  BY Proceeds DEF Respond, Follows, Step
<1>2. PICK a \in Answer : a.status = status /\ responses' = Append(responses, a)
  <2>1. todo[Len(todo)] \in Step
    BY DEF MainTyped, IsProgram, Respond, At
  <2>2. [to |-> todo[Len(todo)], status |-> status] \in Answer
    BY <2>1 DEF Answer, Typed
  <2> QED BY <2>2 DEF Respond, Answered
<1>3. In(responses') = In(responses) \cup {a}
  BY <1>2, InAppend DEF Typed
<1>4. UNCHANGED <<status, events, missed, ui, newest, stale, thread, copy>>
  BY DEF Respond
<1>5. AtMost(status, status)
  BY Itself DEF Typed
<1>6. VersionInv'
  BY <1>1, <1>2, <1>3, <1>4, <1>5 DEF UiParts, VersionInv
<1>7. UiInv'
  BY <1>4 DEF UiParts, UiInv
<1>8. Told'
  BY <1>2, <1>3, <1>4 DEF Told
<1> QED BY <1>6, <1>7, <1>8 DEF UiParts

(* A status is written, to be told next.                                   *)
LEMMA WriteParts ==
    ASSUME ListenerInv, ListenerInv', UiParts, UNCHANGED uiVars,
           MainWrites \/ ThreadWrites
    PROVE  UiParts'
<1> USE DEF ListenerInv, threadVars, channelVars, eventVars, historyVars, uiVars
<1>1. "main" \in Source /\ "thread" \in Source /\ status \in Status /\ status' \in Status
      /\ status.version \in Nat
  BY StatusFields DEF Source, Typed
<1>2. status'.version = status.version + 1
  <2>1. status.version + 1 \in Nat
    BY <1>1
  <2>2. PICK new \in Status : status' = [new EXCEPT !.version = status.version + 1]
    <3>1. copy["main"] \in Status
      BY <1>1 DEF Typed
    <3>2. ThreadWrites => Changed(copy["thread"]) \in Status
      BY ChangedFields
    <3> QED BY <3>1, <3>2 DEF MainWrites, ThreadWrites, WriteBack
  <2> QED BY <2>1, <2>2, Versioned
<1>3. CASE MainWrites
  <2>1. /\ Now' = "emit" /\ Due'
        /\ UNCHANGED <<thread, events, responses, missed, ui, newest, stale>>
    BY <1>3, Proceeds DEF MainWrites, Follows, Step, MainTyped, Updating
  <2>2. copy'["main"] = status' /\ copy'["thread"] = copy["thread"]
    BY <1>1, <1>3 DEF MainWrites, WriteBack, Typed
  <2>3. VersionInv' /\ UiInv'
    BY <1>1, <1>2, <2>1, <2>2, NewVersion DEF UiParts
  <2>4. Told'
    BY <2>1 DEF Told
  <2> QED BY <2>3, <2>4 DEF UiParts
<1>4. CASE ThreadWrites
  <2>1. /\ thread' = "emit" /\ Now' = Now
        /\ UNCHANGED <<events, responses, missed, ui, newest, stale>>
    BY <1>4, SameProgram DEF ThreadWrites, ThreadUnchanged
  <2>2. copy'["thread"] = status' /\ copy'["main"] = copy["main"]
    BY <1>1, <1>4 DEF ThreadWrites, WriteBack, Typed
  <2>3. VersionInv' /\ UiInv'
    BY <1>1, <1>2, <2>1, <2>2, NewVersion DEF UiParts
  <2>4. Told'
    BY <2>1, <2>2 DEF Told
  <2> QED BY <2>3, <2>4 DEF UiParts
<1> QED BY <1>3, <1>4

(* What was written is told: by then it may be old, but then the answer or *)
(* the other's event is still to come.                                     *)
LEMMA EmitParts ==
    ASSUME ListenerInv, UiParts, UNCHANGED uiVars,
           MainEmits \/ ThreadEmits
    PROVE  UiParts'
<1> USE DEF ListenerInv, threadVars, channelVars, eventVars, historyVars, uiVars
<1>1. /\ "main" \in Source /\ "thread" \in Source
      /\ copy["main"] \in Status /\ copy["thread"] \in Status
  BY DEF Source, Typed
<1>2. CASE MainEmits
  <2>1. Now = "emit" /\ Now' # "emit" /\ Due'
    BY <1>2, Proceeds DEF MainEmits, Follows, Step, MainTyped, Updating
  <2>2. UNCHANGED <<status, responses, thread, ui, newest, stale>>
        /\ copy'["thread"] = copy["thread"] /\ AtMost(copy["main"], status)
    BY <1>1, <1>2, <2>1 DEF MainEmits, Typed, UiParts, VersionInv
  <2>3. \A t \in Source : \A e \in In(events'[t]) : e \in In(events[t]) \/ e = copy["main"]
    BY <1>1, <1>2, Emitted DEF MainEmits
  <2>4. VersionInv'
    BY <2>1, <2>2, <2>3 DEF UiParts, VersionInv
  <2>5. UiInv' /\ Told'
    BY <2>1, <2>2 DEF UiParts, UiInv, Told
  <2> QED BY <2>4, <2>5 DEF UiParts
<1>3. CASE ThreadEmits
  <2>1. Now' = Now /\ Due' = Due
    BY <1>3, SameProgram DEF ThreadEmits, ThreadUnchanged
  <2>2. /\ UNCHANGED <<status, responses, ui, newest, stale>>
        /\ copy'["main"] = copy["main"] /\ AtMost(copy["thread"], status)
        /\ thread = "emit" /\ thread' # "emit"
    BY <1>1, <1>3 DEF ThreadEmits, ThreadUnchanged, Typed, UiParts, VersionInv
  <2>3. /\ \A t \in Source : \A e \in In(events'[t]) : e \in In(events[t]) \/ e = copy["thread"]
        /\ \A t \in Source : \A e \in In(events[t]) : e \in In(events'[t])
        /\ bound => copy["thread"] \in In(events'["thread"])
        /\ ~bound => missed' = copy["thread"].version
    BY <1>1, <1>3, Emitted DEF ThreadEmits
  <2>4. VersionInv'
    BY <2>1, <2>2, <2>3 DEF UiParts, VersionInv
  <2>5. UiInv'
    BY <2>2 DEF UiParts, UiInv
  <2>6. Told'
    <3>1. CASE copy["thread"].version = status.version
      BY <1>1, <2>2, <2>3, <3>1 DEF Told
    <3>2. CASE copy["thread"].version # status.version
      <4>1. \/ newest = status.version
            \/ \E s \in Source : \E e \in In(events[s]) : e.version = status.version
            \/ \E r \in In(responses) : r.status.version = status.version
            \/ Due
        BY <2>2, <3>2 DEF UiParts, Told
      <4> QED BY <2>1, <2>2, <2>3, <4>1 DEF Told
    <3> QED BY <3>1, <3>2
  <2> QED BY <2>4, <2>5, <2>6 DEF UiParts
<1> QED BY <1>2, <1>3

(* Of the steps of the thread that tell nothing.                           *)
LEMMA ThreadQuietParts ==
    ASSUME ListenerInv, UiParts, UNCHANGED uiVars,
           CopyConfig \/ CopyStatus \/ Loop \/ Packet \/ Timeout \/ ReceiveFails
    PROVE  UiParts'
<1> USE DEF eventVars, historyVars, uiVars, ThreadUnchanged
<1>1. UNCHANGED <<status, events, missed, responses, ui, newest, stale, todo>>
  BY DEF CopyConfig, CopyStatus, Loop, Packet, Timeout, ReceiveFails
<1>2. Now' = Now /\ Due' = Due
  BY <1>1, SameProgram DEF ListenerInv
<1>3. thread # "emit" /\ thread' # "emit"
  BY DEF CopyConfig, CopyStatus, Loop, Packet, Timeout, ReceiveFails
<1>4. copy'["main"] = copy["main"]
  BY DEF CopyConfig, CopyStatus, Loop, Packet, Timeout, ReceiveFails, ListenerInv,
         Typed, Source
<1> QED BY <1>1, <1>2, <1>3, <1>4, Quiet

(* What the user interface does but for listening.                         *)
LEMMA AskParts ==
    ASSUME ListenerInv, UiParts, Mount \/ BindListeners \/ Invoke
    PROVE  UiParts'
<1> USE DEF threadVars, channelVars, eventVars, historyVars, uiVars
<1>1. UNCHANGED <<status, events, missed, responses, ui, newest, stale, thread, copy>>
  BY DEF Mount, BindListeners, Invoke, get_app_state, start_dcsbios, stop_dcsbios,
         update_dcsbios_config, Command, Calls
<1>2. CASE BindListeners
  <2>1. Now' = Now /\ Due' = Due
    BY <1>2, SameProgram DEF BindListeners, ListenerInv
  <2> QED BY <1>1, <2>1, Quiet
<1>3. CASE Mount \/ Invoke
  <2>1. PICK s \in {<<"snapshot">>, Append(Start, "respond"), Append(Stop, "respond"),
                    Append(<<"config", "copy", "write", "emit">>, "respond")} : Calls(s)
    BY <1>3 DEF Mount, Invoke, get_app_state, start_dcsbios, stop_dcsbios,
                update_dcsbios_config, Command
  <2>2. s # <<>> /\ s[Len(s)] \in {"respond", "snapshot"}
        /\ Head(s) \in {"snapshot", "take", "config"}
    BY <2>1, Programs
  <2>3. Due' /\ Now' # "emit"
    BY <2>1, <2>2 DEF Calls, Due, Now
  <2> QED BY <1>1, <2>3, Quiet
<1> QED BY <1>2, <1>3

(* What arrives is shown, and is stale when a newer one was shown before.  *)
LEMMA Shown ==
    ASSUME UiInv, NEW s \in Status, AtMost(s, status), UNCHANGED status,
           status.version \in Nat,
           ui' = s, newest' = Later(s.version), stale' = (s.version < newest')
    PROVE  /\ UiInv'
           /\ newest = status.version \/ s.version = status.version =>
                newest' = status.version
<1>1. s.version \in Nat /\ s.version <= status.version
  BY StatusFields DEF AtMost
<1>2. /\ newest' \in Nat /\ s.version <= newest' /\ newest' <= status.version
      /\ newest = status.version \/ s.version = status.version => newest' = status.version
  BY <1>1 DEF UiInv, Later
<1>3. ~stale' => s.version = newest'
  <2>1. ASSUME s.version < newest' PROVE stale' = TRUE
    BY <2>1
  <2>2. ~stale' => ~(s.version < newest')
    BY <2>1
  <2>3. ~(s.version < newest') => s.version = newest'
    BY <1>1, <1>2
  <2> QED BY <2>2, <2>3
<1> QED BY <1>1, <1>2, <1>3 DEF UiInv

LEMMA ResponseParts ==
    ASSUME ListenerInv, UiParts, Response
    PROVE  UiParts'
<1> USE DEF threadVars, historyVars
<1>1. UNCHANGED <<status, copy, todo, thread, events, missed>> /\ responses # <<>>
  BY DEF Response, DeliverUnchanged
<1>2. Now' = Now /\ Due' = Due
  BY <1>1, SameProgram DEF ListenerInv
<1>3. PICK a : a = Head(responses)
  OBVIOUS
<1>4. a \in Answer /\ In(responses) = In(responses') \cup {a}
  BY <1>1, <1>3, InTail DEF Response, ListenerInv, Typed
<1>5. VersionInv'
  BY <1>1, <1>2, <1>4 DEF UiParts, VersionInv
<1>6. status.version \in Nat
  BY StatusFields DEF ListenerInv, Typed
<1>7. CASE a.status = Failed
  <2>1. UNCHANGED <<ui, newest, stale>> /\ a.status.version # status.version
    BY <1>3, <1>6, <1>7 DEF Response, Failed
  <2>2. UiInv' /\ Told'
    BY <1>1, <1>2, <1>4, <2>1 DEF UiParts, UiInv, Told
  <2> QED BY <1>5, <2>2 DEF UiParts
<1>8. CASE a.status # Failed
  <2>1. PICK s \in Status : s = a.status /\ AtMost(s, status)
    BY <1>4, <1>8 DEF Answer, UiParts, VersionInv
  <2>2. ui' = s /\ newest' = Later(s.version) /\ stale' = (s.version < newest')
    BY <1>3, <1>8, <2>1 DEF Response
  <2>3. /\ UiInv'
        /\ newest = status.version \/ s.version = status.version =>
             newest' = status.version
    BY <1>1, <1>6, <2>1, <2>2, Shown DEF UiParts
  <2>4. Told'
    BY <1>1, <1>2, <1>4, <2>1, <2>3 DEF UiParts, Told
  <2> QED BY <1>5, <2>3, <2>4 DEF UiParts
<1> QED BY <1>7, <1>8

LEMMA EventParts ==
    ASSUME ListenerInv, UiParts, Event
    PROVE  UiParts'
<1> USE DEF threadVars, historyVars
<1>1. UNCHANGED <<status, copy, todo, thread, responses, missed>>
  BY DEF Event, DeliverUnchanged
<1>2. Now' = Now /\ Due' = Due
  BY <1>1, SameProgram DEF ListenerInv
<1>3. PICK t \in Source : /\ events[t] # <<>>
                          /\ events' = [events EXCEPT ![t] = Tail(@)]
                          /\ ui' = Head(events[t])
  BY DEF Event
<1>4. PICK s : s = Head(events[t])
  OBVIOUS
<1>5. events[t] \in Seq(Status) /\ events \in [Source -> Seq(Status)]
  BY DEF ListenerInv, Typed
<1>6. s \in Status /\ In(events[t]) = In(events'[t]) \cup {s}
  BY <1>3, <1>4, <1>5, InTail
<1>7. \A u \in Source \ {t} : events'[u] = events[u]
  BY <1>3, <1>5
<1>8. \A u \in Source : \A e \in In(events'[u]) : e \in In(events[u])
  BY <1>6, <1>7
<1>9. \A u \in Source : \A e \in In(events[u]) : e \in In(events'[u]) \/ e = s
  BY <1>6, <1>7
<1>10. VersionInv'
  BY <1>1, <1>2, <1>8 DEF UiParts, VersionInv
<1>11. AtMost(s, status) /\ status.version \in Nat
  BY <1>6, StatusFields DEF UiParts, VersionInv, ListenerInv, Typed
<1>12. ui' = s /\ newest' = Later(s.version) /\ stale' = (s.version < newest')
  BY <1>3, <1>4 DEF Event
<1>13. /\ UiInv'
       /\ newest = status.version \/ s.version = status.version =>
            newest' = status.version
  BY <1>1, <1>6, <1>11, <1>12, Shown DEF UiParts
<1>14. Told'
  BY <1>1, <1>2, <1>9, <1>13 DEF UiParts, Told
<1> QED BY <1>10, <1>13, <1>14 DEF UiParts

LEMMA UiPartsStep ==
    ASSUME ListenerInv, ListenerInv', UiParts, [Next]_vars
    PROVE  UiParts'
<1>1. CASE MainStep /\ UNCHANGED uiVars
  BY <1>1, MainQuietParts, PublishParts, BindParts, RespondParts, WriteParts, EmitParts
  DEF MainStep
<1>2. CASE ThreadStep /\ UNCHANGED uiVars
  BY <1>2, ThreadQuietParts, WriteParts, EmitParts DEF ThreadStep
<1>3. CASE Mount \/ BindListeners \/ Invoke \/ Deliver
  BY <1>3, AskParts, ResponseParts, EventParts DEF Deliver
<1>4. CASE UNCHANGED vars
  <2>1. UNCHANGED <<status, events, missed, responses, ui, newest, stale, thread, copy,
                    todo>>
    BY <1>4
    DEF vars, listenerVars, uiVars, threadVars, channelVars, eventVars, historyVars
  <2>2. Now' = Now /\ Due' = Due
    BY <2>1, SameProgram DEF ListenerInv
  <2> QED BY <2>1, <2>2, Quiet
<1> QED BY <1>1, <1>2, <1>3, <1>4 DEF Next

(* A version names one status; what is on its way is not newer than the    *)
(* status, and the newest is on its way, has come or was told to nobody.   *)
THEOREM UiInvariant == Spec => [](ListenerInv /\ UiParts)
<1>1. Init => UiParts
  <2> SUFFICES ASSUME Init PROVE UiParts
    OBVIOUS
  <2> USE DEF Init, ListenerInit
  <2>1. Now # "emit"
    BY Programs DEF Now
  <2>2. \A s \in Source : In(events[s]) = {}
    BY InEmpty
  <2>3. VersionInv
    BY <2>1, <2>2, InEmpty DEF VersionInv
  <2>4. UiInv /\ Told
    <3>1. AtMost(NewStatus, NewStatus)
      BY New, Itself
    <3>2. /\ ui = NewStatus /\ status = NewStatus /\ newest = 0 /\ stale = FALSE
          /\ NewStatus.version = 0
      BY New
    <3>3. NewStatus \in Status
      BY New
    <3>4. AtMost(ui, status) /\ ui \in Status /\ newest = status.version
      BY <3>1, <3>2, <3>3
    <3>5. UiInv
      <4>1. ui.version = 0 /\ status.version = 0 /\ newest = 0
        BY <3>2
      <4> QED BY <3>2, <3>4, <4>1 DEF UiInv
    <3> QED BY <3>4, <3>5 DEF Told
  <2> QED BY <2>3, <2>4 DEF UiParts
<1>2. ListenerInv /\ UiParts /\ [Next]_vars => (ListenerInv /\ UiParts)'
  BY ListenerStep, UiPartsStep
<1> QED BY <1>1, <1>2, ListenerStart, PTL DEF Spec

(* At rest, with nothing on its way, the user sees the status as it is,    *)
(* unless what came last had been overtaken or the last was told to nobody. *)
THEOREM UiShows == Spec => []UiShowsStatus
<1>1. ListenerInv /\ UiParts => UiShowsStatus
  <2> SUFFICES ASSUME ListenerInv, UiParts, AtRest, responses = <<>>,
                      \A s \in Source : events[s] = <<>>,
                      ~stale, missed <= ui.version
               PROVE  ui = status
    BY DEF UiShowsStatus
  <2>1. thread # "emit" /\ ~Due
    BY DEF AtRest, Due
  <2>2. newest = status.version \/ missed = status.version
    BY <2>1, InEmpty DEF UiParts, Told
  <2>3. /\ AtMost(ui, status) /\ ui.version = newest
        /\ ui.version \in Nat /\ status.version \in Nat /\ missed \in Nat
    BY StatusFields DEF UiParts, UiInv, ListenerInv, Typed
  <2>4. ui.version = status.version
    BY <2>2, <2>3 DEF AtMost
  <2> QED BY <2>3, <2>4 DEF AtMost
<1> QED BY <1>1, UiInvariant, PTL

-----------------------------------------------------------------------------
(* The memory.  What a listener reads of an update and what it leaves in   *)
(* the memory are recursive functions of the bytes: here is why they have  *)
(* values, and what these are, by induction over the writes.               *)

LEMMA Joined ==
    ASSUME NEW T, NEW s \in Seq(T), NEW u \in Seq(T)
    PROVE  /\ s \o u \in Seq(T)
           /\ Len(s \o u) = Len(s) + Len(u) /\ Len(s) \in Nat /\ Len(u) \in Nat
           /\ \A i \in 1 .. Len(s) : (s \o u)[i] = s[i]
           /\ \A i \in 1 .. Len(u) : (s \o u)[Len(s) + i] = u[i]
OBVIOUS

(* Induction, with a set in place of a predicate. *)
LEMMA Induction ==
    ASSUME NEW S, 0 \in S, \A n \in Nat : n \in S => n + 1 \in S
    PROVE  \A n \in Nat : n \in S
<1> DEFINE T == Nat \ S
<1> SUFFICES ASSUME T # {} PROVE FALSE
  OBVIOUS
<1>1. PICK x \in T : \A y \in T : ~ (<<y, x>> \in OpToRel(<, Nat))
  BY Zenon, WFMin, NatLessThanWellFounded
<1>2. x \in Nat /\ x # 0
  OBVIOUS
<1>3. x - 1 \in Nat /\ x - 1 < x /\ (x - 1) + 1 = x
  BY <1>2
<1>4. x - 1 \notin T
  BY Zenon, <1>1, <1>2, <1>3 DEF OpToRel
<1> QED BY <1>2, <1>3, <1>4

LEMMA SameList ==
    ASSUME NEW T, NEW s \in Seq(T), NEW u \in Seq(T), Len(s) = Len(u),
           \A i \in 1 .. Len(s) : s[i] = u[i]
    PROVE  s = u
OBVIOUS

LEMMA Part ==
    ASSUME NEW T, NEW s \in Seq(T), NEW a \in Nat, NEW l \in Nat, a + l <= Len(s)
    PROVE  /\ SubSeq(s, a + 1, a + l) \in Seq(T)
           /\ Len(SubSeq(s, a + 1, a + l)) = l
           /\ \A i \in 1 .. l : SubSeq(s, a + 1, a + l)[i] = s[a + i]
<1>1. PICK n : n = Len(s) /\ n \in Nat
  OBVIOUS
<1>2. \A q \in a + 1 .. a + l : q \in 1 .. n
  BY <1>1
<1>3. \A q \in a + 1 .. a + l : s[q] \in T
  BY <1>1, <1>2
<1>4. SubSeq(s, a + 1, a + l) = [i \in 1 .. l |-> s[a + i]]
  <2>1. SubSeq(s, a + 1, a + l) = [i \in 1 .. (1 + (a + l) - (a + 1)) |-> s[i + (a + 1) - 1]]
    OBVIOUS
  <2>2. 1 + (a + l) - (a + 1) = l /\ \A i \in 1 .. l : i + (a + 1) - 1 = a + i
    OBVIOUS
  <2> QED BY <2>1, <2>2
<1>5. \A i \in 1 .. l : a + i \in a + 1 .. a + l
  OBVIOUS
<1>6. [i \in 1 .. l |-> s[a + i]] \in Seq(T)
  BY <1>3, <1>5
<1> QED BY <1>4, <1>6

(* What is done n times, each time to the outcome of the time before. *)
Iterates(f, T, n, start, step) ==
    /\ f \in [0 .. n -> T] /\ f[0] = start
    /\ \A k \in 1 .. n : f[k] = step[<<k, f[k - 1]>>]

LEMMA Iteration ==
    ASSUME NEW n \in Nat, NEW T, NEW start \in T, NEW step \in [(1 .. n) \X T -> T]
    PROVE  \E f : Iterates(f, T, n, start, step)
<1> DEFINE S == {m \in Nat : m <= n => \E f : Iterates(f, T, m, start, step)}
<1>1. 0 \in S
  <2>1. Iterates([k \in 0 .. 0 |-> start], T, 0, start, step)
    BY DEF Iterates
  <2> QED BY <2>1
<1>2. ASSUME NEW m \in Nat, m \in S PROVE m + 1 \in S
  <2> SUFFICES ASSUME m + 1 <= n
               PROVE  \E f : Iterates(f, T, m + 1, start, step)
    OBVIOUS
  <2>1. PICK f : Iterates(f, T, m, start, step)
    BY <1>2
  <2>2. m \in 0 .. m /\ m + 1 \in 1 .. n
    OBVIOUS
  <2>3. <<m + 1, f[m]>> \in (1 .. n) \X T
    BY <2>1, <2>2 DEF Iterates
  <2> DEFINE g == [k \in 0 .. m + 1 |-> IF k = m + 1 THEN step[<<m + 1, f[m]>>] ELSE f[k]]
  <2>4. g \in [0 .. m + 1 -> T]
    BY <2>1, <2>3 DEF Iterates
  <2>5. g[0] = start
    BY <2>1 DEF Iterates
  <2>6. ASSUME NEW k \in 1 .. m + 1 PROVE g[k] = step[<<k, g[k - 1]>>]
    <3>1. g[k - 1] = f[k - 1]
      <4>1. k - 1 \in 0 .. m + 1 /\ k - 1 # m + 1
        OBVIOUS
      <4> QED BY <4>1
    <3>2. CASE k = m + 1
      <4>1. k - 1 = m /\ g[k] = step[<<m + 1, f[m]>>]
        BY <3>2
      <4> HIDE DEF g
      <4> QED BY <3>1, <3>2, <4>1
    <3>3. CASE k # m + 1
      <4>1. k \in 1 .. m /\ g[k] = f[k]
        BY <3>3
      <4> QED BY <2>1, <3>1, <4>1 DEF Iterates
    <3> QED BY <3>2, <3>3
  <2> HIDE DEF g
  <2>7. Iterates(g, T, m + 1, start, step)
    BY <2>4, <2>5, <2>6 DEF Iterates
  <2> QED BY <2>7
<1> HIDE DEF S
<1>3. n \in S
  BY <1>1, <1>2, Induction
<1> QED BY <1>3 DEF S

-----------------------------------------------------------------------------
LEMMA ReceiveFields ==
    ASSUME NEW w \in Receive
    PROVE  /\ w.address \in Word /\ w.data \in Seq(Byte) /\ Len(w.data) \in Word
           /\ w = [address |-> w.address, data |-> w.data]
           /\ w.address \in Nat /\ Len(w.data) \in Nat /\ End(w) \in Nat
<1>1. w \in [address : Word, data : Seq(Byte)] /\ Len(w.data) \in Word
  BY DEF Receive
<1>2. w.address \in Word /\ w.data \in Seq(Byte)
  BY <1>1
<1>3. w = [address |-> w.address, data |-> w.data]
  BY <1>1
<1>4. \A x \in Word : x \in Nat
  BY DEF Word
<1> QED BY <1>1, <1>2, <1>3, <1>4 DEF End

LEMMA Halves ==
    ASSUME NEW x \in Word
    PROVE  x % 256 \in Byte /\ x \div 256 \in Byte /\ (x % 256) + 256 * (x \div 256) = x
BY DEF Word, Byte

LEMMA EncodedBytes ==
    ASSUME NEW w \in Receive
    PROVE  /\ Encoded(w) \in Seq(Byte)
           /\ Len(Encoded(w)) = 4 + Len(w.data)
           /\ Encoded(w)[1] + 256 * Encoded(w)[2] = w.address
           /\ Encoded(w)[3] + 256 * Encoded(w)[4] = Len(w.data)
           /\ \A i \in 1 .. Len(w.data) : Encoded(w)[4 + i] = w.data[i]
<1>1. /\ w.address \in Word /\ w.data \in Seq(Byte) /\ Len(w.data) \in Word
  BY ReceiveFields
<1>2. PICK a \in Byte, b \in Byte, c \in Byte, d \in Byte :
        /\ a = w.address % 256 /\ b = w.address \div 256
        /\ c = Len(w.data) % 256 /\ d = Len(w.data) \div 256
  BY <1>1, Halves
<1>3. a + 256 * b = w.address /\ c + 256 * d = Len(w.data)
  BY <1>1, <1>2, Halves
<1>4. PICK h : h = <<a, b, c, d>>
  OBVIOUS
<1>5. /\ h \in Seq(Byte) /\ Len(h) = 4
      /\ h[1] = a /\ h[2] = b /\ h[3] = c /\ h[4] = d
  BY <1>4
<1>6. Encoded(w) = h \o w.data
  BY <1>2, <1>4 DEF Encoded
<1>7. /\ h \o w.data \in Seq(Byte)
      /\ Len(h \o w.data) = 4 + Len(w.data)
      /\ \A i \in 1 .. 4 : (h \o w.data)[i] = h[i]
      /\ \A i \in 1 .. Len(w.data) : (h \o w.data)[4 + i] = w.data[i]
  BY <1>1, <1>5, Joined
<1>8. 1 \in 1 .. 4 /\ 2 \in 1 .. 4 /\ 3 \in 1 .. 4 /\ 4 \in 1 .. 4
  OBVIOUS
<1> QED BY <1>3, <1>5, <1>6, <1>7, <1>8

(* The recursion of UpTo has a solution.                                   *)
IsUpTo(u, ws) ==
    /\ u \in [0 .. Len(ws) -> Seq(Byte)] /\ u[0] = Sync
    /\ \A k \in 1 .. Len(ws) : u[k] = u[k - 1] \o Encoded(ws[k])

LEMMA Prefixes ==
    ASSUME NEW ws \in Seq(Receive)
    PROVE  IsUpTo(UpTo(ws), ws)
<1> DEFINE step == [p \in (1 .. Len(ws)) \X Seq(Byte) |-> p[2] \o Encoded(ws[p[1]])]
           rhs(f) == [k \in 0 .. Len(ws) |-> IF k = 0 THEN Sync ELSE f[k - 1] \o Encoded(ws[k])]
<1>1. Sync \in Seq(Byte) /\ Len(ws) \in Nat
  BY DEF Sync, Byte
<1>2. ASSUME NEW k \in 1 .. Len(ws), NEW s \in Seq(Byte)
      PROVE  s \o Encoded(ws[k]) \in Seq(Byte)
  <2>1. Encoded(ws[k]) \in Seq(Byte)
    BY EncodedBytes
  <2> QED BY <2>1, Joined
<1>3. step \in [(1 .. Len(ws)) \X Seq(Byte) -> Seq(Byte)]
  BY <1>2
<1>4. \A k \in 1 .. Len(ws), s \in Seq(Byte) : step[<<k, s>>] = s \o Encoded(ws[k])
  OBVIOUS
<1> HIDE DEF step
<1>5. PICK f : Iterates(f, Seq(Byte), Len(ws), Sync, step)
  BY <1>1, <1>3, Iteration
<1>6. IsUpTo(f, ws)
  <2>1. f \in [0 .. Len(ws) -> Seq(Byte)] /\ f[0] = Sync
    BY <1>5 DEF Iterates
  <2>2. ASSUME NEW k \in 1 .. Len(ws) PROVE f[k] = f[k - 1] \o Encoded(ws[k])
    <3>1. k - 1 \in 0 .. Len(ws)
      BY <1>1
    <3>2. f[k - 1] \in Seq(Byte)
      BY <2>1, <3>1
    <3>3. f[k] = step[<<k, f[k - 1]>>]
      BY <1>5 DEF Iterates
    <3> QED BY <1>4, <3>2, <3>3
  <2> QED BY <2>1, <2>2 DEF IsUpTo
<1>7. f = rhs(f)
  BY <1>6 DEF IsUpTo
<1>8. UpTo(ws) = CHOOSE g : g = rhs(g)
  BY DEF UpTo
<1>9. UpTo(ws) = rhs(UpTo(ws))
  BY <1>7, <1>8
<1> DEFINE u == UpTo(ws)
<1> HIDE DEF u
<1>10. u = rhs(u)
  BY <1>9 DEF u
<1>11. DOMAIN u = 0 .. Len(ws) /\ u[0] = Sync
  BY <1>10, <1>1
<1>12. \A k \in 1 .. Len(ws) : u[k] = u[k - 1] \o Encoded(ws[k])
  BY <1>10, <1>1
<1> HIDE DEF rhs
<1> DEFINE S == {k \in Nat : k <= Len(ws) => u[k] \in Seq(Byte)}
<1>13. 0 \in S
  BY <1>1, <1>11
<1>14. ASSUME NEW k \in Nat, k \in S PROVE k + 1 \in S
  <2> SUFFICES ASSUME k + 1 <= Len(ws) PROVE u[k + 1] \in Seq(Byte)
    OBVIOUS
  <2>1. u[k] \in Seq(Byte) /\ k + 1 \in 1 .. Len(ws) /\ (k + 1) - 1 = k
    BY <1>1, <1>14
  <2>2. u[k + 1] = u[k] \o Encoded(ws[k + 1])
    BY <1>12, <2>1
  <2> QED BY <2>1, <2>2, <1>2
<1> HIDE DEF S
<1>15. \A k \in Nat : k \in S
  BY <1>13, <1>14, Induction
<1>16. \A k \in 0 .. Len(ws) : u[k] \in Seq(Byte)
  BY <1>1, <1>15 DEF S
<1>17. u = [k \in 0 .. Len(ws) |-> u[k]]
  BY <1>10 DEF rhs
<1>18. u \in [0 .. Len(ws) -> Seq(Byte)]
  BY <1>16, <1>17
<1>19. IsUpTo(u, ws)
  BY <1>11, <1>12, <1>18 DEF IsUpTo
<1> QED BY <1>19 DEF u

(* A start of an update that ends with its k-th write is a start of every  *)
(* longer one, and its next write follows.                                 *)
LEMMA Contains ==
    ASSUME NEW ws \in Seq(Receive), NEW u, IsUpTo(u, ws), NEW m \in 0 .. Len(ws)
    PROVE  \A k \in 0 .. m :
             /\ Len(u[k]) <= Len(u[m])
             /\ \A i \in 1 .. Len(u[k]) : u[m][i] = u[k][i]
<1> DEFINE S == {n \in Nat : n <= Len(ws) =>
                   \A k \in 0 .. n :
                     /\ Len(u[k]) <= Len(u[n])
                     /\ \A i \in 1 .. Len(u[k]) : u[n][i] = u[k][i]}
<1>1. Len(ws) \in Nat /\ \A k \in 0 .. Len(ws) : u[k] \in Seq(Byte) /\ Len(u[k]) \in Nat
  BY DEF IsUpTo
<1>2. 0 \in S
  BY <1>1
<1>3. ASSUME NEW n \in Nat, n \in S PROVE n + 1 \in S
  <2> SUFFICES ASSUME n + 1 <= Len(ws), NEW k \in 0 .. n + 1
               PROVE  /\ Len(u[k]) <= Len(u[n + 1])
                      /\ \A i \in 1 .. Len(u[k]) : u[n + 1][i] = u[k][i]
    OBVIOUS
  <2>1. n + 1 \in 1 .. Len(ws) /\ n \in 0 .. Len(ws) /\ (n + 1) - 1 = n
    BY <1>1
  <2>2. u[n + 1] = u[n] \o Encoded(ws[n + 1])
    BY <2>1 DEF IsUpTo
  <2>3. ws[n + 1] \in Receive
    BY <2>1
  <2>4. Encoded(ws[n + 1]) \in Seq(Byte) /\ u[n] \in Seq(Byte)
    BY <2>1, <2>3, <1>1, EncodedBytes
  <2>5. /\ Len(u[n]) <= Len(u[n + 1])
        /\ \A i \in 1 .. Len(u[n]) : u[n + 1][i] = u[n][i]
    <3>1. PICK s, e, r : s = u[n] /\ e = Encoded(ws[n + 1]) /\ r = u[n + 1]
      OBVIOUS
    <3>2. s \in Seq(Byte) /\ e \in Seq(Byte) /\ r = s \o e
      BY <2>2, <2>4, <3>1
    <3>3. Len(s) <= Len(r) /\ \A i \in 1 .. Len(s) : r[i] = s[i]
      BY <3>2
    <3> QED BY <3>1, <3>3
  <2>6. CASE k = n + 1
    BY <2>1, <2>6, <1>1
  <2>7. CASE k # n + 1
    <3>1. k \in 0 .. n /\ k \in 0 .. Len(ws)
      BY <2>1, <2>7
    <3>2. /\ Len(u[k]) <= Len(u[n])
          /\ \A i \in 1 .. Len(u[k]) : u[n][i] = u[k][i]
      BY <1>3, <2>1, <3>1
    <3>3. Len(u[k]) \in Nat /\ Len(u[n]) \in Nat /\ Len(u[n + 1]) \in Nat
      BY <1>1, <2>1, <3>1
    <3> QED BY <2>5, <3>2, <3>3
  <2> QED BY <2>6, <2>7
<1> HIDE DEF S
<1>4. \A n \in Nat : n \in S
  BY <1>2, <1>3, Induction
<1> QED BY <1>1, <1>4 DEF S

LEMMA NextWrite ==
    ASSUME NEW ws \in Seq(Receive), NEW u, IsUpTo(u, ws), NEW k \in 1 .. Len(ws)
    PROVE  /\ Len(u[k - 1]) \in Nat /\ Len(u[k]) \in Nat /\ Len(u[k - 1]) >= 4
           /\ Len(u[k]) = Len(u[k - 1]) + 4 + Len(ws[k].data)
           /\ Len(u[k]) <= Len(u[Len(ws)])
           /\ \A i \in 1 .. 4 + Len(ws[k].data) :
                u[Len(ws)][Len(u[k - 1]) + i] = Encoded(ws[k])[i]
<1>1. Len(ws) \in Nat /\ k \in 0 .. Len(ws) /\ k - 1 \in 0 .. Len(ws) /\ Len(ws) \in 0 .. Len(ws)
      /\ 0 \in 0 .. k - 1
  OBVIOUS
<1>2. u[k] \in Seq(Byte) /\ u[k - 1] \in Seq(Byte) /\ ws[k] \in Receive
  BY <1>1 DEF IsUpTo
<1>3. u[k] = u[k - 1] \o Encoded(ws[k])
  BY DEF IsUpTo
<1>4. Encoded(ws[k]) \in Seq(Byte) /\ Len(Encoded(ws[k])) = 4 + Len(ws[k].data)
  BY <1>2, EncodedBytes
<1>6. Len(ws[k].data) \in Nat
  BY <1>2, ReceiveFields
<1>5. /\ Len(u[k - 1]) \in Nat /\ Len(u[k]) \in Nat
      /\ Len(u[k]) = Len(u[k - 1]) + 4 + Len(ws[k].data)
      /\ \A i \in 1 .. 4 + Len(ws[k].data) : u[k][Len(u[k - 1]) + i] = Encoded(ws[k])[i]
  <2>1. PICK s, e, r, n : /\ s = u[k - 1] /\ e = Encoded(ws[k]) /\ r = u[k]
                          /\ n = Len(ws[k].data)
    OBVIOUS
  <2>2. /\ s \in Seq(Byte) /\ e \in Seq(Byte) /\ r = s \o e
        /\ n \in Nat /\ Len(e) = 4 + n
    BY <1>2, <1>3, <1>4, <1>6, <2>1
  <2>3. /\ Len(s) \in Nat /\ Len(r) \in Nat /\ Len(r) = Len(s) + 4 + n
        /\ \A i \in 1 .. 4 + n : r[Len(s) + i] = e[i]
    <3>1. /\ Len(s) \in Nat /\ Len(e) \in Nat /\ Len(s \o e) = Len(s) + Len(e)
          /\ \A i \in 1 .. Len(e) : (s \o e)[Len(s) + i] = e[i]
      <4>1. s \in Seq(Byte) /\ e \in Seq(Byte)
        BY <2>2
      <4> QED BY <4>1, Joined
    <3> QED BY <2>2, <3>1
  <2> QED BY <2>1, <2>3
<1>7. /\ Len(u[k]) <= Len(u[Len(ws)])
      /\ \A i \in 1 .. Len(u[k]) : u[Len(ws)][i] = u[k][i]
  BY <1>1, Contains
<1>8. Len(u[0]) <= Len(u[k - 1])
  BY <1>1, Contains
<1>9. Len(u[0]) = 4
  BY DEF IsUpTo, Sync
<1>10. ASSUME NEW i \in 1 .. 4 + Len(ws[k].data)
       PROVE  u[Len(ws)][Len(u[k - 1]) + i] = Encoded(ws[k])[i]
  <2>1. PICK p, q, n : p = Len(u[k - 1]) /\ q = Len(u[k]) /\ n = Len(ws[k].data)
    OBVIOUS
  <2>2. i \in 1 .. 4 + n
    BY <2>1
  <2>5. p \in Nat /\ n \in Nat /\ q = p + 4 + n
    BY <1>5, <1>6, <2>1
  <2>3. p + i \in 1 .. q
    BY <2>2, <2>5
  <2>4. Len(u[k - 1]) + i \in 1 .. Len(u[k])
    BY <2>1, <2>3
  <2> QED BY <1>5, <1>7, <2>4
<1>11. Len(u[k - 1]) >= 4
  BY <1>5, <1>8, <1>9
<1> QED BY <1>5, <1>7, <1>10, <1>11

-----------------------------------------------------------------------------
(* The recursion of Writes has a solution.                                 *)
IsFrom(f, d, first) ==
    \A k \in first .. Len(d) + 1 :
        f[k] = IF ~IsWrite(d, k) THEN <<>>
               ELSE <<WriteAt(d, k)>> \o f[k + 4 + WordAt(d, k + 2)]

LEMMA GoesOn ==
    ASSUME NEW d \in Seq(Byte), NEW k \in 5 .. Len(d) + 1, IsWrite(d, k)
    PROVE  /\ k + 4 + WordAt(d, k + 2) \in k + 1 .. Len(d) + 1
           /\ WordAt(d, k + 2) \in Nat
<1>1. Len(d) \in Nat /\ \A i \in 1 .. Len(d) : d[i] \in Nat
  <2>1. Len(d) \in Nat /\ \A i \in 1 .. Len(d) : d[i] \in Byte
    OBVIOUS
  <2>2. \A x \in Byte : x \in Nat
    BY DEF Byte
  <2> QED BY <2>1, <2>2
<1>2. PICK n : n = WordAt(d, k + 2)
  OBVIOUS
<1>3. k + 3 <= Len(d)
  BY DEF IsWrite
<1>4. k + 2 \in 1 .. Len(d) /\ k + 3 \in 1 .. Len(d) /\ (k + 2) + 1 = k + 3
  BY <1>1, <1>3
<1>5. n \in Nat
  BY <1>1, <1>2, <1>4 DEF WordAt
<1>6. k + 3 + n <= Len(d)
  BY <1>2 DEF IsWrite
<1>7. k + 4 + n \in k + 1 .. Len(d) + 1
  BY <1>1, <1>5, <1>6
<1> QED BY <1>2, <1>5, <1>7

LEMMA FromExists ==
    ASSUME NEW d \in Seq(Byte), Len(d) >= 4
    PROVE  \E f : IsFrom(f, d, 5)
<1>1. Len(d) \in Nat
  OBVIOUS
<1> DEFINE S == {m \in Nat : m + 3 <= Len(d) => \E f : IsFrom(f, d, Len(d) + 2 - m)}
<1>2. 0 \in S
  <2>1. \A k \in Len(d) + 2 .. Len(d) + 1 : FALSE
    BY <1>1
  <2>2. IsFrom(<<>>, d, Len(d) + 2)
    BY <2>1 DEF IsFrom
  <2>3. Len(d) + 2 - 0 = Len(d) + 2
    BY <1>1
  <2> QED BY <2>2, <2>3
<1>3. ASSUME NEW m \in Nat, m \in S PROVE m + 1 \in S
  <2> SUFFICES ASSUME m + 1 + 3 <= Len(d)
               PROVE  \E f : IsFrom(f, d, Len(d) + 2 - (m + 1))
    OBVIOUS
  <2>1. m + 3 <= Len(d)
    BY <1>1
  <2>2. PICK f : IsFrom(f, d, Len(d) + 2 - m)
    BY <1>3, <2>1
  <2>3. PICK p : p = Len(d) + 2 - (m + 1)
    OBVIOUS
  <2>4. p \in 5 .. Len(d) + 1 /\ Len(d) + 2 - m = p + 1 /\ p \in Nat
    BY <1>1, <2>3
  <2> DEFINE at(F, k) == IF ~IsWrite(d, k) THEN <<>>
                         ELSE <<WriteAt(d, k)>> \o F[k + 4 + WordAt(d, k + 2)]
             g == [k \in p .. Len(d) + 1 |-> IF k = p THEN at(f, p) ELSE f[k]]
  <2>5. ASSUME NEW k \in p .. Len(d) + 1 PROVE at(g, k) = at(f, k)
    <3>1. CASE ~IsWrite(d, k)
      BY <3>1
    <3>2. CASE IsWrite(d, k)
      <4>1. k \in 5 .. Len(d) + 1
        BY <1>1, <2>4
      <4>2. PICK j : j = k + 4 + WordAt(d, k + 2)
        OBVIOUS
      <4>3. j \in k + 1 .. Len(d) + 1
        BY <3>2, <4>1, <4>2, GoesOn
      <4>4. j \in p .. Len(d) + 1 /\ j # p
        BY <1>1, <2>4, <4>3
      <4>5. g[j] = f[j]
        BY <4>4
      <4> HIDE DEF g
      <4> QED BY <3>2, <4>2, <4>5
    <3> QED BY <3>1, <3>2
  <2>6. ASSUME NEW k \in p .. Len(d) + 1 PROVE g[k] = at(g, k)
    <3>1. CASE k = p
      BY <2>5, <3>1
    <3>2. CASE k # p
      <4>1. k \in p + 1 .. Len(d) + 1
        BY <1>1, <2>4, <3>2
      <4>2. f[k] = at(f, k)
        BY <2>2, <2>4, <4>1 DEF IsFrom
      <4>3. g[k] = f[k]
        BY <3>2
      <4> QED BY <2>5, <4>2, <4>3
    <3> QED BY <3>1, <3>2
  <2>7. IsFrom(g, d, p)
    BY <2>6 DEF IsFrom
  <2> QED BY <2>3, <2>7
<1> HIDE DEF S
<1>4. PICK m : m = Len(d) - 3
  OBVIOUS
<1>5. m \in Nat /\ m + 3 <= Len(d) /\ Len(d) + 2 - m = 5
  BY <1>1, <1>4
<1>6. m \in S
  BY <1>2, <1>3, <1>5, Induction
<1>7. \E f : IsFrom(f, d, Len(d) + 2 - m)
  BY <1>5, <1>6 DEF S
<1> QED BY <1>5, <1>7

LEMMA WritesFollow ==
    ASSUME NEW d \in Seq(Byte), Len(d) >= 4, SubSeq(d, 1, 4) = Sync
    PROVE  \E f : IsFrom(f, d, 5) /\ Writes(d) = f[5]
<1> DEFINE rhs(f) == [k \in 5 .. Len(d) + 1 |->
                        IF ~IsWrite(d, k) THEN <<>>
                        ELSE <<WriteAt(d, k)>> \o f[k + 4 + WordAt(d, k + 2)]]
           from == CHOOSE f : f = rhs(f)
<1>1. Writes(d) = from[5]
  BY DEF Writes
<1>2. PICK f : IsFrom(f, d, 5)
  BY FromExists
<1> DEFINE g == [k \in 5 .. Len(d) + 1 |-> f[k]]
<1>3. ASSUME NEW k \in 5 .. Len(d) + 1
      PROVE  g[k] = IF ~IsWrite(d, k) THEN <<>>
                    ELSE <<WriteAt(d, k)>> \o g[k + 4 + WordAt(d, k + 2)]
  <2>1. CASE ~IsWrite(d, k)
    BY <1>2, <2>1 DEF IsFrom
  <2>2. CASE IsWrite(d, k)
    <3>1. PICK j : j = k + 4 + WordAt(d, k + 2)
      OBVIOUS
    <3>2. j \in k + 1 .. Len(d) + 1
      BY <2>2, <3>1, GoesOn
    <3>3. j \in 5 .. Len(d) + 1
      BY <3>2
    <3>4. g[j] = f[j]
      BY <3>3
    <3> QED BY <1>2, <2>2, <3>1, <3>4 DEF IsFrom
  <2> QED BY <2>1, <2>2
<1>4. g = rhs(g)
  BY <1>3
<1>5. from = rhs(from)
  BY <1>4
<1>6. IsFrom(from, d, 5)
  BY <1>5 DEF IsFrom
<1> QED BY <1>1, <1>6

(* What is read where a write begins of which the address and the length   *)
(* are there.                                                              *)
StartOf(d, whole) == d \in Seq(Byte) /\ \A i \in 1 .. Len(d) : d[i] = whole[i]

Begins(d, p, before) == p = Len(before) + 1 /\ p + 3 <= Len(d)

Reads(d, p, w, after) ==
    /\ p \in 5 .. Len(d) + 1
    /\ p + 3 + WordAt(d, p + 2) = Len(after)
    /\ p + 4 + WordAt(d, p + 2) = Len(after) + 1
    /\ Len(after) <= Len(d) => WriteAt(d, p) = w

LEMMA ReadAtWrite ==
    ASSUME NEW ws \in Seq(Receive), NEW u, IsUpTo(u, ws), NEW k \in 1 .. Len(ws),
           NEW d, StartOf(d, u[Len(ws)]), NEW p, Begins(d, p, u[k - 1])
    PROVE  Reads(d, p, ws[k], u[k])
<1>0. /\ d \in Seq(Byte) /\ \A i \in 1 .. Len(d) : d[i] = u[Len(ws)][i]
      /\ p = Len(u[k - 1]) + 1 /\ p + 3 <= Len(d)
  BY DEF StartOf, Begins
<1>1. PICK a, b, n, w, e : /\ a = Len(u[k - 1]) /\ b = Len(u[k]) /\ n = Len(d)
                           /\ w = ws[k] /\ e = Encoded(w)
  OBVIOUS
<1>2. w \in Receive
  BY <1>1
<1>3. PICK l : l = Len(w.data)
  OBVIOUS
<1>4. /\ a \in Nat /\ b \in Nat /\ n \in Nat /\ l \in Nat /\ a >= 4
      /\ b = a + 4 + l /\ p = a + 1 /\ p + 3 <= n
  <2>1. /\ Len(u[k - 1]) \in Nat /\ Len(u[k]) \in Nat /\ Len(u[k - 1]) >= 4
        /\ Len(u[k]) = Len(u[k - 1]) + 4 + Len(ws[k].data)
    BY NextWrite
  <2>2. Len(w.data) \in Nat
    BY <1>2, ReceiveFields
  <2>3. Len(d) \in Nat
    BY <1>0
  <2> QED BY <1>0, <1>1, <1>3, <2>1, <2>2, <2>3
<1>5. ASSUME NEW i \in 1 .. 4 + l, a + i <= n
      PROVE  d[a + i] = e[i]
  <2>1. a + i \in 1 .. n
    BY <1>4, <1>5
  <2>2. u[Len(ws)][a + i] = e[i]
    BY <1>1, <1>3, NextWrite
  <2> QED BY <1>0, <1>1, <2>1, <2>2
<1>6. /\ e[1] + 256 * e[2] = w.address /\ e[3] + 256 * e[4] = l
      /\ \A i \in 1 .. l : e[4 + i] = w.data[i]
  BY <1>1, <1>2, <1>3, EncodedBytes
<1>7. \A i \in 1 .. 4 : i \in 1 .. 4 + l /\ a + i <= n
  BY <1>4
<1>8. d[a + 1] = e[1] /\ d[a + 2] = e[2] /\ d[a + 3] = e[3] /\ d[a + 4] = e[4]
  BY <1>5, <1>7
<1>9. p + 1 = a + 2 /\ p + 2 = a + 3 /\ (p + 2) + 1 = a + 4
  BY <1>4
<1>10. WordAt(d, p) = w.address /\ WordAt(d, p + 2) = l
  BY <1>4, <1>6, <1>8, <1>9 DEF WordAt
<1>11. p \in 5 .. n + 1 /\ p + 4 + l = b + 1 /\ p + 3 + l = b
  <2>1. p \in Nat /\ p >= 5 /\ p <= n + 1
    BY <1>4
  <2>2. p \in Nat /\ a \in Nat /\ l \in Nat /\ p = a + 1 /\ b = a + 4 + l
    BY <1>4, <2>1
  <2>3. p + 3 + l = b /\ p + 4 + l = b + 1
    BY <2>2
  <2> QED BY <1>4, <2>1, <2>2, <2>3
<1>13. ASSUME b <= n PROVE WriteAt(d, p) = w
  <2>1. PICK t : t = SubSeq(d, p + 4, p + 3 + l)
    OBVIOUS
  <2>7. a \in Nat /\ l \in Nat /\ p = a + 1 /\ b = a + 4 + l /\ b <= n
    BY <1>4, <1>13
  <2>2. p + 4 = a + 5 /\ p + 3 + l = a + 4 + l /\ a + 5 \in Nat /\ a + 4 + l <= n
    BY <2>7
  <2>3. Len(t) = l /\ t \in Seq(Byte) /\ \A i \in 1 .. l : t[i] = d[a + 4 + i]
    <3>1. PICK c : c = a + 4
      OBVIOUS
    <3>2. c \in Nat /\ c + 1 = p + 4 /\ c + l = p + 3 + l /\ c + l <= Len(d)
      BY <1>1, <1>4, <2>2, <3>1
    <3>3. t = SubSeq(d, c + 1, c + l)
      BY <2>1, <3>2
    <3>4. Len(t) = l /\ t \in Seq(Byte) /\ \A i \in 1 .. l : t[i] = d[c + i]
      BY <1>0, <1>4, <3>2, <3>3, Part
    <3> QED BY <3>1, <3>4
  <2>4. ASSUME NEW i \in 1 .. l PROVE t[i] = w.data[i]
    <3>1. 4 + i \in 1 .. 4 + l /\ a + (4 + i) = a + 4 + i /\ a + (4 + i) <= n
      BY <1>4, <2>2
    <3>2. d[a + 4 + i] = e[4 + i]
      BY <1>5, <3>1
    <3> QED BY <1>6, <2>3, <3>2
  <2>5. w.data \in Seq(Byte) /\ w = [address |-> w.address, data |-> w.data]
    BY <1>2, ReceiveFields
  <2>6. t = w.data
    BY <1>3, <2>3, <2>4, <2>5, SameList
  <2> QED BY <1>10, <2>1, <2>5, <2>6 DEF WriteAt
<1> QED BY <1>1, <1>10, <1>11, <1>13 DEF Reads

LEMMA LastExists ==
    ASSUME NEW A, NEW m \in Nat, A \subseteq 0 .. m, A # {}
    PROVE  \E k \in A : \A j \in A : j <= k
<1> DEFINE S == {n \in Nat : (\E k \in A : k <= n) =>
                   \E k \in A : \A j \in A : j <= n => j <= k}
<1>1. 0 \in S
  OBVIOUS
<1>2. ASSUME NEW n \in Nat, n \in S PROVE n + 1 \in S
  <2>1. CASE n + 1 \in A
    BY <2>1
  <2>2. CASE n + 1 \notin A
    <3>1. \A j \in A : j <= n + 1 => j <= n
      BY <2>2
    <3> QED BY <1>2, <3>1
  <2> QED BY <2>1, <2>2
<1> HIDE DEF S
<1>3. m \in S
  BY <1>1, <1>2, Induction
<1>4. \A j \in A : j \in 0 .. m /\ j <= m
  OBVIOUS
<1> QED BY <1>3, <1>4 DEF S

LEMMA Front ==
    ASSUME NEW T, NEW s \in Seq(T), NEW k \in 1 .. Len(s), NEW m \in k .. Len(s)
    PROVE  SubSeq(s, k, m) = <<s[k]>> \o SubSeq(s, k + 1, m)
<1>1. PICK l : l = Len(s) /\ l \in Nat
  OBVIOUS
<1>2. k \in Nat /\ m \in Nat /\ 1 <= k /\ k <= m /\ m <= l
  BY <1>1
<1>3. PICK a, b : a = SubSeq(s, k, m) /\ b = SubSeq(s, k + 1, m)
  OBVIOUS
<1>4. a \in Seq(T) /\ Len(a) = m - k + 1 /\ \A i \in 1 .. m - k + 1 : a[i] = s[k + i - 1]
  <2>1. PICK p, n : p = k - 1 /\ n = m - k + 1
    OBVIOUS
  <2>2. p \in Nat /\ n \in Nat /\ p + 1 = k /\ p + n = m
    BY <1>2, <2>1
  <2>3. p + n <= Len(s)
    BY <1>1, <1>2, <2>2
  <2>4. /\ SubSeq(s, p + 1, p + n) \in Seq(T) /\ Len(SubSeq(s, p + 1, p + n)) = n
        /\ \A i \in 1 .. n : SubSeq(s, p + 1, p + n)[i] = s[p + i]
    BY <2>2, <2>3, Part
  <2>5. \A i \in 1 .. n : p + i = k + i - 1
    BY <2>2
  <2> QED BY <1>3, <2>1, <2>2, <2>4, <2>5
<1>5. b \in Seq(T) /\ Len(b) = m - k /\ \A i \in 1 .. m - k : b[i] = s[k + i]
  <2>1. m - k \in Nat /\ k + (m - k) = m
    BY <1>2
  <2>2. /\ SubSeq(s, k + 1, k + (m - k)) \in Seq(T)
        /\ Len(SubSeq(s, k + 1, k + (m - k))) = m - k
        /\ \A i \in 1 .. m - k : SubSeq(s, k + 1, k + (m - k))[i] = s[k + i]
    BY <1>1, <1>2, <2>1, Part
  <2> QED BY <1>3, <2>1, <2>2
<1>6. PICK c : c = <<s[k]>> \o b
  OBVIOUS
<1>7. c \in Seq(T) /\ Len(c) = m - k + 1 /\ c[1] = s[k]
      /\ \A i \in 1 .. m - k : c[i + 1] = b[i]
  <2>1. PICK x : x = <<s[k]>>
    OBVIOUS
  <2>2. x \in Seq(T) /\ Len(x) = 1 /\ x[1] = s[k]
    BY <1>1, <1>2, <2>1
  <2>3. /\ x \o b \in Seq(T)
        /\ Len(x \o b) = Len(x) + Len(b)
        /\ \A i \in 1 .. Len(x) : (x \o b)[i] = x[i]
        /\ \A i \in 1 .. Len(b) : (x \o b)[Len(x) + i] = b[i]
    <3>1. x \in Seq(T) /\ b \in Seq(T)
      BY <1>5, <2>2
    <3> QED BY <3>1, Joined
  <2>4. m - k \in Nat /\ 1 + (m - k) = m - k + 1 /\ \A i \in 1 .. m - k : 1 + i = i + 1
    BY <1>2
  <2>5. c = x \o b
    BY <1>6, <2>1
  <2> QED BY <1>5, <2>2, <2>3, <2>4, <2>5
<1>8. ASSUME NEW i \in 1 .. m - k + 1 PROVE a[i] = c[i]
  <2>1. CASE i = 1
    BY <1>2, <1>4, <1>7, <2>1
  <2>2. CASE i # 1
    <3>1. i - 1 \in 1 .. m - k /\ (i - 1) + 1 = i /\ k + (i - 1) = k + i - 1
      BY <1>2, <2>2
    <3> QED BY <1>4, <1>5, <1>7, <3>1
  <2> QED BY <2>1, <2>2
<1>9. a = c
  BY <1>4, <1>7, <1>8, SameList
<1> QED BY <1>3, <1>6, <1>9

-----------------------------------------------------------------------------
(* What a listener reads of the first n bytes of an update are the writes  *)
(* that are whole in them.                                                 *)
LEMMA StartRead ==
    ASSUME NEW ws \in Seq(Receive), NEW n \in 0 .. Len(Update(ws))
    PROVE  /\ Writes(SubSeq(Update(ws), 1, n)) = WholeWrites(ws, n)
           /\ WholeWrites(ws, n) \in Seq(Receive)
<1>1. PICK u, U, d : u = UpTo(ws) /\ U = Update(ws) /\ d = SubSeq(U, 1, n)
  OBVIOUS
<1> DEFINE fits == {k \in 0 .. Len(ws) : Len(u[k]) <= n}
           K == CHOOSE k \in fits : \A j \in fits : j <= k
<1>2. IsUpTo(u, ws) /\ U = u[Len(ws)]
  BY <1>1, Prefixes DEF Update
<1>3. WholeWrites(ws, n) = IF fits = {} THEN <<>> ELSE SubSeq(ws, 1, K)
  BY <1>1 DEF WholeWrites
<1>4. Len(ws) \in Nat /\ 0 \in 0 .. Len(ws) /\ Len(ws) \in 0 .. Len(ws)
  OBVIOUS
<1>5. U \in Seq(Byte) /\ \A k \in 0 .. Len(ws) : u[k] \in Seq(Byte) /\ Len(u[k]) \in Nat
  BY <1>2, <1>4 DEF IsUpTo
<1>6. n \in Nat /\ n <= Len(U) /\ Len(U) \in Nat
  BY <1>1, <1>5
<1>7. d \in Seq(Byte) /\ Len(d) = n /\ \A i \in 1 .. n : d[i] = U[i]
  <2>1. /\ SubSeq(U, 0 + 1, 0 + n) \in Seq(Byte) /\ Len(SubSeq(U, 0 + 1, 0 + n)) = n
        /\ \A i \in 1 .. n : SubSeq(U, 0 + 1, 0 + n)[i] = U[0 + i]
    BY <1>5, <1>6, Part
  <2>2. 0 + 1 = 1 /\ 0 + n = n /\ \A i \in 1 .. n : 0 + i = i
    BY <1>6
  <2> QED BY <1>1, <2>1, <2>2
<1>8. u[0] = Sync /\ Len(u[0]) = 4
  BY <1>2 DEF IsUpTo, Sync
<1>9. ASSUME NEW k \in 0 .. Len(ws) PROVE 4 <= Len(u[k])
  <2>1. 0 \in 0 .. k
    BY <1>4
  <2>2. Len(u[0]) <= Len(u[k])
    BY <1>2, <2>1, Contains
  <2> QED BY <1>8, <2>2
<1>12. StartOf(d, u[Len(ws)])
  BY <1>2, <1>7 DEF StartOf
<1> HIDE DEF K
<1>10. CASE n < 4
  <2>1. fits = {}
    BY <1>5, <1>6, <1>9, <1>10
  <2>2. Writes(d) = <<>>
    BY <1>6, <1>7, <1>10 DEF Writes
  <2>3. <<>> \in Seq(Receive)
    OBVIOUS
  <2> QED BY <1>1, <1>3, <2>1, <2>2, <2>3
<1>11. CASE n >= 4
  <2>1. 0 \in fits
    BY <1>4, <1>8, <1>11
  <2>2. fits \subseteq 0 .. Len(ws) /\ fits # {}
    BY <2>1
  <2>3. K \in fits /\ \A j \in fits : j <= K
    <3>1. \E k \in fits : \A j \in fits : j <= k
      BY <1>4, <2>2, LastExists
    <3> QED BY <3>1 DEF K
  <2>4. K \in 0 .. Len(ws) /\ K \in Nat /\ Len(u[K]) <= n
    BY <1>4, <2>3
  <2>5. WholeWrites(ws, n) = SubSeq(ws, 1, K)
    BY <1>3, <2>1
  <2>6. SubSeq(ws, 1, K) \in Seq(Receive)
    <3>1. SubSeq(ws, 0 + 1, 0 + K) \in Seq(Receive)
      BY <2>4, Part
    <3>2. 0 + 1 = 1 /\ 0 + K = K
      BY <2>4
    <3> QED BY <3>1, <3>2
  <2>7. SubSeq(d, 1, 4) = Sync
    <3>1. \A i \in 1 .. 4 : U[i] = Sync[i]
      <4>1. \A i \in 1 .. Len(u[0]) : u[Len(ws)][i] = u[0][i]
        BY <1>2, <1>4, Contains
      <4> QED BY <1>2, <1>8, <4>1
    <3>2. PICK t : t = SubSeq(d, 1, 4)
      OBVIOUS
    <3>3. t \in Seq(Byte) /\ Len(t) = 4 /\ \A i \in 1 .. 4 : t[i] = d[i]
      <4>1. /\ SubSeq(d, 0 + 1, 0 + 4) \in Seq(Byte) /\ Len(SubSeq(d, 0 + 1, 0 + 4)) = 4
            /\ \A i \in 1 .. 4 : SubSeq(d, 0 + 1, 0 + 4)[i] = d[0 + i]
        BY <1>6, <1>7, <1>11, Part
      <4>2. 0 + 1 = 1 /\ 0 + 4 = 4 /\ \A i \in 1 .. 4 : 0 + i = i
        OBVIOUS
      <4> QED BY <3>2, <4>1, <4>2
    <3>4. \A i \in 1 .. 4 : t[i] = Sync[i]
      <4>1. \A i \in 1 .. 4 : i \in 1 .. n
        BY <1>6, <1>11
      <4> QED BY <1>7, <3>1, <3>3, <4>1
    <3>5. Sync \in Seq(Byte) /\ Len(Sync) = 4
      BY DEF Sync, Byte
    <3>6. t = Sync
      BY <3>3, <3>4, <3>5, SameList
    <3> QED BY <3>2, <3>6
  <2>8. PICK f : IsFrom(f, d, 5) /\ Writes(d) = f[5]
    BY <1>7, <1>11, <2>7, WritesFollow
  <2> DEFINE S == {j \in Nat : j <= K =>
                     f[Len(u[K - j]) + 1] = SubSeq(ws, (K - j) + 1, K)}
  <2>9. 0 \in S
    <3>1. PICK p : p = Len(u[K]) + 1
      OBVIOUS
    <3>2. p \in 5 .. n + 1
      BY <1>5, <1>6, <1>9, <2>4, <3>1
    <3>3. ~IsWrite(d, p)
      <4> SUFFICES ASSUME IsWrite(d, p) PROVE FALSE
        OBVIOUS
      <4>1. p + 3 <= Len(d)
        BY DEF IsWrite
      <4>2. CASE K = Len(ws)
        BY <1>2, <1>6, <1>7, <2>4, <3>1, <4>1, <4>2
      <4>3. CASE K # Len(ws)
        <5>1. K + 1 \in 1 .. Len(ws) /\ (K + 1) - 1 = K /\ K + 1 \in 0 .. Len(ws)
          BY <1>4, <2>4, <4>3
        <5>4. Begins(d, p, u[(K + 1) - 1])
          BY <3>1, <4>1, <5>1 DEF Begins
        <5>5. Reads(d, p, ws[K + 1], u[K + 1])
          BY <1>2, <1>12, <5>1, <5>4, ReadAtWrite
        <5>2. Len(u[K + 1]) <= Len(d)
          BY <5>5 DEF IsWrite, Reads
        <5>3. K + 1 \in fits
          BY <1>7, <5>1, <5>2
        <5> QED BY <2>3, <2>4, <5>3
      <4> QED BY <4>2, <4>3
    <3>4. f[p] = <<>>
      BY <1>7, <2>8, <3>2, <3>3 DEF IsFrom
    <3>5. SubSeq(ws, K + 1, K) = <<>>
      BY <2>4
    <3>6. K - 0 = K
      BY <2>4
    <3> QED BY <3>1, <3>4, <3>5, <3>6
  <2>14. ASSUME NEW k \in 1 .. Len(ws), NEW p, p = Len(u[k - 1]) + 1, p + 3 <= Len(d),
                Len(u[k]) <= Len(d)
         PROVE  /\ p \in 5 .. Len(d) + 1 /\ IsWrite(d, p) /\ WriteAt(d, p) = ws[k]
                /\ p + 4 + WordAt(d, p + 2) = Len(u[k]) + 1
    <3>1. Begins(d, p, u[k - 1])
      BY <2>14 DEF Begins
    <3>2. Reads(d, p, ws[k], u[k])
      BY <1>2, <1>12, <3>1, ReadAtWrite
    <3> QED BY <2>14, <3>2 DEF IsWrite, Reads
  <2>10. ASSUME NEW j \in Nat, j \in S PROVE j + 1 \in S
    <3> SUFFICES ASSUME j + 1 <= K
                 PROVE  f[Len(u[K - (j + 1)]) + 1] = SubSeq(ws, (K - (j + 1)) + 1, K)
      OBVIOUS
    <3>1. PICK k : k = K - j
      OBVIOUS
    <3>2. /\ k \in 1 .. Len(ws) /\ k \in 0 .. K /\ k \in 0 .. Len(ws) /\ k \in 1 .. K
          /\ K - (j + 1) = k - 1 /\ (k - 1) + 1 = k /\ j <= K /\ K \in k .. Len(ws)
      BY <1>4, <2>4, <3>1
    <3>3. f[Len(u[k]) + 1] = SubSeq(ws, k + 1, K)
      BY <2>10, <3>1, <3>2
    <3>4. PICK p : p = Len(u[k - 1]) + 1
      OBVIOUS
    <3>5. Len(u[k]) <= Len(u[K])
      BY <1>2, <2>4, <3>2, Contains
    <3>6. Len(u[k]) <= Len(d)
      BY <1>5, <1>6, <1>7, <2>4, <3>2, <3>5
    <3>7. p + 3 <= Len(d)
      <4>1. /\ Len(u[k - 1]) \in Nat /\ Len(u[k]) = Len(u[k - 1]) + 4 + Len(ws[k].data)
            /\ Len(u[k]) \in Nat
        BY <1>2, <3>2, NextWrite
      <4>2. ws[k] \in Receive
        BY <3>2
      <4>3. Len(ws[k].data) \in Nat
        BY <4>2, ReceiveFields
      <4>4. PICK a, b, l : a = Len(u[k - 1]) /\ b = Len(u[k]) /\ l = Len(ws[k].data)
        OBVIOUS
      <4>5. a \in Nat /\ b \in Nat /\ l \in Nat /\ b = a + 4 + l /\ p = a + 1 /\ b <= n
        BY <1>7, <3>4, <3>6, <4>1, <4>3, <4>4
      <4>6. p + 3 <= n
        BY <1>6, <4>5
      <4> QED BY <1>7, <4>6
    <3>8. /\ p \in 5 .. Len(d) + 1 /\ IsWrite(d, p) /\ WriteAt(d, p) = ws[k]
          /\ p + 4 + WordAt(d, p + 2) = Len(u[k]) + 1
      BY <2>14, <3>2, <3>4, <3>6, <3>7
    <3>9. f[p] = <<WriteAt(d, p)>> \o f[p + 4 + WordAt(d, p + 2)]
      BY <2>8, <3>8 DEF IsFrom
    <3>10. f[p] = <<ws[k]>> \o SubSeq(ws, k + 1, K)
      BY <3>3, <3>8, <3>9
    <3>11. SubSeq(ws, k, K) = <<ws[k]>> \o SubSeq(ws, k + 1, K)
      BY <3>2, Front
    <3> QED BY <3>2, <3>4, <3>10, <3>11
  <2> HIDE DEF S
  <2>11. K \in S
    BY <2>4, <2>9, <2>10, Induction
  <2>12. f[Len(u[K - K]) + 1] = SubSeq(ws, (K - K) + 1, K)
    BY <2>4, <2>11 DEF S
  <2>13. f[5] = SubSeq(ws, 1, K)
    <3>1. K - K = 0 /\ 0 + 1 = 1 /\ 4 + 1 = 5
      BY <2>4
    <3> QED BY <1>8, <2>12, <3>1
  <2> QED BY <1>1, <2>5, <2>6, <2>8, <2>13
<1> QED BY <1>6, <1>10, <1>11

(* What begins elsewhere does not begin with the four bytes.               *)
LEMMA RestRefused ==
    ASSUME NEW ws, IsUpdate(ws), NEW n \in 1 .. Len(Update(ws))
    PROVE  Writes(SubSeq(Update(ws), n + 1, Len(Update(ws)))) = <<>>
<1>1. PICK U, d : U = Update(ws) /\ d = SubSeq(U, n + 1, Len(U))
  OBVIOUS
<1>2. ws \in Seq(Receive)
  BY DEF IsUpdate
<1>3. U \in Seq(Byte) /\ Len(U) \in Nat
  <2>1. Len(ws) \in 0 .. Len(ws)
    BY <1>2
  <2>2. IsUpTo(UpTo(ws), ws)
    BY <1>2, Prefixes
  <2>3. UpTo(ws)[Len(ws)] \in Seq(Byte)
    BY <2>1, <2>2 DEF IsUpTo
  <2>4. U \in Seq(Byte)
    BY <1>1, <2>3 DEF Update
  <2> QED BY <2>4
<1>4. PICK l : l = Len(U) - n
  OBVIOUS
<1>5. n \in Nat /\ l \in Nat /\ n + l = Len(U)
  BY <1>1, <1>3, <1>4
<1>6. d \in Seq(Byte) /\ Len(d) = l /\ \A i \in 1 .. l : d[i] = U[n + i]
  BY <1>1, <1>3, <1>5, Part
<1>7. ASSUME Len(d) >= 4, SubSeq(d, 1, 4) = Sync PROVE FALSE
  <2>1. n \in 1 .. Len(U) - 4
    BY <1>3, <1>5, <1>6, <1>7
  <2>2. PICK t : t = SubSeq(U, n + 1, n + 4)
    OBVIOUS
  <2>3. t \in Seq(Byte) /\ Len(t) = 4 /\ \A i \in 1 .. 4 : t[i] = U[n + i]
    BY <1>3, <1>5, <2>1, <2>2, Part
  <2>4. PICK r : r = SubSeq(d, 1, 4)
    OBVIOUS
  <2>5. r \in Seq(Byte) /\ Len(r) = 4 /\ \A i \in 1 .. 4 : r[i] = d[i]
    <3>1. /\ SubSeq(d, 0 + 1, 0 + 4) \in Seq(Byte) /\ Len(SubSeq(d, 0 + 1, 0 + 4)) = 4
          /\ \A i \in 1 .. 4 : SubSeq(d, 0 + 1, 0 + 4)[i] = d[0 + i]
      BY <1>6, <1>7, Part
    <3>2. 0 + 1 = 1 /\ 0 + 4 = 4 /\ \A i \in 1 .. 4 : 0 + i = i
      OBVIOUS
    <3> QED BY <2>4, <3>1, <3>2
  <2>6. \A i \in 1 .. 4 : i \in 1 .. l
    BY <1>5, <1>6, <1>7
  <2>7. \A i \in 1 .. 4 : t[i] = r[i]
    BY <1>6, <2>3, <2>5, <2>6
  <2>8. t = r
    BY <2>3, <2>5, <2>7, SameList
  <2> QED BY <1>1, <1>7, <2>1, <2>2, <2>4, <2>8 DEF IsUpdate
<1>8. Writes(d) = <<>>
  BY <1>7 DEF Writes
<1> QED BY <1>1, <1>8

(* Whatever of an update arrives is read as the writes that can be taken.  *)
LEMMA DatagramRead ==
    ASSUME NEW ws, IsUpdate(ws), NEW d \in DatagramsOf(ws)
    PROVE  Writes(d.bytes) = d.taken /\ d.taken \in Seq(Receive)
<1>1. ws \in Seq(Receive)
  BY DEF IsUpdate
<1>2. CASE d \in {[bytes |-> SubSeq(Update(ws), 1, n), taken |-> WholeWrites(ws, n)] :
                    n \in 0 .. Len(Update(ws))}
  <2>1. PICK n \in 0 .. Len(Update(ws)) :
          d = [bytes |-> SubSeq(Update(ws), 1, n), taken |-> WholeWrites(ws, n)]
    BY <1>2
  <2>2. d.bytes = SubSeq(Update(ws), 1, n) /\ d.taken = WholeWrites(ws, n)
    BY <2>1
  <2> QED BY <1>1, <2>2, StartRead
<1>3. CASE d \in {[bytes |-> SubSeq(Update(ws), n + 1, Len(Update(ws))), taken |-> <<>>] :
                    n \in 1 .. Len(Update(ws))}
  <2>1. PICK n \in 1 .. Len(Update(ws)) :
          d = [bytes |-> SubSeq(Update(ws), n + 1, Len(Update(ws))), taken |-> <<>>]
    BY <1>3
  <2>2. d.bytes = SubSeq(Update(ws), n + 1, Len(Update(ws))) /\ d.taken = <<>>
    BY <2>1
  <2>3. <<>> \in Seq(Receive)
    OBVIOUS
  <2> QED BY <2>2, <2>3, RestRefused
<1> QED BY <1>2, <1>3 DEF DatagramsOf

-----------------------------------------------------------------------------
Memory == [len : Nat, at : UNION {[A -> Byte] : A \in SUBSET Nat}]

Area(w) == w.address .. End(w) - 1
ByteOf(w, a) == w.data[a - w.address + 1]

(* The k-th of the first n writes is the last of them at an address.       *)
LastAt(ws, n, a, k) ==
    k \in 1 .. n /\ a \in Area(ws[k]) /\ \A j \in k + 1 .. n : a \notin Area(ws[j])

(* A memory holds the first n writes of a list, in their order.            *)
Holds(m, ws, n) ==
    /\ \A k \in 1 .. n : Area(ws[k]) \subseteq DOMAIN m.at
    /\ \A a \in DOMAIN m.at :
         \E k \in 1 .. n : LastAt(ws, n, a, k) /\ m.at[a] = ByteOf(ws[k], a)

LEMMA AreaBytes ==
    ASSUME NEW w \in Receive, NEW a \in Area(w)
    PROVE  a \in Nat /\ ByteOf(w, a) \in Byte
<1>1. /\ w.address \in Nat /\ w.data \in Seq(Byte) /\ Len(w.data) \in Nat
  BY ReceiveFields
<1>2. PICK b, l, i : b = w.address /\ l = Len(w.data) /\ i = a - w.address + 1
  OBVIOUS
<1>4. b \in Nat /\ l \in Nat
  BY <1>1, <1>2
<1>3. a \in b .. b + l - 1
  BY <1>2, <1>4 DEF Area, End
<1>5. a \in Nat /\ a - b + 1 \in 1 .. l
  BY <1>3, <1>4
<1>6. i \in 1 .. Len(w.data)
  BY <1>2, <1>5
<1> QED BY <1>1, <1>2, <1>5, <1>6 DEF ByteOf

LEMMA WrittenBytes ==
    ASSUME NEW m \in Memory, NEW w \in Receive
    PROVE  /\ Written(m, w) \in Memory
           /\ DOMAIN Written(m, w).at = DOMAIN m.at \cup Area(w)
           /\ \A a \in Area(w) : Written(m, w).at[a] = ByteOf(w, a)
           /\ \A a \in DOMAIN m.at \ Area(w) : Written(m, w).at[a] = m.at[a]
<1>1. PICK A \in SUBSET Nat : m.at \in [A -> Byte]
  BY DEF Memory
<1>2. m.len \in Nat /\ End(w) \in Nat
  BY ReceiveFields DEF Memory
<1> DEFINE l == IF m.len < End(w) THEN End(w) ELSE m.len
           f == [a \in A \cup Area(w) |-> IF a \in Area(w) THEN ByteOf(w, a) ELSE m.at[a]]
<1>3. Written(m, w) = [len |-> l, at |-> f]
  <2>1. DOMAIN m.at = A
    BY <1>1
  <2> QED BY <2>1 DEF Written, Area, ByteOf
<1>4. l \in Nat
  BY <1>2
<1>5. f \in [A \cup Area(w) -> Byte]
  BY <1>1, AreaBytes
<1>6. A \cup Area(w) \in SUBSET Nat
  BY AreaBytes
<1> HIDE DEF l
<1>7. [len |-> l, at |-> f] \in Memory
  <2> HIDE DEF f
  <2> QED BY <1>4, <1>5, <1>6 DEF Memory
<1> QED BY <1>1, <1>3, <1>7

LEMMA HoldsMore ==
    ASSUME NEW ws \in Seq(Receive), NEW n \in Nat, n + 1 <= Len(ws),
           NEW m \in Memory, Holds(m, ws, n)
    PROVE  Written(m, ws[n + 1]) \in Memory /\ Holds(Written(m, ws[n + 1]), ws, n + 1)
<1>1. PICK w, r : w = ws[n + 1] /\ r = Written(m, ws[n + 1])
  OBVIOUS
<1>2. n + 1 \in 1 .. Len(ws) /\ w \in Receive
  BY <1>1
<1>3. /\ r \in Memory /\ DOMAIN r.at = DOMAIN m.at \cup Area(w)
      /\ \A a \in Area(w) : r.at[a] = ByteOf(w, a)
      /\ \A a \in DOMAIN m.at \ Area(w) : r.at[a] = m.at[a]
  BY <1>1, <1>2, WrittenBytes
<1>4. ASSUME NEW k \in 1 .. n + 1 PROVE Area(ws[k]) \subseteq DOMAIN r.at
  <2>1. CASE k = n + 1
    BY <1>1, <1>3, <2>1
  <2>2. CASE k # n + 1
    <3>1. k \in 1 .. n
      BY <2>2
    <3> QED BY <1>3, <3>1 DEF Holds
  <2> QED BY <2>1, <2>2
<1>5. ASSUME NEW a \in DOMAIN r.at
      PROVE  \E k \in 1 .. n + 1 : LastAt(ws, n + 1, a, k) /\ r.at[a] = ByteOf(ws[k], a)
  <2>1. CASE a \in Area(w)
    <3>1. n + 1 \in 1 .. n + 1 /\ \A j \in n + 1 + 1 .. n + 1 : FALSE
      OBVIOUS
    <3>2. LastAt(ws, n + 1, a, n + 1)
      BY <1>1, <2>1, <3>1 DEF LastAt
    <3> QED BY <1>1, <1>3, <2>1, <3>1, <3>2
  <2>2. CASE a \notin Area(w)
    <3>1. a \in DOMAIN m.at /\ r.at[a] = m.at[a]
      BY <1>3, <2>2
    <3>2. PICK k \in 1 .. n : LastAt(ws, n, a, k) /\ m.at[a] = ByteOf(ws[k], a)
      BY <3>1 DEF Holds
    <3>3. k \in 1 .. n + 1
      OBVIOUS
    <3>4. ASSUME NEW j \in k + 1 .. n + 1 PROVE a \notin Area(ws[j])
      <4>1. CASE j = n + 1
        BY <1>1, <2>2, <4>1
      <4>2. CASE j # n + 1
        <5>1. j \in k + 1 .. n
          BY <4>2
        <5> QED BY <3>2, <5>1 DEF LastAt
      <4> QED BY <4>1, <4>2
    <3>5. LastAt(ws, n + 1, a, k)
      BY <3>2, <3>3, <3>4 DEF LastAt
    <3> QED BY <3>1, <3>2, <3>3, <3>5
  <2> QED BY <2>1, <2>2
<1>6. Holds(r, ws, n + 1)
  BY <1>4, <1>5 DEF Holds
<1> QED BY <1>1, <1>3, <1>6

LEMMA HoldsLonger ==
    ASSUME NEW ls \in Seq(Receive), NEW ws \in Seq(Receive), NEW m, Holds(m, ls, Len(ls))
    PROVE  Holds(m, ls \o ws, Len(ls))
<1>1. PICK all, n : all = ls \o ws /\ n = Len(ls)
  OBVIOUS
<1>2. n \in Nat /\ \A k \in 1 .. n : all[k] = ls[k]
  BY <1>1, Joined
<1>3. \A k \in 1 .. n : Area(all[k]) \subseteq DOMAIN m.at
  BY <1>1, <1>2 DEF Holds
<1>4. ASSUME NEW a \in DOMAIN m.at
      PROVE  \E k \in 1 .. n : LastAt(all, n, a, k) /\ m.at[a] = ByteOf(all[k], a)
  <2>1. PICK k \in 1 .. n : LastAt(ls, n, a, k) /\ m.at[a] = ByteOf(ls[k], a)
    BY <1>1 DEF Holds
  <2>2. \A j \in k + 1 .. n : j \in 1 .. n
    BY <1>2
  <2>3. LastAt(all, n, a, k)
    BY <1>2, <2>1, <2>2 DEF LastAt
  <2> QED BY <1>2, <2>1, <2>3
<1>5. Holds(m, all, n)
  BY <1>3, <1>4 DEF Holds
<1> QED BY <1>1, <1>5

(* The recursion of Applied has a solution.                                *)
IsAfter(g, m, ws) ==
    g[0] = m /\ \A k \in 1 .. Len(ws) : g[k] = Written(g[k - 1], ws[k])

LEMMA AllApplied ==
    ASSUME NEW ws \in Seq(Receive), NEW m \in Memory, ~Applied(m, ws).panics
    PROVE  \E g : IsAfter(g, m, ws) /\ Applied(m, ws).memory = g[Len(ws)]
<1> DEFINE panic == {k \in DOMAIN ws : OverflowChecks /\ Overflows(ws[k])}
           rhs(g) == [k \in 0 .. Len(ws) |-> IF k = 0 THEN m ELSE Written(g[k - 1], ws[k])]
           step == [p \in (1 .. Len(ws)) \X Memory |-> Written(p[2], ws[p[1]])]
<1>1. PICK after : after = After(m, ws)
  OBVIOUS
<1>2. panic = {}
  BY DEF Applied
<1>3. Applied(m, ws).memory = after[Len(ws)]
  BY <1>1, <1>2 DEF Applied
<1>4. Len(ws) \in Nat
  OBVIOUS
<1>5. ASSUME NEW k \in 1 .. Len(ws), NEW r \in Memory PROVE Written(r, ws[k]) \in Memory
  <2>1. ws[k] \in Receive
    OBVIOUS
  <2> QED BY <2>1, WrittenBytes
<1>6. step \in [(1 .. Len(ws)) \X Memory -> Memory]
  BY <1>5
<1>7. \A k \in 1 .. Len(ws), r \in Memory : step[<<k, r>>] = Written(r, ws[k])
  OBVIOUS
<1> HIDE DEF step
<1>8. PICK f : Iterates(f, Memory, Len(ws), m, step)
  BY <1>4, <1>6, Iteration
<1>9. f \in [0 .. Len(ws) -> Memory] /\ f[0] = m
  BY <1>8 DEF Iterates
<1>10. ASSUME NEW k \in 1 .. Len(ws) PROVE f[k] = Written(f[k - 1], ws[k])
  <2>1. k - 1 \in 0 .. Len(ws)
    BY <1>4
  <2>2. f[k - 1] \in Memory
    BY <1>9, <2>1
  <2>3. f[k] = step[<<k, f[k - 1]>>]
    BY <1>8 DEF Iterates
  <2> QED BY <1>7, <2>2, <2>3
<1>11. f = rhs(f)
  <2>1. \A k \in 0 .. Len(ws) : f[k] = IF k = 0 THEN m ELSE Written(f[k - 1], ws[k])
    BY <1>4, <1>9, <1>10
  <2>2. f = [k \in 0 .. Len(ws) |-> f[k]]
    BY <1>9
  <2> QED BY <2>1, <2>2
<1>12. after = CHOOSE g : g = rhs(g)
  BY <1>1 DEF After
<1>13. after = rhs(after)
  BY <1>11, <1>12
<1>14. IsAfter(after, m, ws)
  BY <1>4, <1>13 DEF IsAfter
<1> QED BY <1>3, <1>14

LEMMA HoldsAll ==
    ASSUME NEW ls \in Seq(Receive), NEW ws \in Seq(Receive), NEW m \in Memory,
           Holds(m, ls, Len(ls)), ~Applied(m, ws).panics
    PROVE  /\ Applied(m, ws).memory \in Memory
           /\ Holds(Applied(m, ws).memory, ls \o ws, Len(ls \o ws))
<1>1. PICK g : IsAfter(g, m, ws) /\ Applied(m, ws).memory = g[Len(ws)]
  BY AllApplied
<1>2. PICK all, n : all = ls \o ws /\ n = Len(ls)
  OBVIOUS
<1>3. /\ all \in Seq(Receive) /\ n \in Nat /\ Len(ws) \in Nat /\ Len(all) = n + Len(ws)
      /\ \A k \in 1 .. Len(ws) : all[n + k] = ws[k]
  <2>1. /\ ls \o ws \in Seq(Receive) /\ Len(ls \o ws) = Len(ls) + Len(ws)
        /\ Len(ls) \in Nat /\ Len(ws) \in Nat
        /\ \A i \in 1 .. Len(ws) : (ls \o ws)[Len(ls) + i] = ws[i]
    BY Joined
  <2> QED BY <1>2, <2>1
<1> DEFINE S == {k \in Nat : k <= Len(ws) => g[k] \in Memory /\ Holds(g[k], all, n + k)}
<1>4. 0 \in S
  <2>1. n + 0 = n
    BY <1>3
  <2>2. Holds(m, all, n)
    BY <1>2, HoldsLonger
  <2> QED BY <1>1, <2>1, <2>2 DEF IsAfter
<1>5. ASSUME NEW k \in Nat, k \in S PROVE k + 1 \in S
  <2> SUFFICES ASSUME k + 1 <= Len(ws)
               PROVE  g[k + 1] \in Memory /\ Holds(g[k + 1], all, n + (k + 1))
    OBVIOUS
  <2>1. k + 1 \in 1 .. Len(ws) /\ (k + 1) - 1 = k /\ k <= Len(ws)
    BY <1>3
  <2>2. g[k] \in Memory /\ Holds(g[k], all, n + k)
    BY <1>5, <2>1
  <2>3. PICK q : q = n + k
    OBVIOUS
  <2>4. q \in Nat /\ q + 1 <= Len(all) /\ q + 1 = n + (k + 1)
    BY <1>3, <2>1, <2>3
  <2>5. all[q + 1] = ws[k + 1]
    BY <1>3, <2>1, <2>4
  <2>6. Written(g[k], all[q + 1]) \in Memory /\ Holds(Written(g[k], all[q + 1]), all, q + 1)
    BY <1>3, <2>2, <2>3, <2>4, HoldsMore
  <2>7. g[k + 1] = Written(g[k], ws[k + 1])
    BY <1>1, <2>1 DEF IsAfter
  <2> QED BY <2>4, <2>5, <2>6, <2>7
<1> HIDE DEF S
<1>6. Len(ws) \in S
  BY <1>3, <1>4, <1>5, Induction
<1>7. g[Len(ws)] \in Memory /\ Holds(g[Len(ws)], all, n + Len(ws))
  BY <1>3, <1>6 DEF S
<1> QED BY <1>1, <1>2, <1>3, <1>7

LEMMA PanicAtEdge ==
    ASSUME NEW ws \in Seq(Receive), NEW m, Applied(m, ws).panics
    PROVE  \E k \in DOMAIN ws : End(ws[k]) < 1 \/ End(ws[k]) > 65535
<1> DEFINE panic == {k \in DOMAIN ws : OverflowChecks /\ Overflows(ws[k])}
<1>1. panic # {}
  BY DEF Applied
<1>2. PICK k \in DOMAIN ws : Overflows(ws[k])
  BY <1>1
<1>3. PICK e : e = End(ws[k])
  OBVIOUS
<1>4. e \in Nat
  <2>1. ws[k] \in Receive
    OBVIOUS
  <2> QED BY <1>3, <2>1, ReceiveFields
<1>5. e > 65535 \/ e = 0
  BY <1>2, <1>3 DEF Overflows
<1>6. e < 1 \/ e > 65535
  BY <1>4, <1>5
<1> QED BY <1>3, <1>6

LEMMA LastLeft ==
    ASSUME NEW ws \in Seq(Receive), NEW a, NEW k, LastAt(ws, Len(ws), a, k)
    PROVE  LeftAt(ws, a) = ByteOf(ws[k], a)
<1> DEFINE writers == {i \in DOMAIN ws : a \in Area(ws[i])}
<1>1. Len(ws) \in Nat /\ DOMAIN ws = 1 .. Len(ws)
  OBVIOUS
<1>2. k \in writers
  BY <1>1 DEF LastAt
<1>3. ASSUME NEW j \in writers PROVE j <= k
  <2>1. j \in 1 .. Len(ws) /\ k \in 1 .. Len(ws) /\ j \notin k + 1 .. Len(ws)
    BY <1>1 DEF LastAt
  <2> QED BY <1>1, <2>1
<1>4. \A i \in writers : (\A j \in writers : j <= i) => i = k
  <2> SUFFICES ASSUME NEW i \in writers, \A j \in writers : j <= i PROVE i = k
    OBVIOUS
  <2>1. k <= i /\ i <= k
    BY <1>2, <1>3
  <2>2. i \in 1 .. Len(ws) /\ k \in 1 .. Len(ws)
    BY <1>1, <1>2
  <2> QED BY <1>1, <2>1, <2>2
<1>5. PICK l : l = CHOOSE i \in writers : \A j \in writers : j <= i
  OBVIOUS
<1>6. l = k
  BY <1>2, <1>3, <1>4, <1>5
<1>7. LeftAt(ws, a) = ws[l].data[a - ws[l].address + 1]
  BY <1>2, <1>5 DEF LeftAt, Area
<1> QED BY <1>6, <1>7 DEF ByteOf

-----------------------------------------------------------------------------
AtTheEdge(w) == End(w) < 1 \/ End(w) > 65535

(* The memory holds what landed, unless a thread panicked with it, and     *)
(* then there is a reason for that.                                        *)
MemoryInv ==
    /\ landed \in Seq(Receive) /\ poisoned \in BOOLEAN
    /\ ~poisoned => memory \in Memory /\ Holds(memory, landed, Len(landed))
    /\ poisoned => \E k \in DOMAIN landed : AtTheEdge(landed[k])
    /\ thread = "panicked" => poisoned

LEMMA MemoryStart == Init => MemoryInv
<1> SUFFICES ASSUME Init PROVE MemoryInv
  OBVIOUS
<1>1. landed = <<>> /\ poisoned = FALSE /\ memory = EmptyMemory /\ thread = "none"
  BY DEF Init, ListenerInit
<1>2. landed \in Seq(Receive) /\ Len(landed) = 0
  BY <1>1
<1>3. memory \in Memory /\ DOMAIN memory.at = {}
  <2>1. <<>> \in [{} -> Byte] /\ {} \in SUBSET Nat /\ DOMAIN <<>> = {}
    OBVIOUS
  <2> QED BY <1>1, <2>1 DEF EmptyMemory, Memory
<1>4. Holds(memory, landed, Len(landed))
  BY <1>2, <1>3 DEF Holds
<1> QED BY <1>1, <1>2, <1>3, <1>4 DEF MemoryInv

(* Only a datagram changes the memory.                                     *)
LEMMA OthersKeepMemory ==
    ASSUME [Next]_vars
    PROVE  \/ Packet
           \/ UNCHANGED memoryVars /\ (thread' = "panicked" => thread = "panicked")
<1> USE DEF threadVars
<1>1. CASE MainStep
  BY <1>1 DEF MainStep, Take, Join, Publish, Bind, Store, SetConfig, Respond,
              MainCopies, MainWrites, MainEmits
<1>2. CASE ThreadStep
  BY <1>2 DEF ThreadStep, CopyConfig, CopyStatus, ThreadWrites, ThreadEmits, Loop,
              Timeout, ReceiveFails
<1>3. CASE Mount \/ Invoke
  BY <1>3 DEF Mount, Invoke, get_app_state, start_dcsbios, stop_dcsbios,
              update_dcsbios_config, Command, Calls
<1>4. CASE BindListeners \/ Deliver
  BY <1>4 DEF BindListeners, Deliver, Response, Event, DeliverUnchanged
<1>5. CASE UNCHANGED vars
  BY <1>5 DEF vars, listenerVars
<1> QED BY <1>1, <1>2, <1>3, <1>4, <1>5 DEF Next

LEMMA PacketKeepsMemory ==
    ASSUME MemoryInv, Packet
    PROVE  MemoryInv'
<1>1. PICK d \in Arriving :
        LET writes == Writes(d.bytes)
            result == Applied(memory, writes)
            panics == IF poisoned THEN writes # <<>> ELSE result.panics
        IN  /\ memory' = IF poisoned THEN memory ELSE result.memory
            /\ poisoned' = (poisoned \/ panics)
            /\ thread' = IF panics THEN "panicked" ELSE "config"
            /\ landed' = landed \o d.taken
  BY DEF Packet
<1>2. Writes(d.bytes) = d.taken /\ d.taken \in Seq(Receive)
  <2>1. PICK ws \in Sent : d \in DatagramsOf(ws)
    BY DEF Arriving
  <2>2. IsUpdate(ws)
    BY SentAssumption
  <2> QED BY <2>1, <2>2, DatagramRead
<1>3. PICK ws : ws = d.taken
  OBVIOUS
<1>4. ws \in Seq(Receive) /\ landed \in Seq(Receive) /\ landed' = landed \o ws
  BY <1>1, <1>2, <1>3 DEF MemoryInv
<1>5. /\ landed' \in Seq(Receive) /\ Len(landed') = Len(landed) + Len(ws)
      /\ Len(landed) \in Nat /\ Len(ws) \in Nat
      /\ \A k \in 1 .. Len(landed) : landed'[k] = landed[k]
      /\ \A k \in 1 .. Len(ws) : landed'[Len(landed) + k] = ws[k]
  <2>1. PICK ls, all : ls = landed /\ all = landed'
    OBVIOUS
  <2>2. ls \in Seq(Receive) /\ ws \in Seq(Receive) /\ all = ls \o ws
    BY <1>4, <2>1
  <2>3. /\ ls \o ws \in Seq(Receive)
        /\ Len(ls \o ws) = Len(ls) + Len(ws) /\ Len(ls) \in Nat /\ Len(ws) \in Nat
        /\ \A i \in 1 .. Len(ls) : (ls \o ws)[i] = ls[i]
        /\ \A i \in 1 .. Len(ws) : (ls \o ws)[Len(ls) + i] = ws[i]
    BY <1>4, <2>1, Joined
  <2> QED BY <2>1, <2>2, <2>3
<1>6. CASE poisoned
  <2>1. poisoned' = TRUE
    BY <1>1, <1>6
  <2>2. PICK k \in DOMAIN landed : AtTheEdge(landed[k])
    BY <1>6 DEF MemoryInv
  <2>3. k \in DOMAIN landed' /\ landed'[k] = landed[k]
    BY <1>4, <1>5
  <2>4. \E j \in DOMAIN landed' : AtTheEdge(landed'[j])
    BY <2>2, <2>3
  <2> QED BY <1>5, <2>1, <2>4 DEF MemoryInv
<1>7. CASE ~poisoned
  <2>1. PICK result : result = Applied(memory, ws)
    OBVIOUS
  <2>2. /\ memory' = result.memory
        /\ poisoned' = (poisoned \/ result.panics)
        /\ thread' = IF result.panics THEN "panicked" ELSE "config"
    BY <1>1, <1>2, <1>3, <1>7, <2>1
  <2>3. memory \in Memory /\ Holds(memory, landed, Len(landed))
    BY <1>7 DEF MemoryInv
  <2>4. CASE result.panics
    <3>1. PICK k \in DOMAIN ws : End(ws[k]) < 1 \/ End(ws[k]) > 65535
      BY <1>4, <2>1, <2>4, PanicAtEdge
    <3>2. Len(landed) + k \in DOMAIN landed' /\ landed'[Len(landed) + k] = ws[k]
      BY <1>4, <1>5
    <3>3. AtTheEdge(landed'[Len(landed) + k])
      BY <3>1, <3>2 DEF AtTheEdge
    <3>4. poisoned' = TRUE
      BY <2>2, <2>4
    <3> QED BY <1>5, <3>2, <3>3, <3>4 DEF MemoryInv
  <2>5. CASE ~result.panics
    <3>1. /\ result.memory \in Memory
          /\ Holds(result.memory, landed \o ws, Len(landed \o ws))
      BY <1>4, <2>1, <2>3, <2>5, HoldsAll
    <3>2. poisoned' = FALSE /\ thread' = "config"
      BY <1>7, <2>2, <2>5
    <3> QED BY <1>4, <1>5, <2>2, <3>1, <3>2 DEF MemoryInv
  <2> QED BY <2>4, <2>5
<1> QED BY <1>6, <1>7

(* Whatever updates are sent, and wherever they are cut.                   *)
THEOREM MemoryInvariant == Spec => []MemoryInv
<1>1. MemoryInv /\ [Next]_vars => MemoryInv'
  <2> SUFFICES ASSUME MemoryInv, [Next]_vars PROVE MemoryInv'
    OBVIOUS
  <2>1. CASE Packet
    BY <2>1, PacketKeepsMemory
  <2>2. CASE UNCHANGED memoryVars /\ (thread' = "panicked" => thread = "panicked")
    <3>1. memory' = memory /\ poisoned' = poisoned /\ landed' = landed
      BY <2>2 DEF memoryVars
    <3> QED BY <2>2, <3>1 DEF MemoryInv
  <2> QED BY <2>1, <2>2, OthersKeepMemory
<1> QED BY <1>1, MemoryStart, PTL DEF Spec

(* The memory holds every write that arrived whole in the datagram with    *)
(* which its update begins, in their order, and nothing else: whatever     *)
(* updates are sent in which the four bytes of the start come once, and    *)
(* wherever they are cut.                                                  *)
THEOREM MemoryTells == Spec => []MemoryHoldsWrites
<1>1. MemoryInv => MemoryHoldsWrites
  <2> SUFFICES ASSUME MemoryInv, ~poisoned
               PROVE  /\ \A k \in DOMAIN landed :
                           \A a \in landed[k].address .. End(landed[k]) - 1 :
                             a \in DOMAIN memory.at
                      /\ \A a \in DOMAIN memory.at : memory.at[a] = LeftAt(landed, a)
    BY DEF MemoryHoldsWrites
  <2>1. landed \in Seq(Receive) /\ Holds(memory, landed, Len(landed))
    BY DEF MemoryInv
  <2>2. DOMAIN landed = 1 .. Len(landed)
    BY <2>1
  <2>3. ASSUME NEW k \in DOMAIN landed, NEW a \in landed[k].address .. End(landed[k]) - 1
        PROVE  a \in DOMAIN memory.at
    BY <2>1, <2>2, <2>3 DEF Holds, Area
  <2>4. ASSUME NEW a \in DOMAIN memory.at PROVE memory.at[a] = LeftAt(landed, a)
    <3>1. PICK k \in 1 .. Len(landed) :
            LastAt(landed, Len(landed), a, k) /\ memory.at[a] = ByteOf(landed[k], a)
      BY <2>1 DEF Holds
    <3> QED BY <2>1, <3>1, LastLeft
  <2> QED BY <2>3, <2>4
<1> QED BY <1>1, MemoryInvariant, PTL

(* The thread panics only on a write that ends with the last byte of the   *)
(* memory, or on one of no bytes at address 0.                             *)
THEOREM PanicsAtEdge == Spec => []PanicsAtTheEdge
<1>1. MemoryInv => PanicsAtTheEdge
  BY DEF MemoryInv, PanicsAtTheEdge, AtTheEdge
<1> QED BY <1>1, MemoryInvariant, PTL
=============================================================================
