----------------------------- MODULE SourceProofs -----------------------------
(***************************************************************************)
(* The processes of a source, for any number of viewers, keys, formats and *)
(* sizes: the worker that is the broker of the host's keys with its        *)
(* media-net (MediaWorker), the frames on their way (FramePath) and the    *)
(* stamps of its audio (AudioTimeline).                                    *)
(***************************************************************************)
EXTENDS MediaWorker, FramePath, AudioTimeline, SequenceTheorems, FiniteSetTheorems, TLAPS

-----------------------------------------------------------------------------
(* The broker. *)

Lines ==
  {About(type, v) : type \in {"add-peer", "remove-peer"}, v \in Viewers}
  \cup {State(v, on) : v \in Viewers, on \in BOOLEAN}

Reports ==
  [type : {"net-ready", "fatal"}, peer : {NoViewer}]
  \cup [type : {"answer", "peer-failed", "peer-closed", "channel-closed"}, peer : Viewers]

FarRecord == [at : {"none", "joining", "answered", "leaving", "closed"},
              channel : {"none", "open", "closed"}]

NearRecord == [at : {"none", "known", "removing", "gone"}, notify : BOOLEAN, answered : BOOLEAN,
               control : BOOLEAN]

NetTypes ==
  /\ netAt \in {"loading", "up", "gone"}
  /\ far \in [Viewers -> FarRecord]
  /\ shown \in SUBSET Viewers
  /\ toNet \in Seq(Lines) /\ fromNet \in Seq(Reports)
  /\ typed \in Seq(UNION {Texts(v) : v \in Viewers})

BrokerTypes ==
  /\ life \in {"serving", "failing", "stopping", "over", "killed"}
  /\ waiting \in Seq(Viewers)
  /\ near \in [Viewers -> NearRecord]

\* One peer has control, which the worker knows, and keys are down while it has.
Controlled ==
  /\ \A v, w \in Viewers : near[v].control /\ near[w].control => v = w
  /\ \A v \in Viewers : near[v].control => Live(v)
  /\ pressed # {} /\ life # "killed" => \E v \in Viewers : near[v].control

\* Who waits does so once, and is not known yet.
WaitsOnce ==
  /\ \A i, j \in DOMAIN waiting : waiting[i] = waiting[j] => i = j
  /\ \A i \in DOMAIN waiting : near[waiting[i]].at = "none"

IsState(c, v) == c.type = "control-state" /\ c.peer = v
Adds(c, v) == c.type = "add-peer" /\ c.peer = v

\* A peer is added once.
AddedOnce(v) ==
  /\ near[v].at = "none" => far[v].at = "none" /\ \A i \in DOMAIN toNet : ~Adds(toNet[i], v)
  /\ \A i \in DOMAIN toNet : Adds(toNet[i], v) =>
       far[v].at = "none" /\ \A j \in DOMAIN toNet : Adds(toNet[j], v) => i = j

\* A channel is opened by a peer that was answered; a report of its close is of a closed one.
ChannelHolds(v) ==
  /\ far[v].at \in {"none", "joining"} => far[v].channel = "none"
  /\ \A i \in DOMAIN fromNet : fromNet[i] = Report("channel-closed", v) => far[v].channel = "closed"

\* Before that nothing is typed, and nobody has control.
Unopened(v) ==
  far[v].channel = "none" =>
    /\ ~near[v].control /\ v \notin shown
    /\ \A i \in DOMAIN toNet : IsState(toNet[i], v) => ~toNet[i].control
    /\ \A i \in DOMAIN typed : typed[i].peer # v

\* What the page shows once it has read what is on its way.
InStep(v) ==
  /\ \A i \in DOMAIN toNet :
       IsState(toNet[i], v) /\ (\A j \in DOMAIN toNet : j > i => ~IsState(toNet[j], v))
         => toNet[i].control = near[v].control
  /\ (\A i \in DOMAIN toNet : ~IsState(toNet[i], v)) => (v \in shown <=> near[v].control)

PageHolds(v) ==
  Live(v) /\ far[v].at = "answered" /\ far[v].channel = "open" => InStep(v)

Peer(v) == AddedOnce(v) /\ ChannelHolds(v) /\ Unopened(v) /\ PageHolds(v)

NetHolds == netAt # "gone" => \A v \in Viewers : Peer(v)

BrokerInv == NetTypes /\ BrokerTypes /\ Controlled /\ WaitsOnce /\ NetHolds

\* What s holds, t holds.
Within(s, t) == \A i \in DOMAIN s : \E j \in DOMAIN t : s[i] = t[j]

LEMMA SeqOfFunction ==
  ASSUME NEW S, NEW n \in Nat, NEW f \in [1..n -> S]
  PROVE  f \in Seq(S) /\ Len(f) = n /\ DOMAIN f = 1..n
OBVIOUS

LEMMA TailWithin ==
  ASSUME NEW S, NEW s \in Seq(S), s # <<>>
  PROVE  Tail(s) \in Seq(S) /\ Within(Tail(s), s)
<1>1. /\ Tail(s) \in Seq(S) /\ Len(Tail(s)) = Len(s) - 1
      /\ \A i \in 1..Len(Tail(s)) : Tail(s)[i] = s[i + 1]
  BY HeadTailProperties
<1>2. Len(s) \in Nat /\ DOMAIN s = 1..Len(s) /\ DOMAIN Tail(s) = 1..Len(Tail(s))
  BY <1>1, LenProperties
<1>3. ASSUME NEW i \in DOMAIN Tail(s) PROVE \E j \in DOMAIN s : Tail(s)[i] = s[j]
  BY <1>1, <1>2
<1>. QED BY <1>1, <1>3 DEF Within

\* The elements of s \o t, one after the other.
LEMMA Joined ==
  ASSUME NEW S, NEW s \in Seq(S), NEW t \in Seq(S), NEW u, u = s \o t
  PROVE  /\ u \in Seq(S)
         /\ \A i \in DOMAIN s : i \in DOMAIN u /\ u[i] = s[i]
         /\ \A k \in DOMAIN t : Len(s) + k \in DOMAIN u /\ u[Len(s) + k] = t[k]
         /\ \A i \in DOMAIN u : \/ i \in DOMAIN s /\ u[i] = s[i]
                                \/ i - Len(s) \in DOMAIN t /\ u[i] = t[i - Len(s)]
<1>1. /\ u \in Seq(S) /\ Len(u) = Len(s) + Len(t)
      /\ \A i \in 1..(Len(s) + Len(t)) : u[i] = IF i <= Len(s) THEN s[i] ELSE t[i - Len(s)]
  BY ConcatProperties
<1>2. /\ Len(s) \in Nat /\ DOMAIN s = 1..Len(s) /\ Len(t) \in Nat /\ DOMAIN t = 1..Len(t)
      /\ DOMAIN u = 1..Len(u)
  BY <1>1, LenProperties
<1>3. ASSUME NEW i \in DOMAIN s PROVE i \in DOMAIN u /\ u[i] = s[i]
  BY <1>1, <1>2
<1>4. ASSUME NEW k \in DOMAIN t PROVE Len(s) + k \in DOMAIN u /\ u[Len(s) + k] = t[k]
  BY <1>1, <1>2
<1>5. ASSUME NEW i \in DOMAIN u
      PROVE  \/ i \in DOMAIN s /\ u[i] = s[i]
             \/ i - Len(s) \in DOMAIN t /\ u[i] = t[i - Len(s)]
  BY <1>1, <1>2
<1>. QED BY <1>1, <1>3, <1>4, <1>5

-----------------------------------------------------------------------------
(* What the worker says. *)

\* What a turn of the worker makes of the peer v, and what `lines` say of it.
Tells(v, lines) ==
  /\ \/ near'[v].at = near[v].at
     \/ near[v].at = "none" /\ near'[v].at = "known"
     \/ near'[v].at \in {"removing", "gone"}
  /\ near'[v].control => near[v].control \/ far[v].channel # "none"
  /\ \A i \in DOMAIN lines : IsState(lines[i], v) => lines[i].control = near'[v].control
  /\ near'[v].control = near[v].control \/ near'[v].at # "known" \/ far[v].channel # "open"
       \/ \E i \in DOMAIN lines : IsState(lines[i], v)
  /\ \A i \in DOMAIN lines : Adds(lines[i], v) =>
       /\ near[v].at = "none" /\ near'[v].at # "none"
       /\ \A j \in DOMAIN lines : Adds(lines[j], v) => i = j

\* A turn that tells media-net `lines`, and may take what is first on the pipes.
Speaks(lines) ==
  /\ lines \in Seq(Lines) /\ SendNet(lines)
  /\ netAt' = netAt /\ far' = far /\ shown' = shown
  /\ fromNet' \in Seq(Reports) /\ Within(fromNet', fromNet)
  /\ typed' \in Seq(UNION {Texts(v) : v \in Viewers}) /\ Within(typed', typed)

Says(v, lines) == Speaks(lines) /\ netAt # "gone" /\ Tells(v, lines)

LEMMA SaidAdded ==
  ASSUME NetTypes, NEW v \in Viewers, AddedOnce(v), NEW lines, Says(v, lines)
  PROVE  AddedOnce(v)'
<1>1. /\ \A i \in DOMAIN toNet' : \/ i \in DOMAIN toNet /\ toNet'[i] = toNet[i]
                                  \/ i - Len(toNet) \in DOMAIN lines /\ toNet'[i] = lines[i - Len(toNet)]
  BY Joined DEF Says, Speaks, SendNet, Tells, NetTypes
<1>2. toNet' \in Seq(Lines)
  BY Joined DEF Says, Speaks, SendNet, Tells, NetTypes
<1>3. DOMAIN toNet' \subseteq Int /\ Len(toNet) \in Int
  BY <1>2, LenProperties DEF NetTypes
<1>4. ASSUME near'[v].at = "none"
      PROVE  far'[v].at = "none" /\ \A i \in DOMAIN toNet' : ~Adds(toNet'[i], v)
  BY <1>1, <1>4 DEF Says, Speaks, SendNet, Tells, AddedOnce
<1>5. ASSUME NEW i \in DOMAIN toNet', Adds(toNet'[i], v)
      PROVE  far'[v].at = "none" /\ \A j \in DOMAIN toNet' : Adds(toNet'[j], v) => i = j
  <2>1. CASE i \in DOMAIN toNet /\ toNet'[i] = toNet[i]
    <3>1. near[v].at # "none" /\ far'[v].at = "none"
      BY <1>5, <2>1 DEF Says, Speaks, SendNet, Tells, AddedOnce
    <3>2. ASSUME NEW j \in DOMAIN toNet', Adds(toNet'[j], v) PROVE i = j
      BY <1>1, <1>5, <2>1, <3>1, <3>2 DEF Says, Speaks, SendNet, Tells, AddedOnce
    <3>. QED BY <3>1, <3>2
  <2>2. CASE i - Len(toNet) \in DOMAIN lines /\ toNet'[i] = lines[i - Len(toNet)]
    <3>1. near[v].at = "none" /\ far'[v].at = "none"
      BY <1>5, <2>2 DEF Says, Speaks, SendNet, Tells, AddedOnce
    <3>2. ASSUME NEW j \in DOMAIN toNet', Adds(toNet'[j], v) PROVE i = j
      <4>1. j - Len(toNet) \in DOMAIN lines /\ toNet'[j] = lines[j - Len(toNet)]
        BY <1>1, <3>1, <3>2 DEF AddedOnce
      <4>2. i - Len(toNet) = j - Len(toNet)
        BY <1>5, <2>2, <3>2, <4>1 DEF Says, Speaks, SendNet, Tells
      <4>. QED BY <1>3, <4>2
    <3>. QED BY <3>1, <3>2
  <2>. QED BY <1>1, <1>5, <2>1, <2>2
<1>. QED BY <1>4, <1>5 DEF AddedOnce

LEMMA SaidUnopened ==
  ASSUME NetTypes, NEW v \in Viewers, Unopened(v), NEW lines, Says(v, lines),
         near' \in [Viewers -> NearRecord]
  PROVE  Unopened(v)'
<1>. SUFFICES ASSUME far'[v].channel = "none" PROVE Unopened(v)'
  BY DEF Unopened
<1>1. far[v].channel = "none" /\ ~near[v].control /\ v \notin shown /\ ~near'[v].control
  BY DEF Says, Speaks, SendNet, Tells, Unopened
<1>2. ASSUME NEW i \in DOMAIN toNet', IsState(toNet'[i], v) PROVE ~toNet'[i].control
  <2>1. \/ i \in DOMAIN toNet /\ toNet'[i] = toNet[i]
        \/ i - Len(toNet) \in DOMAIN lines /\ toNet'[i] = lines[i - Len(toNet)]
    BY Joined DEF Says, Speaks, SendNet, Tells, NetTypes
  <2>. QED BY <1>1, <1>2, <2>1 DEF Says, Speaks, SendNet, Tells, Unopened
<1>3. ASSUME NEW i \in DOMAIN typed' PROVE typed'[i].peer # v
  BY <1>1 DEF Says, Speaks, SendNet, Tells, Unopened, Within
<1>. QED BY <1>1, <1>2, <1>3 DEF Says, Speaks, SendNet, Tells, Unopened

LEMMA SaidPage ==
  ASSUME NetTypes, NEW v \in Viewers, AddedOnce(v), PageHolds(v), NEW lines, Says(v, lines)
  PROVE  PageHolds(v)'
<1>. SUFFICES ASSUME Live(v)', far'[v].at = "answered", far'[v].channel = "open"
              PROVE  InStep(v)'
  BY DEF PageHolds
<1>1. Live(v) /\ InStep(v) /\ shown' = shown
  BY DEF Says, Speaks, SendNet, Tells, AddedOnce, PageHolds, Live
<1>2. /\ \A i \in DOMAIN toNet : i \in DOMAIN toNet' /\ toNet'[i] = toNet[i]
      /\ \A k \in DOMAIN lines : Len(toNet) + k \in DOMAIN toNet' /\ toNet'[Len(toNet) + k] = lines[k]
      /\ \A i \in DOMAIN toNet' : \/ i \in DOMAIN toNet /\ toNet'[i] = toNet[i]
                                  \/ i - Len(toNet) \in DOMAIN lines /\ toNet'[i] = lines[i - Len(toNet)]
  <2>1. toNet \in Seq(Lines) /\ lines \in Seq(Lines) /\ toNet' = toNet \o lines
    BY DEF Says, Speaks, SendNet, Tells, NetTypes
  <2>. QED BY <2>1, Joined
<1>3. /\ DOMAIN toNet = 1..Len(toNet) /\ Len(toNet) \in Nat
      /\ DOMAIN lines = 1..Len(lines) /\ Len(lines) \in Nat
  BY LenProperties DEF Says, Speaks, SendNet, Tells, NetTypes
<1>4. (\A k \in DOMAIN lines : ~IsState(lines[k], v)) => near'[v].control = near[v].control
  BY DEF Says, Speaks, SendNet, Tells, Live
<1>5. ASSUME NEW i \in DOMAIN toNet', IsState(toNet'[i], v),
             \A j \in DOMAIN toNet' : j > i => ~IsState(toNet'[j], v)
      PROVE  toNet'[i].control = near'[v].control
  <2>1. CASE i \in DOMAIN toNet /\ toNet'[i] = toNet[i]
    <3>1. ASSUME NEW k \in DOMAIN lines PROVE ~IsState(lines[k], v)
      BY <1>2, <1>3, <1>5, <2>1
    <3>2. ASSUME NEW j \in DOMAIN toNet, j > i PROVE ~IsState(toNet[j], v)
      BY <1>2, <1>5, <3>2
    <3>. QED BY <1>1, <1>4, <1>5, <2>1, <3>1, <3>2 DEF InStep
  <2>2. CASE i - Len(toNet) \in DOMAIN lines /\ toNet'[i] = lines[i - Len(toNet)]
    BY <1>5, <2>2 DEF Says, Speaks, SendNet, Tells
  <2>. QED BY <1>2, <2>1, <2>2
<1>6. ASSUME \A i \in DOMAIN toNet' : ~IsState(toNet'[i], v)
      PROVE  v \in shown' <=> near'[v].control
  <2>1. ASSUME NEW i \in DOMAIN toNet PROVE ~IsState(toNet[i], v)
    BY <1>2, <1>6
  <2>2. ASSUME NEW k \in DOMAIN lines PROVE ~IsState(lines[k], v)
    BY <1>2, <1>6
  <2>. QED BY <1>1, <1>4, <2>1, <2>2 DEF InStep
<1>. QED BY <1>5, <1>6 DEF InStep

LEMMA SaidPeer ==
  ASSUME NetTypes, NEW v \in Viewers, Peer(v), NEW lines, Says(v, lines),
         near' \in [Viewers -> NearRecord]
  PROVE  Peer(v)'
<1>1. ChannelHolds(v)'
  BY DEF Peer, ChannelHolds, Says, Speaks, Within
<1>. QED BY <1>1, SaidAdded, SaidUnopened, SaidPage DEF Peer

LEMMA WorkerSpeaks ==
  ASSUME NetTypes, NetHolds, NEW lines, Speaks(lines), near' \in [Viewers -> NearRecord],
         netAt # "gone" => \A v \in Viewers : Tells(v, lines)
  PROVE  NetTypes' /\ NetHolds'
<1>1. toNet' \in Seq(Lines)
  <2>1. CASE netAt = "gone"
    BY <2>1 DEF Speaks, SendNet, NetTypes
  <2>2. CASE netAt # "gone"
    <3>1. toNet \in Seq(Lines) /\ lines \in Seq(Lines) /\ toNet' = toNet \o lines
      BY <2>2 DEF Speaks, SendNet, NetTypes
    <3>. QED BY <3>1, Joined
  <2>. QED BY <2>1, <2>2
<1>2. NetTypes'
  BY <1>1 DEF NetTypes, Speaks
<1>3. ASSUME netAt' # "gone", NEW v \in Viewers PROVE Peer(v)'
  <2>1. Peer(v) /\ Says(v, lines)
    BY <1>3 DEF NetHolds, Speaks, Says
  <2>. QED BY <2>1, SaidPeer
<1>. QED BY <1>2, <1>3 DEF NetHolds

\* Nothing is read.
LEMMA NothingRead ==
  ASSUME NetTypes, UNCHANGED <<netAt, far, shown, fromNet, typed>>, NEW lines \in Seq(Lines),
         SendNet(lines)
  PROVE  Speaks(lines)
BY DEF NetTypes, Speaks, Within

\* Nothing is said.
LEMMA NothingSaid ==
  ASSUME NetTypes, UNCHANGED toNet
  PROVE  <<>> \in Seq(Lines) /\ SendNet(<<>>)
<1>1. toNet \in Seq(Lines) /\ toNet \o <<>> = toNet
  BY ConcatEmptySeq DEF NetTypes
<1>. QED BY <1>1 DEF SendNet

\* Control goes on or ends, and what is held down goes with it.
LEMMA ControlKept ==
  ASSUME Controlled, life' = "killed" \/ life # "killed",
         \A v \in Viewers : near'[v].control => near[v].control /\ near'[v].at = "known",
         pressed' # {} => pressed # {} /\ \A v \in Viewers : near[v].control => near'[v].control
  PROVE  Controlled'
BY DEF Controlled, Live

LEMMA LineTypes ==
  /\ \A v \in Viewers, on \in BOOLEAN : State(v, on) \in Lines
  /\ \A v \in Viewers : About("add-peer", v) \in Lines /\ About("remove-peer", v) \in Lines
BY DEF Lines

\* What each line says of whom.
LEMMA LineReads ==
  /\ \A v, w \in Viewers, on \in BOOLEAN :
       (IsState(State(v, on), w) <=> v = w) /\ State(v, on).control = on /\ ~Adds(State(v, on), w)
  /\ \A v, w \in Viewers :
       /\ ~IsState(About("add-peer", v), w) /\ ~IsState(About("remove-peer", v), w)
       /\ (Adds(About("add-peer", v), w) <=> v = w) /\ ~Adds(About("remove-peer", v), w)
BY DEF IsState, Adds, State, About

\* A line by which v loses control.
Ends(said, v) == said.type = "control-state" /\ said.peer = v /\ said.control = FALSE

LEMMA EndReads ==
  ASSUME NEW v \in Viewers
  PROVE  Ends(State(v, FALSE), v)
BY DEF State, Ends

LEMMA OneLine ==
  ASSUME NEW said \in Lines, NEW lines, lines = <<said>>
  PROVE  lines \in Seq(Lines) /\ DOMAIN lines = {1} /\ lines[1] = said
OBVIOUS

LEMMA TwoLines ==
  ASSUME NEW one \in Lines, NEW two \in Lines, NEW lines, lines = <<one, two>>
  PROVE  lines \in Seq(Lines) /\ DOMAIN lines = {1, 2} /\ lines[1] = one /\ lines[2] = two
OBVIOUS

\* A peer of which nothing changes, and nothing is said.
LEMMA Untouched ==
  ASSUME NEW v, near'[v] = near[v], NEW lines,
         \A i \in DOMAIN lines : ~IsState(lines[i], v) /\ ~Adds(lines[i], v)
  PROVE  Tells(v, lines)
BY DEF Tells

\* A peer that is told it has no control.
LEMMA ToldOfEnd ==
  ASSUME NEW v, near'[v].at = near[v].at \/ near'[v].at = "removing", near'[v].control = FALSE,
         NEW lines,
         \A i \in DOMAIN lines : IsState(lines[i], v) => lines[i].control = FALSE,
         \E i \in DOMAIN lines : IsState(lines[i], v),
         \A i \in DOMAIN lines : ~Adds(lines[i], v)
  PROVE  Tells(v, lines)
BY DEF Tells

LEMMA AddPeerKeeps ==
  ASSUME BrokerInv, NEW v \in Viewers, AddPeer(v)
  PROVE  BrokerInv'
<1>. USE DEF BrokerInv
<1>1. CASE netUp
  <2>. DEFINE lines == <<About("add-peer", v)>>
  <2>1. lines \in Seq(Lines) /\ DOMAIN lines = {1} /\ lines[1] = About("add-peer", v)
    BY LineTypes, OneLine
  <2>2. /\ near' = [near EXCEPT ![v].at = "known"] /\ SendNet(lines) /\ UNCHANGED waiting
        /\ near[v].at = "none" /\ ~IsWaiting(v) /\ UNCHANGED <<life, pressed>>
        /\ UNCHANGED <<netAt, far, shown, fromNet, typed>>
    BY <1>1 DEF AddPeer
  <2>3. /\ near' \in [Viewers -> NearRecord]
        /\ \A w \in Viewers : near'[w].control = near[w].control
        /\ near'[v].at = "known" /\ \A w \in Viewers \ {v} : near'[w] = near[w]
    BY <2>2 DEF BrokerTypes, NearRecord
  <2>4. ASSUME NEW w \in Viewers PROVE Tells(w, lines)
    BY <2>1, <2>2, <2>3, LineReads DEF Tells
  <2>5. Speaks(lines)
    BY <2>1, <2>2, NothingRead
  <2>6. NetTypes' /\ NetHolds'
    BY <2>3, <2>4, <2>5, WorkerSpeaks
  <2>7. Controlled'
    BY <2>2, <2>3 DEF Controlled, Live
  <2>8. WaitsOnce'
    BY <2>2, <2>3 DEF WaitsOnce, IsWaiting, BrokerTypes
  <2>. QED BY <2>2, <2>3, <2>6, <2>7, <2>8 DEF BrokerTypes
<1>2. CASE ~netUp
  <2>1. /\ waiting' = Append(waiting, v) /\ UNCHANGED <<near, toNet, life, pressed>>
        /\ near[v].at = "none" /\ ~IsWaiting(v)
        /\ UNCHANGED <<netAt, far, shown, fromNet, typed>>
    BY <1>2 DEF AddPeer
  <2>2. NetTypes' /\ NetHolds'
    BY <2>1 DEF NetTypes, NetHolds, Peer, AddedOnce, ChannelHolds, Unopened, PageHolds, InStep, Live
  <2>3. Controlled' /\ BrokerTypes'
    BY <2>1, AppendProperties DEF Controlled, Live, BrokerTypes
  <2>4. /\ DOMAIN waiting = 1..Len(waiting) /\ Len(waiting) \in Nat
        /\ DOMAIN waiting' = 1..(Len(waiting) + 1)
        /\ \A i \in 1..Len(waiting) : waiting'[i] = waiting[i]
        /\ waiting'[Len(waiting) + 1] = v
    <3>1. waiting \in Seq(Viewers)
      BY DEF BrokerTypes
    <3>. QED BY <2>1, <3>1, AppendProperties, LenProperties
  <2>5. WaitsOnce'
    BY <2>1, <2>4 DEF WaitsOnce, IsWaiting
  <2>. QED BY <2>2, <2>3, <2>5
<1>. QED BY <1>1, <1>2

\* Who waits without v, and keeps the order.
LEMMA WithoutOne ==
  ASSUME NEW q \in Seq(Viewers), NEW v \in Viewers, \E i \in DOMAIN q : q[i] = v,
         \A i, j \in DOMAIN q : q[i] = q[j] => i = j
  PROVE  /\ Without(q, v) \in Seq(Viewers)
         /\ \A i, j \in DOMAIN Without(q, v) : Without(q, v)[i] = Without(q, v)[j] => i = j
         /\ \A i \in DOMAIN Without(q, v) : \E j \in DOMAIN q : Without(q, v)[i] = q[j]
<1>. DEFINE k == CHOOSE i \in DOMAIN q : q[i] = v
            e == [i \in 1..(Len(q) - 1) |-> IF i < k THEN q[i] ELSE q[i + 1]]
<1>1. e = Without(q, v)
  BY DEF Without
<1>2. k \in DOMAIN q
  OBVIOUS
<1>3. Len(q) \in Nat /\ DOMAIN q = 1..Len(q) /\ \A i \in DOMAIN q : q[i] \in Viewers
  BY LenProperties
<1>4. Len(q) - 1 \in Nat
  BY <1>2, <1>3
<1>. HIDE DEF k
<1>5. \A i \in 1..(Len(q) - 1) : /\ i \in DOMAIN q /\ i + 1 \in DOMAIN q
                                 /\ e[i] = q[IF i < k THEN i ELSE i + 1]
  BY <1>3
<1>6. e \in [1..(Len(q) - 1) -> Viewers]
  BY <1>3
<1>7. e \in Seq(Viewers) /\ DOMAIN e = 1..(Len(q) - 1)
  BY <1>4, <1>6, SeqOfFunction
<1>. HIDE DEF e
<1>8. ASSUME NEW i \in DOMAIN e PROVE \E j \in DOMAIN q : e[i] = q[j]
  BY <1>5, <1>7
<1>9. ASSUME NEW i \in DOMAIN e, NEW j \in DOMAIN e, e[i] = e[j] PROVE i = j
  <2>1. (IF i < k THEN i ELSE i + 1) = (IF j < k THEN j ELSE j + 1)
    <3>1. /\ (IF i < k THEN i ELSE i + 1) \in DOMAIN q /\ (IF j < k THEN j ELSE j + 1) \in DOMAIN q
          /\ e[i] = q[IF i < k THEN i ELSE i + 1] /\ e[j] = q[IF j < k THEN j ELSE j + 1]
      BY <1>5, <1>7
    <3>. QED BY <1>9, <3>1
  <2>. QED BY <1>2, <1>3, <1>7, <2>1
<1>. QED BY <1>1, <1>7, <1>8, <1>9

LEMMA RemovePeerKeeps ==
  ASSUME BrokerInv, NEW v \in Viewers, RemovePeer(v)
  PROVE  BrokerInv'
<1>. USE DEF BrokerInv
<1>1. /\ UNCHANGED <<netAt, far, shown, fromNet, typed, life>>
      /\ waiting' = IF IsWaiting(v) THEN Without(waiting, v) ELSE waiting
  BY DEF RemovePeer
<1>2. /\ waiting' \in Seq(Viewers)
      /\ \A i, j \in DOMAIN waiting' : waiting'[i] = waiting'[j] => i = j
      /\ \A i \in DOMAIN waiting' : \E j \in DOMAIN waiting : waiting'[i] = waiting[j]
  <2>1. CASE IsWaiting(v)
    BY <1>1, <2>1, WithoutOne DEF IsWaiting, WaitsOnce, BrokerTypes
  <2>2. CASE ~IsWaiting(v)
    BY <1>1, <2>2 DEF WaitsOnce, BrokerTypes
  <2>. QED BY <2>1, <2>2
<1>3. CASE Live(v)
  <2>. DEFINE lines == <<State(v, FALSE), About("remove-peer", v)>>
  <2>1. lines \in Seq(Lines) /\ DOMAIN lines = {1, 2}
        /\ Ends(lines[1], v) /\ lines[2].type = "remove-peer"
    <3>1. State(v, FALSE) \in Lines /\ About("remove-peer", v) \in Lines
      BY LineTypes
    <3>2. lines \in Seq(Lines) /\ DOMAIN lines = {1, 2}
          /\ lines[1] = State(v, FALSE) /\ lines[2] = About("remove-peer", v)
      BY <3>1, TwoLines
    <3>. HIDE DEF lines
    <3>3. Ends(lines[1], v)
      BY <3>2, EndReads
    <3>4. lines[2].type = "remove-peer"
      BY <3>2 DEF About
    <3>. QED BY <3>2, <3>3, <3>4
  <2>2. /\ near' = [near EXCEPT ![v] = [@ EXCEPT !.at = "removing", !.notify = TRUE, !.control = FALSE]]
        /\ pressed' = Released(v) /\ SendNet(lines)
    BY <1>3 DEF RemovePeer
  <2>3. /\ near' \in [Viewers -> NearRecord]
        /\ near'[v].at = "removing" /\ near'[v].control = FALSE
        /\ \A w \in Viewers \ {v} : near'[w] = near[w]
    BY <2>2 DEF BrokerTypes, NearRecord
  <2>4. ASSUME NEW w \in Viewers PROVE Tells(w, lines)
    <3>. HIDE DEF lines
    <3>1. CASE w = v
      <4>1. \A i \in DOMAIN lines : IsState(lines[i], v) => lines[i].control = FALSE
        BY <2>1 DEF IsState, Adds, About, Ends
      <4>2. IsState(lines[1], v) /\ \A i \in DOMAIN lines : ~Adds(lines[i], v)
        BY <2>1 DEF IsState, Adds, About, Ends
      <4>. QED BY <2>1, <2>3, <3>1, <4>1, <4>2, ToldOfEnd
    <3>2. CASE w # v
      <4>1. \A i \in DOMAIN lines : ~IsState(lines[i], w) /\ ~Adds(lines[i], w)
        BY <2>1, <3>2 DEF IsState, Adds, About, Ends
      <4>. QED BY <2>3, <3>2, <4>1, Untouched
    <3>. QED BY <3>1, <3>2
  <2>5. Speaks(lines)
    BY <1>1, <2>1, <2>2, NothingRead
  <2>6. NetTypes' /\ NetHolds'
    BY <2>3, <2>4, <2>5, WorkerSpeaks
  <2>7. Controlled'
    BY <1>1, <2>2, <2>3 DEF Controlled, Live, Released
  <2>8. WaitsOnce'
    BY <1>2, <1>3, <2>3 DEF WaitsOnce, BrokerTypes, Live
  <2>. QED BY <1>1, <1>2, <2>3, <2>6, <2>7, <2>8 DEF BrokerTypes
<1>4. CASE ~Live(v)
  <2>1. UNCHANGED <<near, toNet, pressed>>
    BY <1>4 DEF RemovePeer
  <2>2. NetTypes' /\ NetHolds'
    BY <1>1, <2>1 DEF NetTypes, NetHolds, Peer, AddedOnce, ChannelHolds, Unopened, PageHolds, InStep, Live
  <2>3. Controlled' /\ BrokerTypes'
    BY <1>1, <1>2, <2>1 DEF Controlled, Live, BrokerTypes
  <2>4. WaitsOnce'
    BY <1>2, <2>1 DEF WaitsOnce
  <2>. QED BY <2>2, <2>3, <2>4
<1>. QED BY <1>3, <1>4

-----------------------------------------------------------------------------
(* Permission. *)

\* At most one viewer.
AtMostOne(out) == out \in SUBSET Viewers /\ \A v, w \in out : v = w

\* An order of those of `out`, and the lines by which they lose control in it.
Ordered(order, out) ==
  order \in [1..Cardinality(out) -> out] /\ \A v \in out : \E i \in DOMAIN order : order[i] = v

Ending(order) == [i \in DOMAIN order |-> State(order[i], FALSE)]

Ended(lines, out) ==
  /\ lines \in Seq(Lines)
  /\ \A i \in DOMAIN lines : \E v \in out : Ends(lines[i], v)
  /\ \A v \in out : \E i \in DOMAIN lines : Ends(lines[i], v)

LEMMA ToldInOrder ==
  ASSUME NEW out, AtMostOne(out), NEW order, Ordered(order, out)
  PROVE  Ended(Ending(order), out)
<1>. USE DEF AtMostOne, Ordered
<1>. DEFINE lines == Ending(order)
<1>1. Cardinality(out) \in Nat
  <2>1. CASE out = {}
    <3>1. Cardinality(out) = 0
      BY <2>1, FS_EmptySet
    <3>. QED BY <3>1
  <2>2. ASSUME NEW v \in out PROVE Cardinality(out) \in Nat
    <3>1. out = {v}
      BY <2>2
    <3>2. Cardinality(out) = 1
      BY <3>1, FS_Singleton
    <3>. QED BY <3>2
  <2>. QED BY <2>1, <2>2
<1>2. DOMAIN order = 1..Cardinality(out) /\ \A i \in DOMAIN order : order[i] \in out
  OBVIOUS
<1>3. lines \in [1..Cardinality(out) -> Lines] /\ \A i \in DOMAIN order : lines[i] = State(order[i], FALSE)
  BY <1>2, LineTypes DEF Ending
<1>. HIDE DEF lines
<1>4. lines \in Seq(Lines) /\ DOMAIN lines = DOMAIN order
  BY <1>1, <1>2, <1>3, SeqOfFunction
<1>5. \A i \in DOMAIN lines : lines[i] = State(order[i], FALSE)
  BY <1>3, <1>4
<1>6. ASSUME NEW i \in DOMAIN lines PROVE Ends(lines[i], order[i]) /\ order[i] \in out
  BY <1>2, <1>4, <1>5, EndReads
<1>7. Ended(lines, out)
  BY <1>4, <1>6 DEF Ended
<1>. QED BY <1>7 DEF lines

LEMMA EnforcedSays ==
  ASSUME BrokerInv, NEW lease, NEW stale, Enforced(lease, stale),
         UNCHANGED <<netAt, far, shown, fromNet, typed, waiting, life>>
  PROVE  BrokerInv'
<1>. USE DEF BrokerInv
<1>. DEFINE out == {v \in Controllers : v \in stale \/ lease # v}
<1>1. /\ near' = [v \in Viewers |-> IF v \in out THEN [near[v] EXCEPT !.control = FALSE] ELSE near[v]]
      /\ pressed' = IF out # {} THEN {} ELSE pressed
  BY DEF Enforced
<1>2. PICK order : Ordered(order, out) /\ SendNet(Ending(order))
  BY DEF Enforced, Ordered, Ending
<1>3. AtMostOne(out) /\ (\A v \in out : near[v].control) /\ out \in SUBSET Viewers
  BY DEF Controllers, Controlled, AtMostOne
<1>. HIDE DEF out
<1>4. PICK lines : Ended(lines, out) /\ SendNet(lines)
  BY <1>2, <1>3, ToldInOrder
<1>5. /\ lines \in Seq(Lines)
      /\ \A i \in DOMAIN lines : \E v \in out : Ends(lines[i], v)
      /\ \A v \in out : \E i \in DOMAIN lines : Ends(lines[i], v)
  BY <1>4 DEF Ended
<1>6. /\ near' \in [Viewers -> NearRecord]
      /\ \A v \in out : near'[v].at = near[v].at /\ near'[v].control = FALSE
      /\ \A v \in Viewers \ out : near'[v] = near[v]
  BY <1>1, <1>3 DEF BrokerTypes, NearRecord
<1>7. ASSUME NEW v \in Viewers PROVE Tells(v, lines)
  <2>1. CASE v \in out
    <3>1. \A i \in DOMAIN lines : IsState(lines[i], v) => lines[i].control = FALSE
      BY <1>3, <1>5 DEF IsState, Adds, About, Ends
    <3>2. (\E i \in DOMAIN lines : IsState(lines[i], v)) /\ \A i \in DOMAIN lines : ~Adds(lines[i], v)
      BY <1>3, <1>5, <2>1 DEF IsState, Adds, About, Ends
    <3>. QED BY <1>6, <2>1, <3>1, <3>2, ToldOfEnd
  <2>2. CASE v \notin out
    <3>1. \A i \in DOMAIN lines : ~IsState(lines[i], v) /\ ~Adds(lines[i], v)
      BY <1>3, <1>5, <2>2 DEF IsState, Adds, About, Ends
    <3>. QED BY <1>6, <2>2, <3>1, Untouched
  <2>. QED BY <2>1, <2>2
<1>8. Speaks(lines)
  BY <1>4, <1>5, NothingRead
<1>9. NetTypes' /\ NetHolds'
  BY <1>6, <1>7, <1>8, WorkerSpeaks
<1>10. Controlled'
  BY <1>1, <1>3, <1>6 DEF Controlled, Live
<1>11. WaitsOnce'
  BY <1>6 DEF WaitsOnce, BrokerTypes
<1>. QED BY <1>6, <1>9, <1>10, <1>11 DEF BrokerTypes

LEMMA RevokeKeeps ==
  ASSUME BrokerInv, NEW v \in Viewers, Revoke(v)
  PROVE  BrokerInv'
<1>. USE DEF BrokerInv
<1>. DEFINE lines == <<State(v, FALSE)>>
<1>1. lines \in Seq(Lines) /\ DOMAIN lines = {1} /\ Ends(lines[1], v)
  <2>1. State(v, FALSE) \in Lines
    BY LineTypes
  <2>2. lines \in Seq(Lines) /\ DOMAIN lines = {1} /\ lines[1] = State(v, FALSE)
    BY <2>1, OneLine
  <2>. HIDE DEF lines
  <2>. QED BY <2>2, EndReads
<1>2. /\ near' = [near EXCEPT ![v].control = FALSE] /\ pressed' = Released(v) /\ SendNet(lines)
      /\ UNCHANGED <<netAt, far, shown, fromNet, typed, life, waiting>>
  BY DEF Revoke
<1>3. /\ near' \in [Viewers -> NearRecord]
      /\ near'[v].at = near[v].at /\ near'[v].control = FALSE
      /\ \A w \in Viewers \ {v} : near'[w] = near[w]
  BY <1>2 DEF BrokerTypes, NearRecord
<1>4. ASSUME NEW w \in Viewers PROVE Tells(w, lines)
  <2>. HIDE DEF lines
  <2>1. CASE w = v
    <3>1. \A i \in DOMAIN lines : IsState(lines[i], v) => lines[i].control = FALSE
      BY <1>1 DEF IsState, Adds, About, Ends
    <3>2. IsState(lines[1], v) /\ \A i \in DOMAIN lines : ~Adds(lines[i], v)
      BY <1>1 DEF IsState, Adds, About, Ends
    <3>. QED BY <1>1, <1>3, <2>1, <3>1, <3>2, ToldOfEnd
  <2>2. CASE w # v
    <3>1. \A i \in DOMAIN lines : ~IsState(lines[i], w) /\ ~Adds(lines[i], w)
      BY <1>1, <2>2 DEF IsState, Adds, About, Ends
    <3>. QED BY <1>3, <2>2, <3>1, Untouched
  <2>. QED BY <2>1, <2>2
<1>5. Speaks(lines)
  BY <1>1, <1>2, NothingRead
<1>6. NetTypes' /\ NetHolds'
  BY <1>3, <1>4, <1>5, WorkerSpeaks
<1>7. Controlled'
  BY <1>2, <1>3 DEF Controlled, Live, Released
<1>8. WaitsOnce'
  BY <1>2, <1>3 DEF WaitsOnce, BrokerTypes
<1>. QED BY <1>2, <1>3, <1>6, <1>7, <1>8 DEF BrokerTypes

LEMMA GrantKeeps ==
  ASSUME BrokerInv, NEW v \in Viewers, Grant(v)
  PROVE  BrokerInv'
<1>1. PICK lease : lease = permitted'
  OBVIOUS
<1>2. Enforced(lease, {}) /\ UNCHANGED <<netAt, far, shown, fromNet, typed, waiting, life>>
  BY <1>1 DEF Grant
<1>. QED BY <1>2, EnforcedSays

LEMMA EnforceTickKeeps ==
  ASSUME BrokerInv, EnforceTick
  PROVE  BrokerInv'
<1>1. PICK v \in Controllers : Enforced(permitted, {v})
  BY DEF EnforceTick
<1>2. PICK lease : lease = permitted
  OBVIOUS
<1>3. Enforced(lease, {v}) /\ UNCHANGED <<netAt, far, shown, fromNet, typed, waiting, life>>
  BY <1>1, <1>2 DEF EnforceTick
<1>. QED BY <1>3, EnforcedSays

\* The pipes rest, and so do the peers.
LEMMA RestKeeps ==
  ASSUME BrokerInv, UNCHANGED <<netVars, waiting, near>>, pressed' \in {pressed, {}},
         life' \in {life, "failing", "stopping"}, life # "killed" \/ life' = life
  PROVE  BrokerInv'
<1>1. NetTypes' /\ NetHolds'
  BY DEF BrokerInv, netVars, NetTypes, NetHolds, Peer, AddedOnce, ChannelHolds, Unopened, PageHolds,
         InStep, Live
<1>2. BrokerTypes' /\ WaitsOnce'
  BY DEF BrokerInv, BrokerTypes, WaitsOnce
<1>3. Controlled'
  BY DEF BrokerInv, Controlled, Live
<1>. QED BY <1>1, <1>2, <1>3 DEF BrokerInv

LEMMA RestingKeeps ==
  ASSUME BrokerInv, Lapse \/ PipeEnds \/ SourceFails \/ BeginShutdown
  PROVE  BrokerInv'
<1>1. CASE Lapse
  BY <1>1, RestKeeps DEF Lapse
<1>2. CASE PipeEnds
  BY <1>2, RestKeeps DEF PipeEnds
<1>3. CASE SourceFails
  <2>1. UNCHANGED <<netVars, waiting, near>> /\ life = "serving" /\ life' = "failing"
    BY <1>3 DEF SourceFails
  <2>2. pressed' \in {pressed, {}}
    BY <1>3 DEF SourceFails
  <2>. QED BY <2>1, <2>2, RestKeeps
<1>4. CASE BeginShutdown
  BY <1>4, RestKeeps DEF BeginShutdown
<1>. QED BY <1>1, <1>2, <1>3, <1>4

\* What is gone keeps nothing.
LEMMA GoneKeeps ==
  ASSUME BrokerInv, LoopEnds \/ Deadline
  PROVE  BrokerInv'
<1>1. /\ netAt' = "gone" /\ far' = [v \in Viewers |-> NoPeer] /\ shown' = {}
      /\ toNet' = <<>> /\ fromNet' = <<>> /\ typed' = <<>> /\ waiting' = <<>>
      /\ near' = [v \in Viewers |-> Unknown]
      /\ (life' = "over" /\ pressed' = {}) \/ life' = "killed"
  BY DEF LoopEnds, Deadline, Gone
<1>2. NetTypes' /\ NetHolds'
  <2>1. far' \in [Viewers -> FarRecord]
    BY <1>1 DEF NoPeer, FarRecord
  <2>. QED BY <1>1, <2>1 DEF NetTypes, NetHolds
<1>3. near' \in [Viewers -> NearRecord] /\ \A v \in Viewers : near'[v].control = FALSE
  BY <1>1 DEF Unknown, NearRecord
<1>. QED BY <1>1, <1>2, <1>3 DEF BrokerInv, BrokerTypes, Controlled, WaitsOnce

-----------------------------------------------------------------------------
(* What media-net reports. *)

\* A report is taken, of which one peer at most learns, and nothing is said.
LEMMA TakenReport ==
  ASSUME BrokerInv, fromNet # <<>>, fromNet' = Tail(fromNet),
         UNCHANGED <<netAt, far, shown, toNet, typed, waiting>>,
         life' \in {life, "failing"}, life # "killed",
         near' \in [Viewers -> NearRecord],
         \A v \in Viewers : near'[v].control => near[v].control /\ near'[v].at = near[v].at,
         pressed' # {} => pressed # {} /\ \A v \in Viewers : near[v].control => near'[v].control,
         \A v \in Viewers : near'[v].at = near[v].at \/ (near[v].at # "none" /\ near'[v].at = "gone"),
         netAt # "gone" => \A v \in Viewers :
           near'[v].control = near[v].control \/ near'[v].at = "gone" \/ far[v].channel # "open"
  PROVE  BrokerInv'
<1>. USE DEF BrokerInv
<1>1. ASSUME netAt # "gone", NEW v \in Viewers PROVE Tells(v, <<>>)
  BY <1>1 DEF Tells
<1>2. fromNet' \in Seq(Reports) /\ Within(fromNet', fromNet)
  BY TailWithin DEF NetTypes
<1>3. Speaks(<<>>)
  BY <1>2, NothingSaid DEF Speaks, NetTypes, Within
<1>4. NetTypes' /\ NetHolds'
  BY <1>1, <1>3, WorkerSpeaks
<1>5. Controlled'
  BY DEF Controlled, Live
<1>6. WaitsOnce'
  BY DEF WaitsOnce, BrokerTypes
<1>. QED BY <1>4, <1>5, <1>6 DEF BrokerTypes

LEMMA NetIsUpKeeps ==
  ASSUME BrokerInv, fromNet # <<>>, fromNet' = Tail(fromNet), NetIsUp,
         UNCHANGED <<netAt, far, shown, typed>>
  PROVE  BrokerInv'
<1>. USE DEF BrokerInv
<1>. DEFINE lines == [i \in DOMAIN waiting |-> About("add-peer", waiting[i])]
<1>1. /\ lines = [i \in DOMAIN waiting |-> About("add-peer", waiting[i])] /\ SendNet(lines)
      /\ near' = [v \in Viewers |-> IF IsWaiting(v) THEN [Unknown EXCEPT !.at = "known"] ELSE near[v]]
      /\ waiting' = <<>> /\ UNCHANGED <<pressed, life>>
  BY DEF NetIsUp
<1>. HIDE DEF lines
<1>2. Len(waiting) \in Nat /\ DOMAIN waiting = 1..Len(waiting) /\ \A i \in DOMAIN waiting : waiting[i] \in Viewers
  BY LenProperties DEF BrokerTypes
<1>3. lines \in Seq(Lines) /\ DOMAIN lines = DOMAIN waiting
  <2>1. lines \in [1..Len(waiting) -> Lines]
    BY <1>1, <1>2, LineTypes
  <2>. QED BY <1>2, <2>1, SeqOfFunction
<1>4. \A i \in DOMAIN lines : lines[i].type = "add-peer" /\ lines[i].peer = waiting[i]
  BY <1>1, <1>3 DEF About
<1>5. /\ near' \in [Viewers -> NearRecord]
      /\ \A v \in Viewers : ~IsWaiting(v) => near'[v] = near[v]
      /\ \A v \in Viewers : IsWaiting(v) => /\ near[v].at = "none" /\ near'[v].at = "known"
                                            /\ near'[v].control = FALSE /\ near[v].control = FALSE
  <2>1. \A v \in Viewers : IsWaiting(v) => near'[v].at = "known" /\ near'[v].control = FALSE
    BY <1>1 DEF Unknown
  <2>2. ASSUME NEW v \in Viewers PROVE near'[v] \in NearRecord
    BY <1>1 DEF Unknown, NearRecord, BrokerTypes
  <2>3. near' \in [Viewers -> NearRecord]
    BY <1>1, <2>2
  <2>4. ASSUME NEW v \in Viewers, IsWaiting(v) PROVE near[v].at = "none" /\ near[v].control = FALSE
    <3>1. near[v].at = "none" /\ ~near[v].control
      BY <2>4 DEF IsWaiting, WaitsOnce, Controlled, Live
    <3>2. near[v].control \in BOOLEAN
      BY DEF BrokerTypes, NearRecord
    <3>. QED BY <3>1, <3>2
  <2>. QED BY <1>1, <2>1, <2>3, <2>4
<1>6. ASSUME NEW v \in Viewers PROVE Tells(v, lines)
  <2>1. CASE IsWaiting(v)
    <3>1. near'[v].control = near[v].control
      BY <1>5, <2>1
    <3>2. \A i \in DOMAIN lines : ~IsState(lines[i], v)
      BY <1>4 DEF IsState
    <3>3. ASSUME NEW i \in DOMAIN lines, Adds(lines[i], v), NEW j \in DOMAIN lines, Adds(lines[j], v)
          PROVE  i = j
      BY <1>3, <1>4, <3>3 DEF Adds, WaitsOnce
    <3>. QED BY <1>5, <2>1, <3>1, <3>2, <3>3 DEF Tells
  <2>2. CASE ~IsWaiting(v)
    <3>1. \A i \in DOMAIN lines : ~IsState(lines[i], v) /\ ~Adds(lines[i], v)
      BY <1>3, <1>4, <2>2 DEF IsState, Adds, IsWaiting
    <3>. QED BY <1>5, <2>2, <3>1, Untouched
  <2>. QED BY <2>1, <2>2
<1>7. fromNet' \in Seq(Reports) /\ Within(fromNet', fromNet)
  BY TailWithin DEF NetTypes
<1>8. Speaks(lines)
  BY <1>1, <1>3, <1>7 DEF Speaks, NetTypes, Within
<1>9. NetTypes' /\ NetHolds'
  BY <1>5, <1>6, <1>8, WorkerSpeaks
<1>10. Controlled'
  BY <1>1, <1>5 DEF Controlled, Live
<1>11. waiting' \in Seq(Viewers) /\ DOMAIN waiting' = {}
  BY <1>1
<1>. QED BY <1>1, <1>5, <1>9, <1>10, <1>11 DEF BrokerTypes, WaitsOnce

\* Of what a report does with one peer: it is forgotten with its keys, or has no control any more.
LEMMA ForgottenIs ==
  ASSUME BrokerInv, NEW v \in Viewers, Forgotten(v)
  PROVE  /\ near' \in [Viewers -> NearRecord]
         /\ near'[v].at = "gone" /\ near'[v].control = FALSE
         /\ \A w \in Viewers \ {v} : near'[w] = near[w]
         /\ pressed' # {} => pressed # {} /\ ~near[v].control
<1>1. [Unknown EXCEPT !.at = "gone"] \in NearRecord
  BY DEF Unknown, NearRecord
<1>2. near' = [near EXCEPT ![v] = [Unknown EXCEPT !.at = "gone"]] /\ pressed' = Released(v)
  BY DEF Forgotten
<1>. QED BY <1>1, <1>2 DEF BrokerInv, BrokerTypes, Released, Unknown

LEMMA NetMessageKeeps ==
  ASSUME BrokerInv, NetMessage
  PROVE  BrokerInv'
<1>. USE DEF BrokerInv
<1>. DEFINE m == Head(fromNet)
<1>1. /\ fromNet # <<>> /\ fromNet' = Tail(fromNet) /\ life # "killed"
      /\ UNCHANGED <<netAt, far, shown, typed>>
  BY DEF NetMessage, Turning
<1>2. m \in Reports /\ 1 \in DOMAIN fromNet /\ m = fromNet[1]
  <2>1. fromNet \in Seq(Reports)
    BY DEF NetTypes
  <2>2. m \in Reports
    BY <1>1, <2>1, HeadTailProperties
  <2>3. Len(fromNet) \in Nat \ {0} /\ DOMAIN fromNet = 1..Len(fromNet)
    BY <1>1, <2>1, EmptySeq, LenProperties
  <2>. QED BY <2>1, <2>2, <2>3
<1>3. near \in [Viewers -> NearRecord]
  BY DEF BrokerTypes
<1>4. CASE life = "stopping" \/ m.type = "fatal"
  <2>1. UNCHANGED <<waiting, near, pressed, toNet>> /\ life' \in {life, "failing"}
    BY <1>4 DEF NetMessage, Fatal
  <2>. QED BY <1>1, <1>3, <2>1, TakenReport
<1>5. CASE life # "stopping" /\ m.type = "net-ready"
  <2>1. NetIsUp
    BY <1>5 DEF NetMessage
  <2>. QED BY <1>1, <2>1, NetIsUpKeeps
<1>6. ASSUME life # "stopping", m.type \in {"answer", "peer-failed", "peer-closed", "channel-closed"}
      PROVE  BrokerInv'
  <2>1. PICK v \in Viewers : m.peer = v
    BY <1>2, <1>6 DEF Reports
  <2>2. CASE m.type = "answer"
    <3>1. Answered(v)
      BY <1>6, <2>1, <2>2 DEF NetMessage
    <3>2. UNCHANGED <<waiting, pressed, life, toNet>> /\ near' \in {near, [near EXCEPT ![v].answered = TRUE]}
      BY <3>1 DEF Answered
    <3>3. /\ near' \in [Viewers -> NearRecord]
          /\ \A w \in Viewers : near'[w].at = near[w].at /\ near'[w].control = near[w].control
      <4>1. CASE near' = near
        BY <1>3, <4>1
      <4>2. CASE near' = [near EXCEPT ![v].answered = TRUE]
        BY <1>3, <4>2 DEF NearRecord
      <4>. QED BY <3>2, <4>1, <4>2
    <3>. QED BY <1>1, <3>2, <3>3, TakenReport DEF Controlled, Live
  <2>3. CASE m.type = "peer-failed"
    <3>1. FailedPeer(v)
      BY <1>6, <2>1, <2>3 DEF NetMessage
    <3>2. CASE Live(v)
      <4>1. Forgotten(v) /\ UNCHANGED <<waiting, life, toNet>>
        BY <3>1, <3>2 DEF FailedPeer
      <4>. QED BY <1>1, <1>3, <3>2, <4>1, ForgottenIs, TakenReport DEF Live, Controlled
    <3>3. CASE ~Live(v)
      <4>1. UNCHANGED <<waiting, life, toNet, near, pressed>>
        BY <3>1, <3>3 DEF FailedPeer
      <4>. QED BY <1>1, <1>3, <4>1, TakenReport DEF Controlled
    <3>. QED BY <3>2, <3>3
  <2>4. CASE m.type = "peer-closed"
    <3>1. Closed(v)
      BY <1>6, <2>1, <2>4 DEF NetMessage
    <3>2. CASE Known(v)
      <4>1. Forgotten(v) /\ UNCHANGED <<waiting, life, toNet>>
        BY <3>1, <3>2 DEF Closed
      <4>. QED BY <1>1, <1>3, <3>2, <4>1, ForgottenIs, TakenReport DEF Known, Controlled
    <3>3. CASE ~Known(v)
      <4>1. UNCHANGED <<waiting, life, toNet, near, pressed>>
        BY <3>1, <3>3 DEF Closed
      <4>. QED BY <1>1, <1>3, <4>1, TakenReport DEF Controlled
    <3>. QED BY <3>2, <3>3
  <2>5. CASE m.type = "channel-closed"
    <3>1. ChannelClosed(v)
      BY <1>6, <2>1, <2>5 DEF NetMessage
    <3>2. CASE Known(v)
      <4>1. /\ near' = [near EXCEPT ![v].control = FALSE] /\ pressed' = Released(v)
            /\ UNCHANGED <<waiting, life, toNet>>
        BY <3>1, <3>2 DEF ChannelClosed
      <4>2. /\ near' \in [Viewers -> NearRecord]
            /\ near'[v].at = near[v].at /\ near'[v].control = FALSE
            /\ \A w \in Viewers \ {v} : near'[w] = near[w]
        BY <1>3, <4>1 DEF NearRecord
      <4>3. netAt # "gone" => far[v].channel = "closed"
        <5>1. m = Report("channel-closed", v)
          BY <1>2, <2>1, <2>5 DEF Report, Reports
        <5>. QED BY <1>2, <5>1 DEF NetHolds, Peer, ChannelHolds
      <4>. QED BY <1>1, <4>1, <4>2, <4>3, TakenReport DEF Controlled, Released
    <3>3. CASE ~Known(v)
      <4>1. UNCHANGED <<waiting, life, toNet, near, pressed>>
        BY <3>1, <3>3 DEF ChannelClosed
      <4>. QED BY <1>1, <1>3, <4>1, TakenReport DEF Controlled
    <3>. QED BY <3>2, <3>3
  <2>. QED BY <1>6, <2>2, <2>3, <2>4, <2>5
<1>. QED BY <1>2, <1>4, <1>5, <1>6 DEF Reports

-----------------------------------------------------------------------------
(* What viewers type. *)

\* What a message makes of who has control, and of the keys.
LEMMA InputControls ==
  ASSUME NetTypes, BrokerTypes, Controlled, NEW v \in Viewers, NEW m \in Texts(v), Live(v), Input(m),
         NEW others,
         others = IF m.type = "control" /\ m.enabled /\ MayControl(v) THEN Controllers \ {v} ELSE {}
  PROVE  /\ near' \in [Viewers -> NearRecord]
         /\ \A w \in Viewers : near'[w].at = near[w].at
         /\ \A w \in others : near'[w].control = FALSE
         /\ \A w \in Viewers \ {v} : w \notin others => near'[w].control = near[w].control
         /\ Controlled'
<1>. DEFINE keeps == near[v].control /\ MayControl(v)
<1>1. near \in [Viewers -> NearRecord] /\ near[v].control \in BOOLEAN /\ m.peer = v
      /\ life' = life
  BY DEF BrokerTypes, NearRecord, Texts, Input
<1>2. CASE m.type = "control"
  <2>. DEFINE on == m.enabled /\ MayControl(v)
  <2>1. m.enabled \in BOOLEAN
    BY <1>2 DEF Texts
  <2>2. PICK wish \in BOOLEAN : wish = on
    BY <2>1
  <2>3. TakenOver(v, on)
    BY <1>1, <1>2 DEF Input
  <2>4. /\ near' = [w \in Viewers |-> IF w = v THEN [near[v] EXCEPT !.control = wish]
                                      ELSE [near[w] EXCEPT !.control = @ /\ ~wish]]
        /\ pressed' = IF near[v].control \/ (wish /\ Controllers # {}) THEN {} ELSE pressed
    BY <2>2, <2>3 DEF TakenOver
  <2>5. /\ near' \in [Viewers -> NearRecord] /\ near'[v].control = wish
        /\ \A w \in Viewers : near'[w].at = near[w].at
    <3>1. ASSUME NEW w \in Viewers PROVE near'[w] \in NearRecord /\ near'[w].at = near[w].at
      BY <1>1, <2>2, <2>4, ZenonT(30) DEF NearRecord
    <3>2. near'[v].control = wish
      BY <1>1, <2>4 DEF NearRecord
    <3>3. near' \in [Viewers -> NearRecord]
      BY <2>4, <3>1
    <3>. QED BY <3>1, <3>2, <3>3
  <2>6. CASE wish = TRUE
    <3>1. others = Controllers \ {v}
      BY <1>2, <2>2, <2>6
    <3>2. \A w \in Viewers \ {v} : near'[w].control = FALSE
      BY <1>1, <2>4, <2>6 DEF NearRecord
    <3>3. \A w \in Viewers \ {v} : w \notin others => near[w].control = FALSE
      BY <1>1, <3>1 DEF Controllers, NearRecord
    <3>4. Controlled'
      BY <2>5, <2>6, <3>2 DEF Controlled, Live
    <3>. QED BY <2>5, <3>1, <3>2, <3>3, <3>4 DEF Controllers
  <2>7. CASE wish = FALSE
    <3>1. others = {}
      BY <1>2, <2>2, <2>7
    <3>2. \A w \in Viewers \ {v} : near'[w].control = near[w].control
      BY <1>1, <2>4, <2>7 DEF NearRecord
    <3>3. pressed' = Released(v)
      BY <2>4, <2>7 DEF Released
    <3>4. Controlled'
      BY <1>1, <2>5, <2>7, <3>2, <3>3 DEF Controlled, Live, Released
    <3>. QED BY <2>5, <3>1, <3>2, <3>4
  <2>. QED BY <2>2, <2>6, <2>7
<1>3. CASE m.type # "control"
  <2>1. others = {}
    BY <1>3
  <2>2. /\ near' = [near EXCEPT ![v].control = IF m.type = "release" THEN FALSE ELSE keeps]
        /\ m.type = "release" => pressed' = Released(v)
        /\ m.type = "key" /\ ~keeps => pressed' = Released(v)
    <3>1. CASE m.type = "release"
      BY <1>1, <3>1 DEF Input
    <3>2. CASE m.type = "key"
      <4>1. near' = [near EXCEPT ![v].control = keeps]
        BY <1>1, <3>2 DEF Input
      <4>2. ~keeps => pressed' = Released(v)
        BY <1>1, <3>2 DEF Input, Released
      <4>. QED BY <3>2, <4>1, <4>2
    <3>. QED BY <1>3, <3>1, <3>2 DEF Texts
  <2>3. PICK wish \in BOOLEAN : wish = IF m.type = "release" THEN FALSE ELSE keeps
    BY <1>1
  <2>4. near' = [near EXCEPT ![v].control = wish]
    BY <2>2, <2>3
  <2>5. /\ near' \in [Viewers -> NearRecord]
        /\ near'[v].at = near[v].at /\ near'[v].control = wish
        /\ \A w \in Viewers \ {v} : near'[w] = near[w]
    BY <1>1, <2>4 DEF NearRecord
  <2>6. CASE wish = TRUE
    <3>1. near[v].control
      BY <2>3, <2>6
    <3>2. Controlled'
      BY <1>1, <2>5, <2>6, <3>1 DEF Controlled, Live
    <3>. QED BY <2>1, <2>5, <3>2
  <2>7. CASE wish = FALSE
    <3>1. pressed' = Released(v)
      BY <1>3, <2>2, <2>3, <2>7 DEF Texts
    <3>2. Controlled'
      BY <1>1, <2>5, <2>7, <3>1 DEF Controlled, Live, Released
    <3>. QED BY <2>1, <2>5, <3>2
  <2>. QED BY <2>6, <2>7
<1>. QED BY <1>2, <1>3

\* Those of `out` are told that they lost control, and then another peer what it has.
EndedThen(lines, out, said) ==
  /\ lines \in Seq(Lines)
  /\ \A i \in DOMAIN lines : lines[i].type = "control-state"
  /\ \A w \in out : \E i \in DOMAIN lines : lines[i].peer = w
  /\ \A i \in DOMAIN lines : lines[i].peer # said.peer => lines[i].peer \in out /\ lines[i].control = FALSE
  /\ \E i \in DOMAIN lines : lines[i].peer = said.peer
  /\ \A i \in DOMAIN lines : lines[i].peer = said.peer => lines[i].control = said.control

LEMMA ToldAfter ==
  ASSUME NEW out, AtMostOne(out), NEW said \in Lines, said.type = "control-state", said.peer \notin out,
         NEW order, Ordered(order, out)
  PROVE  EndedThen(Ending(order) \o <<said>>, out, said)
<1>1. PICK before : before = Ending(order)
  OBVIOUS
<1>2. /\ before \in Seq(Lines)
      /\ \A i \in DOMAIN before : \E w \in out : Ends(before[i], w)
      /\ \A w \in out : \E i \in DOMAIN before : Ends(before[i], w)
  BY <1>1, ToldInOrder DEF Ended
<1>3. PICK parting : parting = <<said>>
  OBVIOUS
<1>4. /\ parting \in Seq(Lines) /\ DOMAIN parting = {1}
      /\ parting[1].type = "control-state" /\ parting[1].peer = said.peer /\ parting[1].control = said.control
  BY <1>3, OneLine
<1>5. PICK lines : lines = before \o parting
  OBVIOUS
<1>6. /\ lines \in Seq(Lines)
      /\ \A i \in DOMAIN before : i \in DOMAIN lines /\ lines[i] = before[i]
      /\ \A k \in DOMAIN parting : Len(before) + k \in DOMAIN lines /\ lines[Len(before) + k] = parting[k]
      /\ \A i \in DOMAIN lines : \/ i \in DOMAIN before /\ lines[i] = before[i]
                                 \/ i - Len(before) \in DOMAIN parting /\ lines[i] = parting[i - Len(before)]
  <2>1. before \in Seq(Lines) /\ parting \in Seq(Lines)
    BY <1>2, <1>4
  <2>. QED BY <1>5, <2>1, Joined
<1>7. ASSUME NEW i \in DOMAIN lines
      PROVE  \/ lines[i].type = "control-state" /\ lines[i].peer \in out /\ lines[i].control = FALSE
             \/ lines[i].type = "control-state" /\ lines[i].peer = said.peer /\ lines[i].control = said.control
  <2>1. CASE i \in DOMAIN before /\ lines[i] = before[i]
    BY <1>2, <2>1 DEF Ends
  <2>2. CASE i - Len(before) \in DOMAIN parting /\ lines[i] = parting[i - Len(before)]
    BY <1>4, <2>2
  <2>. QED BY <1>6, <2>1, <2>2
<1>8. \A w \in out : \E i \in DOMAIN lines : lines[i].peer = w
  BY <1>2, <1>6 DEF Ends
<1>9. \E i \in DOMAIN lines : lines[i].peer = said.peer
  BY <1>4, <1>6
<1>10. EndedThen(lines, out, said)
  BY <1>6, <1>7, <1>8, <1>9 DEF EndedThen
<1>. QED BY <1>1, <1>3, <1>5, <1>10

\* What a message has said: to the others that lost control, and then to the peer itself.
LEMMA InputSays ==
  ASSUME Controlled, NEW v \in Viewers, near[v].control \in BOOLEAN,
         NEW m \in Texts(v), Input(m), near' \in [Viewers -> NearRecord],
         NEW others,
         others = IF m.type = "control" /\ m.enabled /\ MayControl(v) THEN Controllers \ {v} ELSE {}
  PROVE  \E said \in Lines : \E order :
           /\ said.type = "control-state" /\ said.peer = v /\ said.control = near'[v].control
           /\ Ordered(order, others) /\ SendNet(Ending(order) \o <<said>>)
<1>. DEFINE keeps == near[v].control /\ MayControl(v)
            wish == CASE m.type = "control" -> m.enabled /\ MayControl(v)
                     [] m.type = "release" -> FALSE
                     [] OTHER -> keeps
<1>1. m.peer = v /\ m.type \in {"control", "release", "key"}
  BY DEF Texts
<1>2. PICK on \in BOOLEAN : on = wish
  <2>1. wish \in BOOLEAN
    BY <1>1 DEF Texts
  <2>. QED BY <2>1
<1>3. PICK order : Ordered(order, others) /\ SendNet(Ending(order) \o <<State(v, wish)>>)
  BY <1>1 DEF Input, Ordered, Ending
<1>4. near'[v].control = on
  <2>1. CASE m.type = "control"
    <3>1. TakenOver(v, wish)
      BY <1>1, <2>1 DEF Input
    <3>2. near'[v] = [near[v] EXCEPT !.control = on]
      BY <1>2, <3>1 DEF TakenOver
    <3>. QED BY <3>2 DEF NearRecord
  <2>2. CASE m.type # "control"
    <3>1. near' = [near EXCEPT ![v].control = wish]
      BY <1>1, <2>2 DEF Input
    <3>. QED BY <1>2, <3>1 DEF NearRecord
  <2>. QED BY <2>1, <2>2
<1>5. PICK said : said = State(v, wish)
  OBVIOUS
<1>6. said \in Lines /\ said.type = "control-state" /\ said.peer = v /\ said.control = on
  <2>1. State(v, on) \in Lines
    BY LineTypes
  <2>. QED BY <1>2, <1>5, <2>1 DEF State
<1>. HIDE DEF wish
<1>7. said.control = near'[v].control
  BY <1>4, <1>6
<1>8. SendNet(Ending(order) \o <<said>>)
  BY <1>3, <1>5
<1>. QED BY <1>3, <1>6, <1>7, <1>8

LEMMA InputKeeps ==
  ASSUME BrokerInv, NEW v \in Viewers, NEW m \in Texts(v), Live(v), Input(m),
         netAt # "gone" => far[v].channel # "none",
         typed # <<>>, typed' = Tail(typed),
         UNCHANGED <<netAt, far, shown, fromNet, waiting>>
  PROVE  BrokerInv'
<1>. USE DEF BrokerInv
<1>1. PICK others : others = IF m.type = "control" /\ m.enabled /\ MayControl(v) THEN Controllers \ {v} ELSE {}
  OBVIOUS
<1>2. /\ near' \in [Viewers -> NearRecord]
      /\ \A w \in Viewers : near'[w].at = near[w].at
      /\ \A w \in others : near'[w].control = FALSE
      /\ \A w \in Viewers \ {v} : w \notin others => near'[w].control = near[w].control
      /\ Controlled'
  BY <1>1, InputControls
<1>3. near[v].control \in BOOLEAN
  BY DEF BrokerTypes, NearRecord
<1>4. PICK said \in Lines : \E order :
        /\ said.type = "control-state" /\ said.peer = v /\ said.control = near'[v].control
        /\ Ordered(order, others) /\ SendNet(Ending(order) \o <<said>>)
  BY <1>1, <1>2, <1>3, InputSays
<1>5. v \notin others /\ AtMostOne(others)
  BY <1>1 DEF AtMostOne, Controllers, Controlled
<1>6. PICK lines : EndedThen(lines, others, said) /\ SendNet(lines)
  BY <1>4, <1>5, ToldAfter
<1>7. /\ lines \in Seq(Lines)
      /\ \A i \in DOMAIN lines : lines[i].type = "control-state"
      /\ \A w \in others : \E i \in DOMAIN lines : lines[i].peer = w
      /\ \A i \in DOMAIN lines : lines[i].peer # v => lines[i].peer \in others /\ lines[i].control = FALSE
      /\ \E i \in DOMAIN lines : lines[i].peer = v
      /\ \A i \in DOMAIN lines : lines[i].peer = v => lines[i].control = near'[v].control
  BY <1>4, <1>6 DEF EndedThen
<1>8. ASSUME netAt # "gone", NEW w \in Viewers PROVE Tells(w, lines)
  <2>1. \A i \in DOMAIN lines : ~Adds(lines[i], w)
    BY <1>7 DEF Adds
  <2>2. CASE w = v
    BY <1>2, <1>7, <1>8, <2>1, <2>2 DEF Tells, IsState
  <2>3. CASE w \in others
    BY <1>2, <1>7, <1>5, <2>1, <2>3 DEF Tells, IsState
  <2>4. CASE w # v /\ w \notin others
    <3>1. \A i \in DOMAIN lines : ~IsState(lines[i], w)
      BY <1>7, <2>4 DEF IsState
    <3>2. near'[w].control = near[w].control
      BY <1>2, <2>4
    <3>. QED BY <1>2, <2>1, <3>1, <3>2 DEF Tells
  <2>. QED BY <2>2, <2>3, <2>4
<1>9. typed' \in Seq(UNION {Texts(w) : w \in Viewers}) /\ Within(typed', typed)
  BY TailWithin DEF NetTypes
<1>10. Speaks(lines)
  BY <1>6, <1>7, <1>9 DEF Speaks, NetTypes, Within
<1>11. NetTypes' /\ NetHolds'
  BY <1>2, <1>8, <1>10, WorkerSpeaks
<1>12. life' = life
  BY DEF Input
<1>. QED BY <1>2, <1>11, <1>12 DEF BrokerTypes, WaitsOnce

LEMMA InputMessageKeeps ==
  ASSUME BrokerInv, InputMessage
  PROVE  BrokerInv'
<1>. USE DEF BrokerInv
<1>. DEFINE m == Head(typed)
<1>1. /\ typed # <<>> /\ typed' = Tail(typed) /\ life # "killed"
      /\ UNCHANGED <<netAt, far, shown, fromNet, waiting>>
  BY DEF InputMessage, Turning
<1>2. m \in UNION {Texts(w) : w \in Viewers} /\ 1 \in DOMAIN typed /\ m = typed[1]
  <2>1. typed \in Seq(UNION {Texts(w) : w \in Viewers})
    BY DEF NetTypes
  <2>2. m \in UNION {Texts(w) : w \in Viewers}
    BY <1>1, <2>1, HeadTailProperties
  <2>3. Len(typed) \in Nat \ {0} /\ DOMAIN typed = 1..Len(typed)
    BY <1>1, <2>1, EmptySeq, LenProperties
  <2>. QED BY <2>1, <2>2, <2>3
<1>3. PICK v \in Viewers : m \in Texts(v)
  BY <1>2
<1>4. m.peer = v
  BY <1>3 DEF Texts
<1>5. CASE Live(v) /\ Input(m)
  <2>1. netAt # "gone" => far[v].channel # "none"
    BY <1>2, <1>4 DEF NetHolds, Peer, Unopened
  <2>. QED BY <1>1, <1>3, <1>5, <2>1, InputKeeps
<1>6. CASE UNCHANGED <<near, toNet>> /\ pressed' \in {pressed, {}} /\ life' \in {life, "failing"}
  <2>1. near' \in [Viewers -> NearRecord]
    BY <1>6 DEF BrokerTypes
  <2>2. ASSUME NEW w \in Viewers PROVE Tells(w, <<>>)
    BY <1>6 DEF Tells
  <2>3. typed' \in Seq(UNION {Texts(w) : w \in Viewers}) /\ Within(typed', typed)
    BY <1>1, TailWithin DEF NetTypes
  <2>4. Speaks(<<>>)
    BY <1>1, <1>6, <2>3, NothingSaid DEF Speaks, NetTypes, Within
  <2>5. NetTypes' /\ NetHolds'
    BY <2>1, <2>2, <2>4, WorkerSpeaks
  <2>6. Controlled'
    BY <1>1, <1>6 DEF Controlled, Live
  <2>. QED BY <1>1, <1>6, <2>1, <2>5, <2>6 DEF BrokerTypes, WaitsOnce
<1>. QED
  <2>1. CASE ~Live(m.peer)
    <3>1. UNCHANGED <<near, pressed, toNet, life>>
      BY <2>1 DEF InputMessage
    <3>. QED BY <1>6, <3>1
  <2>2. CASE Live(m.peer)
    <3>1. Input(m) \/ (pressed' = {} /\ Fatal /\ UNCHANGED <<near, toNet>>)
      BY <2>2 DEF InputMessage
    <3>2. Fatal => life' \in {life, "failing"}
      BY DEF Fatal
    <3>. QED BY <1>4, <1>5, <1>6, <2>2, <3>1, <3>2
  <2>. QED BY <2>1, <2>2

-----------------------------------------------------------------------------
(* What media-net does. *)

\* media-net writes `report` at most, and reads nothing of what viewers type.
Reported(report) ==
  /\ fromNet' \in Seq(Reports)
  /\ \A i \in DOMAIN fromNet' : fromNet'[i] = report \/ \E j \in DOMAIN fromNet : fromNet'[i] = fromNet[j]

LEMMA EmitReports ==
  ASSUME NetTypes, NEW report \in Reports, Emit(<<report>>) \/ Emit(<<>>) \/ fromNet' = fromNet
  PROVE  Reported(report)
<1>1. fromNet \in Seq(Reports)
  BY DEF NetTypes
<1>2. CASE Emit(<<report>>)
  <2>1. PICK more : more = <<report>>
    OBVIOUS
  <2>2. more \in Seq(Reports) /\ DOMAIN more = {1} /\ more[1] = report
    BY <2>1
  <2>3. fromNet' = fromNet \o more
    BY <1>2, <2>1 DEF Emit
  <2>4. /\ fromNet' \in Seq(Reports)
        /\ \A i \in DOMAIN fromNet' : \/ i \in DOMAIN fromNet /\ fromNet'[i] = fromNet[i]
                                      \/ i - Len(fromNet) \in DOMAIN more /\ fromNet'[i] = more[i - Len(fromNet)]
    <3>1. more \in Seq(Reports)
      BY <2>2
    <3>. QED BY <1>1, <2>3, <3>1, Joined
  <2>. QED BY <2>2, <2>4 DEF Reported
<1>3. CASE Emit(<<>>) \/ fromNet' = fromNet
  <2>1. fromNet' = fromNet
    BY <1>1, <1>3, ConcatEmptySeq DEF Emit
  <2>. QED BY <1>1, <2>1 DEF Reported
<1>. QED BY <1>2, <1>3

\* A peer of which media-net changes nothing.
LEMMA PeerRests ==
  ASSUME NEW v \in Viewers, Peer(v), UNCHANGED <<near, toNet>>, far'[v] = far[v],
         v \in shown' <=> v \in shown,
         \A i \in DOMAIN fromNet' : fromNet'[i] = Report("channel-closed", v) =>
           \E j \in DOMAIN fromNet : fromNet'[i] = fromNet[j],
         \A i \in DOMAIN typed' : typed'[i].peer = v => far[v].channel # "none"
  PROVE  Peer(v)'
<1>1. AddedOnce(v)'
  BY DEF Peer, AddedOnce
<1>2. ChannelHolds(v)'
  BY DEF Peer, ChannelHolds
<1>3. Unopened(v)'
  BY DEF Peer, Unopened
<1>4. PageHolds(v)'
  BY DEF Peer, PageHolds, InStep, Live
<1>. QED BY <1>1, <1>2, <1>3, <1>4 DEF Peer

\* A page that opens its channel is in step: nobody told it otherwise.
LEMMA OpensInStep ==
  ASSUME NetTypes, BrokerTypes, NEW v \in Viewers, Unopened(v), far[v].channel = "none"
  PROVE  InStep(v)
<1>1. near[v].control = FALSE
  BY DEF Unopened, BrokerTypes, NearRecord
<1>2. ASSUME NEW i \in DOMAIN toNet, IsState(toNet[i], v) PROVE toNet[i].control = FALSE
  <2>1. toNet[i] \in Lines
    BY ElementOfSeq, LenProperties DEF NetTypes
  <2>2. ~toNet[i].control
    BY <1>2 DEF Unopened
  <2>3. toNet[i].control \in BOOLEAN
    BY <1>2, <2>1 DEF Lines, IsState, About, State
  <2>. QED BY <2>2, <2>3
<1>. QED BY <1>1, <1>2 DEF InStep, Unopened

\* A peer media-net knows goes on to another state of its connection or of its channel.
LEMMA PeerMoves ==
  ASSUME NetTypes, BrokerTypes, NEW v \in Viewers, Peer(v), UNCHANGED <<near, toNet, shown, typed>>,
         far[v].at # "none", far'[v].at # "none",
         far'[v].at = "joining" => far'[v].channel = "none",
         far'[v].channel = "none" => far[v].channel = "none",
         far[v].channel = "closed" => far'[v].channel = "closed",
         far'[v].at = "answered" /\ far'[v].channel = "open" =>
           far[v].channel = "none" \/ (far[v].at = "answered" /\ far[v].channel = "open"),
         \A i \in DOMAIN fromNet' : fromNet'[i] = Report("channel-closed", v) =>
           far'[v].channel = "closed" \/ \E j \in DOMAIN fromNet : fromNet'[i] = fromNet[j]
  PROVE  Peer(v)'
<1>1. AddedOnce(v)'
  BY DEF Peer, AddedOnce
<1>2. ChannelHolds(v)'
  BY DEF Peer, ChannelHolds
<1>3. Unopened(v)'
  BY DEF Peer, Unopened
<1>4. PageHolds(v)'
  <2>. SUFFICES ASSUME Live(v)', far'[v].at = "answered", far'[v].channel = "open" PROVE InStep(v)'
    BY DEF PageHolds
  <2>1. InStep(v)
    BY OpensInStep DEF Peer, PageHolds, Live
  <2>. QED BY <2>1 DEF InStep
<1>. QED BY <1>1, <1>2, <1>3, <1>4 DEF Peer

\* The next command is read: what it says of the peer v is not on its way any more.
LEMMA CommandRead ==
  ASSUME NetTypes, toNet # <<>>, toNet' = Tail(toNet)
  PROVE  /\ toNet' \in Seq(Lines) /\ toNet[1] \in Lines /\ Head(toNet) = toNet[1]
         /\ 1 \in DOMAIN toNet /\ DOMAIN toNet \subseteq Nat \ {0} /\ DOMAIN toNet' \subseteq Nat \ {0}
         /\ \A i \in DOMAIN toNet' : i + 1 \in DOMAIN toNet /\ toNet'[i] = toNet[i + 1]
         /\ \A i \in DOMAIN toNet : i # 1 => i - 1 \in DOMAIN toNet' /\ toNet'[i - 1] = toNet[i]
<1>1. toNet \in Seq(Lines)
  BY DEF NetTypes
<1>2. /\ Tail(toNet) \in Seq(Lines) /\ Len(Tail(toNet)) = Len(toNet) - 1
      /\ \A i \in 1..Len(Tail(toNet)) : Tail(toNet)[i] = toNet[i + 1]
      /\ Head(toNet) \in Lines
  BY <1>1, HeadTailProperties
<1>3. Len(toNet) \in Nat \ {0} /\ DOMAIN toNet = 1..Len(toNet)
  BY <1>1, EmptySeq, LenProperties
<1>4. DOMAIN toNet' = 1..(Len(toNet) - 1)
  BY <1>2, LenProperties
<1>. QED BY <1>1, <1>2, <1>3, <1>4

LEMMA CommandAdded ==
  ASSUME NetTypes, NEW v \in Viewers, AddedOnce(v), toNet # <<>>, toNet' = Tail(toNet), near' = near,
         far'[v].at = far[v].at \/ Adds(toNet[1], v)
         \/ (far[v].at # "none" /\ far'[v].at # "none")
  PROVE  AddedOnce(v)'
<1>1. /\ 1 \in DOMAIN toNet /\ DOMAIN toNet' \subseteq Nat \ {0}
      /\ \A i \in DOMAIN toNet' : i + 1 \in DOMAIN toNet /\ toNet'[i] = toNet[i + 1]
  BY CommandRead
<1>2. ASSUME near[v].at = "none"
      PROVE  far'[v].at = "none" /\ \A i \in DOMAIN toNet' : ~Adds(toNet'[i], v)
  BY <1>1, <1>2 DEF AddedOnce
<1>3. ASSUME NEW i \in DOMAIN toNet', Adds(toNet'[i], v)
      PROVE  far'[v].at = "none" /\ \A j \in DOMAIN toNet' : Adds(toNet'[j], v) => i = j
  <2>1. i + 1 \in DOMAIN toNet /\ Adds(toNet[i + 1], v) /\ i \in Nat /\ i # 0
    BY <1>1, <1>3
  <2>2. far[v].at = "none" /\ ~Adds(toNet[1], v)
    BY <1>1, <2>1 DEF AddedOnce
  <2>3. ASSUME NEW j \in DOMAIN toNet', Adds(toNet'[j], v) PROVE i = j
    <3>1. j + 1 \in DOMAIN toNet /\ Adds(toNet[j + 1], v) /\ j \in Nat
      BY <1>1, <2>3
    <3>2. i + 1 = j + 1
      BY <2>1, <3>1 DEF AddedOnce
    <3>. QED BY <2>1, <3>1, <3>2
  <2>. QED BY <2>2, <2>3
<1>. QED BY <1>2, <1>3 DEF AddedOnce

LEMMA CommandUnopened ==
  ASSUME NetTypes, NEW v \in Viewers, Unopened(v), toNet # <<>>, toNet' = Tail(toNet),
         UNCHANGED <<near, typed>>, far'[v].channel = far[v].channel,
         far[v].channel = "none" => (v \in shown' <=> v \in shown)
  PROVE  Unopened(v)'
<1>1. \A i \in DOMAIN toNet' : i + 1 \in DOMAIN toNet /\ toNet'[i] = toNet[i + 1]
  BY CommandRead
<1>. QED BY <1>1 DEF Unopened

LEMMA CommandPage ==
  ASSUME NetTypes, NEW v \in Viewers, PageHolds(v), toNet # <<>>, toNet' = Tail(toNet), near' = near,
         far'[v].channel = far[v].channel, far'[v].at = "answered" => far[v].at = "answered",
         ~IsState(toNet[1], v) => (v \in shown' <=> v \in shown),
         IsState(toNet[1], v) /\ far[v].at = "answered" /\ far[v].channel = "open" =>
           (v \in shown' <=> toNet[1].control)
  PROVE  PageHolds(v)'
<1>. SUFFICES ASSUME Live(v)', far'[v].at = "answered", far'[v].channel = "open" PROVE InStep(v)'
  BY DEF PageHolds
<1>1. InStep(v) /\ far[v].at = "answered" /\ far[v].channel = "open"
  BY DEF PageHolds, Live
<1>2. /\ 1 \in DOMAIN toNet /\ DOMAIN toNet \subseteq Nat \ {0} /\ DOMAIN toNet' \subseteq Nat \ {0}
      /\ \A i \in DOMAIN toNet' : i + 1 \in DOMAIN toNet /\ toNet'[i] = toNet[i + 1]
      /\ \A i \in DOMAIN toNet : i # 1 => i - 1 \in DOMAIN toNet' /\ toNet'[i - 1] = toNet[i]
  BY CommandRead
<1>3. ASSUME NEW i \in DOMAIN toNet', IsState(toNet'[i], v),
             \A j \in DOMAIN toNet' : j > i => ~IsState(toNet'[j], v)
      PROVE  toNet'[i].control = near'[v].control
  <2>1. i + 1 \in DOMAIN toNet /\ toNet'[i] = toNet[i + 1] /\ i \in Nat /\ i # 0
    BY <1>2
  <2>2. ASSUME NEW j \in DOMAIN toNet, j > i + 1 PROVE ~IsState(toNet[j], v)
    <3>1. j \in Nat /\ j # 1 /\ j - 1 > i
      BY <1>2, <2>1, <2>2
    <3>2. j - 1 \in DOMAIN toNet' /\ toNet'[j - 1] = toNet[j]
      BY <1>2, <3>1
    <3>. QED BY <1>3, <3>1, <3>2
  <2>3. toNet[i + 1].control = near[v].control
    BY <1>1, <1>3, <2>1, <2>2 DEF InStep
  <2>. QED BY <2>1, <2>3
<1>4. ASSUME \A i \in DOMAIN toNet' : ~IsState(toNet'[i], v)
      PROVE  v \in shown' <=> near'[v].control
  <2>1. ASSUME NEW j \in DOMAIN toNet, j # 1 PROVE ~IsState(toNet[j], v)
    BY <1>2, <1>4, <2>1
  <2>2. CASE IsState(toNet[1], v)
    <3>1. toNet[1].control = near[v].control
      BY <1>1, <1>2, <2>1, <2>2 DEF InStep
    <3>. QED BY <1>1, <2>2, <3>1
  <2>3. CASE ~IsState(toNet[1], v)
    <3>1. \A i \in DOMAIN toNet : ~IsState(toNet[i], v)
      BY <2>1, <2>3
    <3>. QED BY <1>1, <2>3, <3>1 DEF InStep
  <2>. QED BY <2>2, <2>3
<1>. QED BY <1>3, <1>4 DEF InStep

LEMMA CommandPeer ==
  ASSUME NetTypes, NEW v \in Viewers, Peer(v), toNet # <<>>, toNet' = Tail(toNet),
         UNCHANGED <<near, typed>>,
         NEW report, report.type # "channel-closed", Reported(report),
         far'[v].channel = far[v].channel,
         far'[v].at = far[v].at \/ Adds(toNet[1], v) \/ (far[v].at # "none" /\ far'[v].at = "leaving"),
         Adds(toNet[1], v) => far'[v].at # "answered",
         ~(IsState(toNet[1], v) /\ far[v].at \in {"joining", "answered"} /\ far[v].channel = "open") =>
           (v \in shown' <=> v \in shown),
         IsState(toNet[1], v) /\ far[v].at = "answered" /\ far[v].channel = "open" =>
           (v \in shown' <=> toNet[1].control)
  PROVE  Peer(v)'
<1>1. AddedOnce(v)'
  BY CommandAdded DEF Peer
<1>2. ChannelHolds(v)'
  <2>1. Adds(toNet[1], v) => far[v].at = "none"
    BY CommandRead DEF Peer, AddedOnce
  <2>2. far'[v].at \in {"none", "joining"} => far'[v].channel = "none"
    BY <2>1 DEF Peer, ChannelHolds
  <2>3. \A i \in DOMAIN fromNet' : fromNet'[i] = Report("channel-closed", v) =>
          \E j \in DOMAIN fromNet : fromNet'[i] = fromNet[j]
    BY DEF Reported, Report
  <2>. QED BY <2>2, <2>3 DEF Peer, ChannelHolds
<1>3. Unopened(v)'
  <2>1. far[v].channel = "none" => (v \in shown' <=> v \in shown)
    OBVIOUS
  <2>. QED BY <2>1, CommandUnopened DEF Peer
<1>4. PageHolds(v)'
  <2>1. far'[v].at = "answered" => far[v].at = "answered"
    OBVIOUS
  <2>. QED BY <2>1, CommandPage DEF Peer
<1>. QED BY <1>1, <1>2, <1>3, <1>4 DEF Peer

LEMMA CommandKeeps ==
  ASSUME BrokerInv, Command, UNCHANGED brokerVars
  PROVE  NetTypes' /\ NetHolds'
<1>. USE DEF BrokerInv
<1>1. /\ netAt = "up" /\ netAt' = netAt /\ toNet # <<>> /\ toNet' = Tail(toNet)
      /\ UNCHANGED <<near, typed>> /\ far \in [Viewers -> FarRecord] /\ shown \in SUBSET Viewers
      /\ \A v \in Viewers : Peer(v)
  BY DEF Command, brokerVars, NetTypes, NetHolds
<1>2. toNet' \in Seq(Lines) /\ toNet[1] \in Lines /\ Head(toNet) = toNet[1] /\ 1 \in DOMAIN toNet
  BY <1>1, CommandRead
<1>. DEFINE c == toNet[1]
<1>3. PICK v \in Viewers : \/ c.type = "add-peer" /\ c.peer = v
                           \/ c.type = "remove-peer" /\ c.peer = v
                           \/ c.type = "control-state" /\ c.peer = v /\ c.control \in BOOLEAN
  BY <1>2 DEF Lines, About, State
<1>4. ASSUME NEW w \in Viewers, w # v PROVE ~Adds(c, w) /\ ~IsState(c, w)
  BY <1>3, <1>4 DEF Adds, IsState
<1>5. CASE c.type = "add-peer"
  <2>1. PICK o \in {"refused", "unlinked", "joining"} : AddedPeer(v, o)
    <3>1. \E o \in IF v \in Leaving THEN {"refused", "unlinked", "joining"} ELSE {"joining"} : AddedPeer(v, o)
      BY <1>2, <1>3, <1>5 DEF Command
    <3>. QED BY <3>1
  <2>2. PICK report : report = Report("peer-failed", v)
    OBVIOUS
  <2>3. report \in Reports /\ report.type # "channel-closed"
    BY <2>2 DEF Reports, Report
  <2>4. Reported(report)
    BY <2>1, <2>2, <2>3, EmitReports DEF AddedPeer
  <2>5. PICK at \in {"closed", "leaving", "joining"} : far' = [far EXCEPT ![v].at = at]
    BY <2>1 DEF AddedPeer
  <2>6. /\ far' \in [Viewers -> FarRecord] /\ far'[v].at = at /\ far'[v].channel = far[v].channel
        /\ \A w \in Viewers \ {v} : far'[w] = far[w]
    BY <1>1, <2>5 DEF FarRecord
  <2>7. shown' = shown /\ Adds(c, v) /\ ~IsState(c, v)
    BY <1>3, <1>5, <2>1 DEF AddedPeer, Adds, IsState
  <2>8. ASSUME NEW w \in Viewers PROVE Peer(w)'
    <3>1. CASE w = v
      BY <1>1, <2>3, <2>4, <2>6, <2>7, <3>1, CommandPeer
    <3>2. CASE w # v
      BY <1>1, <1>4, <2>3, <2>4, <2>6, <2>7, <3>2, CommandPeer
    <3>. QED BY <3>1, <3>2
  <2>. QED BY <1>1, <1>2, <2>4, <2>6, <2>7, <2>8 DEF NetTypes, NetHolds, Reported
<1>6. CASE c.type = "remove-peer"
  <2>1. RemovedPeer(v)
    BY <1>2, <1>3, <1>6 DEF Command
  <2>2. PICK report : report = Report("peer-closed", v)
    OBVIOUS
  <2>3. report \in Reports /\ report.type # "channel-closed"
    BY <2>2 DEF Reports, Report
  <2>4. Reported(report)
    BY <2>1, <2>2, <2>3, EmitReports DEF RemovedPeer
  <2>5. /\ far' \in [Viewers -> FarRecord] /\ far'[v].channel = far[v].channel
        /\ far'[v].at = far[v].at \/ (far[v].at # "none" /\ far'[v].at = "leaving")
        /\ \A w \in Viewers \ {v} : far'[w] = far[w]
    <3>1. CASE Present(v)
      <4>1. far' = [far EXCEPT ![v].at = "leaving"]
        BY <2>1, <3>1 DEF RemovedPeer
      <4>. QED BY <1>1, <3>1, <4>1 DEF Present, FarRecord
    <3>2. CASE ~Present(v)
      BY <1>1, <2>1, <3>2 DEF RemovedPeer
    <3>. QED BY <3>1, <3>2
  <2>6. shown' = shown /\ ~Adds(c, v) /\ ~IsState(c, v)
    BY <1>6, <2>1 DEF RemovedPeer, Adds, IsState
  <2>7. ASSUME NEW w \in Viewers PROVE Peer(w)'
    <3>1. CASE w = v
      BY <1>1, <2>3, <2>4, <2>5, <2>6, <3>1, CommandPeer
    <3>2. CASE w # v
      BY <1>1, <1>4, <2>3, <2>4, <2>5, <2>6, <3>2, CommandPeer
    <3>. QED BY <3>1, <3>2
  <2>. QED BY <1>1, <1>2, <2>4, <2>5, <2>6, <2>7 DEF NetTypes, NetHolds, Reported
<1>7. CASE c.type = "control-state"
  <2>1. ToldState(v, c.control) /\ c.control \in BOOLEAN
    BY <1>2, <1>3, <1>7 DEF Command
  <2>2. PICK report : report = Report("peer-closed", v)
    OBVIOUS
  <2>3. report \in Reports /\ report.type # "channel-closed"
    BY <2>2 DEF Reports, Report
  <2>4. Reported(report) /\ far' = far
    BY <2>1, <2>3, EmitReports DEF ToldState
  <2>5. /\ shown' \in SUBSET Viewers
        /\ \A w \in Viewers \ {v} : w \in shown' <=> w \in shown
        /\ ~(far[v].at \in {"joining", "answered"} /\ far[v].channel = "open") => shown' = shown
        /\ far[v].at \in {"joining", "answered"} /\ far[v].channel = "open" => (v \in shown' <=> c.control)
    BY <1>1, <2>1 DEF ToldState
  <2>6. ~Adds(c, v) /\ IsState(c, v)
    BY <1>3, <1>7 DEF Adds, IsState
  <2>7. ASSUME NEW w \in Viewers PROVE Peer(w)'
    <3>1. CASE w = v
      BY <1>1, <2>3, <2>4, <2>5, <2>6, <3>1, CommandPeer
    <3>2. CASE w # v
      BY <1>1, <1>4, <2>3, <2>4, <2>5, <2>6, <3>2, CommandPeer
    <3>. QED BY <3>1, <3>2
  <2>. QED BY <1>1, <1>2, <2>4, <2>5, <2>7 DEF NetTypes, NetHolds, Reported
<1>. QED BY <1>3, <1>5, <1>6, <1>7

\* One peer's connection or channel goes on, with a report of it.
LEMMA MoveKeeps ==
  ASSUME BrokerInv, NEW v \in Viewers, netAt = "up", netAt' = netAt,
         UNCHANGED <<near, toNet, shown, typed>>,
         far' \in [Viewers -> FarRecord], \A w \in Viewers \ {v} : far'[w] = far[w],
         NEW report, Reported(report),
         report.type = "channel-closed" => report.peer = v /\ far'[v].channel = "closed",
         far[v].at # "none", far'[v].at # "none",
         far'[v].at = "joining" => far'[v].channel = "none",
         far'[v].channel = "none" => far[v].channel = "none",
         far[v].channel = "closed" => far'[v].channel = "closed",
         far'[v].at = "answered" /\ far'[v].channel = "open" =>
           far[v].channel = "none" \/ (far[v].at = "answered" /\ far[v].channel = "open")
  PROVE  NetTypes' /\ NetHolds'
<1>. USE DEF BrokerInv
<1>1. ASSUME NEW w \in Viewers PROVE Peer(w)'
  <2>1. Peer(w)
    BY DEF NetHolds
  <2>2. CASE w = v
    <3>1. \A i \in DOMAIN fromNet' : fromNet'[i] = Report("channel-closed", v) =>
            far'[v].channel = "closed" \/ \E j \in DOMAIN fromNet : fromNet'[i] = fromNet[j]
      BY DEF Reported, Report
    <3>. QED BY <2>1, <2>2, <3>1, PeerMoves
  <2>3. CASE w # v
    <3>1. \A i \in DOMAIN fromNet' : fromNet'[i] = Report("channel-closed", w) =>
            \E j \in DOMAIN fromNet : fromNet'[i] = fromNet[j]
      BY <2>3 DEF Reported, Report
    <3>2. \A i \in DOMAIN typed' : typed'[i].peer = w => far[w].channel # "none"
      BY <2>1 DEF Peer, Unopened
    <3>. QED BY <2>1, <2>3, <3>1, <3>2, PeerRests
  <2>. QED BY <2>2, <2>3
<1>. QED BY <1>1 DEF NetTypes, NetHolds, Reported

LEMMA NetPeerKeeps ==
  ASSUME BrokerInv, UNCHANGED brokerVars, NEW v \in Viewers,
         SendAnswer(v) \/ FailPeer(v) \/ Unlinked(v) \/ OpenChannel(v) \/ CloseChannel(v)
  PROVE  NetTypes' /\ NetHolds'
<1>1. far \in [Viewers -> FarRecord] /\ near' = near
  BY DEF BrokerInv, NetTypes, brokerVars
<1>2. /\ netAt = "up" /\ netAt' = netAt /\ UNCHANGED <<toNet, shown, typed>>
  BY DEF SendAnswer, FailPeer, Unlinked, OpenChannel, CloseChannel
<1>3. netAt # "gone" => ChannelHolds(v)
  BY DEF BrokerInv, NetHolds, Peer
<1>4. \A r \in Reports : Emit(<<r>>) \/ fromNet' = fromNet => Reported(r)
  BY EmitReports DEF BrokerInv
<1>5. PICK answer, failed, closed, hung : /\ answer = Report("answer", v) /\ failed = Report("peer-failed", v)
                                          /\ closed = Report("peer-closed", v)
                                          /\ hung = Report("channel-closed", v)
  OBVIOUS
<1>6. /\ answer \in Reports /\ failed \in Reports /\ closed \in Reports /\ hung \in Reports
      /\ answer.type # "channel-closed" /\ failed.type # "channel-closed" /\ closed.type # "channel-closed"
      /\ hung.peer = v
  BY <1>5 DEF Reports, Report
<1>7. CASE SendAnswer(v)
  <2>1. far[v].at = "joining" /\ far' = [far EXCEPT ![v].at = "answered"] /\ Reported(answer)
    BY <1>4, <1>5, <1>6, <1>7 DEF SendAnswer
  <2>2. /\ far' \in [Viewers -> FarRecord] /\ far'[v].at = "answered" /\ far'[v].channel = far[v].channel
        /\ \A w \in Viewers \ {v} : far'[w] = far[w]
    BY <1>1, <2>1 DEF FarRecord
  <2>3. far[v].channel = "none"
    BY <1>2, <1>3, <2>1 DEF ChannelHolds
  <2>. QED BY <1>1, <1>2, <1>6, <2>1, <2>2, <2>3, MoveKeeps
<1>8. CASE FailPeer(v)
  <2>1. /\ far[v].at \in {"joining", "answered"} /\ far' = [far EXCEPT ![v].at = "leaving"]
        /\ Reported(failed)
    BY <1>4, <1>5, <1>6, <1>8 DEF FailPeer
  <2>2. /\ far' \in [Viewers -> FarRecord] /\ far'[v].at = "leaving" /\ far'[v].channel = far[v].channel
        /\ \A w \in Viewers \ {v} : far'[w] = far[w]
    BY <1>1, <2>1 DEF FarRecord
  <2>. QED BY <1>1, <1>2, <1>6, <2>1, <2>2, MoveKeeps
<1>9. CASE Unlinked(v)
  <2>1. /\ far[v].at = "leaving" /\ far' = [far EXCEPT ![v] = [at |-> "closed", channel |-> "closed"]]
        /\ Reported(closed)
    BY <1>4, <1>5, <1>6, <1>9 DEF Unlinked
  <2>2. /\ far' \in [Viewers -> FarRecord] /\ far'[v].at = "closed" /\ far'[v].channel = "closed"
        /\ \A w \in Viewers \ {v} : far'[w] = far[w]
    BY <1>1, <2>1 DEF FarRecord
  <2>. QED BY <1>1, <1>2, <1>6, <2>1, <2>2, MoveKeeps
<1>10. CASE OpenChannel(v)
  <2>1. /\ far[v].at = "answered" /\ far[v].channel = "none" /\ far' = [far EXCEPT ![v].channel = "open"]
        /\ Reported(answer)
    BY <1>4, <1>6, <1>10 DEF OpenChannel
  <2>2. /\ far' \in [Viewers -> FarRecord] /\ far'[v].at = "answered" /\ far'[v].channel = "open"
        /\ \A w \in Viewers \ {v} : far'[w] = far[w]
    BY <1>1, <2>1 DEF FarRecord
  <2>. QED BY <1>1, <1>2, <1>6, <2>1, <2>2, MoveKeeps
<1>11. CASE CloseChannel(v)
  <2>1. /\ far[v].channel = "open" /\ far' = [far EXCEPT ![v].channel = "closed"]
        /\ Reported(hung)
    BY <1>4, <1>5, <1>6, <1>11 DEF CloseChannel
  <2>2. /\ far' \in [Viewers -> FarRecord] /\ far'[v].at = far[v].at /\ far'[v].channel = "closed"
        /\ \A w \in Viewers \ {v} : far'[w] = far[w]
    BY <1>1, <2>1 DEF FarRecord
  <2>3. far[v].at \notin {"none", "joining"}
    BY <1>2, <1>3, <2>1 DEF ChannelHolds
  <2>. QED BY <1>1, <1>2, <1>6, <2>1, <2>2, <2>3, MoveKeeps
<1>. QED BY <1>7, <1>8, <1>9, <1>10, <1>11

\* What is typed, of a peer whose channel is open.
LEMMA TypesKeeps ==
  ASSUME BrokerInv, UNCHANGED brokerVars, NEW v \in Viewers, Types(v)
  PROVE  NetTypes' /\ NetHolds'
<1>. USE DEF BrokerInv
<1>1. /\ near' = near /\ UNCHANGED <<netAt, far, shown, toNet, fromNet>>
      /\ netAt = "up" /\ far[v].channel = "open"
  BY DEF Types, brokerVars
<1>2. PICK m \in Texts(v) : typed' = Append(typed, m)
  BY DEF Types
<1>3. m \in UNION {Texts(w) : w \in Viewers} /\ m.peer = v
  BY DEF Texts
<1>4. typed \in Seq(UNION {Texts(w) : w \in Viewers})
  BY DEF NetTypes
<1>5. /\ typed' \in Seq(UNION {Texts(w) : w \in Viewers})
      /\ Len(typed') = Len(typed) + 1
      /\ \A i \in 1..Len(typed) : typed'[i] = typed[i]
      /\ typed'[Len(typed) + 1] = m
  BY <1>2, <1>3, <1>4, AppendProperties
<1>6. Len(typed) \in Nat /\ DOMAIN typed = 1..Len(typed) /\ DOMAIN typed' = 1..(Len(typed) + 1)
  BY <1>4, <1>5, LenProperties
<1>7. ASSUME NEW w \in Viewers PROVE Peer(w)'
  <2>1. Peer(w)
    BY <1>1 DEF NetHolds
  <2>2. ASSUME NEW i \in DOMAIN typed', typed'[i].peer = w PROVE far[w].channel # "none"
    <3>1. CASE i \in DOMAIN typed
      BY <1>5, <1>6, <2>1, <2>2, <3>1 DEF Peer, Unopened
    <3>2. CASE i = Len(typed) + 1
      BY <1>1, <1>3, <1>5, <2>2, <3>2
    <3>. QED BY <1>6, <3>1, <3>2
  <2>. QED BY <1>1, <2>1, <2>2, PeerRests
<1>. QED BY <1>1, <1>5, <1>7 DEF NetTypes, NetHolds

\* It reports once, and ends once.
LEMMA NetLifeKeeps ==
  ASSUME BrokerInv, UNCHANGED brokerVars, NetReady(NoViewer) \/ NetEnds(NoViewer)
  PROVE  NetTypes' /\ NetHolds'
<1>. USE DEF BrokerInv
<1>1. CASE NetReady(NoViewer)
  <2>1. /\ netAt = "loading" /\ netAt' = "up" /\ UNCHANGED <<far, shown, toNet, typed>> /\ near' = near
        /\ Emit(<<Report("net-ready", NoViewer)>>)
    BY <1>1 DEF NetReady, brokerVars
  <2>2. PICK report : report = Report("net-ready", NoViewer)
    OBVIOUS
  <2>3. report \in Reports /\ report.type = "net-ready"
    BY <2>2 DEF Reports, Report
  <2>4. Reported(report)
    BY <2>1, <2>2, <2>3, EmitReports
  <2>5. ASSUME NEW v \in Viewers PROVE Peer(v)'
    <3>1. Peer(v)
      BY <2>1 DEF NetHolds
    <3>2. \A i \in DOMAIN fromNet' : fromNet'[i] = Report("channel-closed", v) =>
            \E j \in DOMAIN fromNet : fromNet'[i] = fromNet[j]
      BY <2>3, <2>4 DEF Reported, Report
    <3>3. \A i \in DOMAIN typed' : typed'[i].peer = v => far[v].channel # "none"
      BY <2>1, <3>1 DEF Peer, Unopened
    <3>. QED BY <2>1, <3>1, <3>2, <3>3, PeerRests
  <2>. QED BY <2>1, <2>4, <2>5 DEF NetTypes, NetHolds, Reported
<1>2. CASE NetEnds(NoViewer)
  <2>1. /\ netAt' = "gone" /\ far' = [v \in Viewers |-> NoPeer] /\ shown' = {} /\ toNet' = <<>>
        /\ typed' = typed
        /\ Emit(<<Report("fatal", NoViewer)>>) \/ fromNet' = fromNet
    BY <1>2 DEF NetEnds
  <2>2. PICK report : report = Report("fatal", NoViewer)
    OBVIOUS
  <2>3. report \in Reports
    BY <2>2 DEF Reports, Report
  <2>4. Reported(report)
    BY <2>1, <2>2, <2>3, EmitReports
  <2>5. far' \in [Viewers -> FarRecord]
    BY <2>1 DEF NoPeer, FarRecord
  <2>6. toNet' \in Seq(Lines)
    BY <2>1
  <2>. QED BY <2>1, <2>4, <2>5, <2>6 DEF NetTypes, NetHolds, Reported
<1>. QED BY <1>1, <1>2

LEMMA NetKeeps ==
  ASSUME BrokerInv, NetTurn
  PROVE  BrokerInv'
<1>1. UNCHANGED brokerVars
  BY DEF NetTurn
<1>2. NetTypes' /\ NetHolds'
  <2>1. CASE NetReady(NoViewer) \/ NetEnds(NoViewer)
    BY <1>1, <2>1, NetLifeKeeps
  <2>2. CASE Command
    BY <1>1, <2>2, CommandKeeps
  <2>3. ASSUME NEW v \in Viewers,
               SendAnswer(v) \/ FailPeer(v) \/ Unlinked(v) \/ OpenChannel(v) \/ CloseChannel(v)
        PROVE  NetTypes' /\ NetHolds'
    BY <1>1, <2>3, NetPeerKeeps
  <2>4. ASSUME NEW v \in Viewers, Types(v) PROVE NetTypes' /\ NetHolds'
    BY <1>1, <2>4, TypesKeeps
  <2>. QED BY <2>1, <2>2, <2>3, <2>4 DEF NetTurn
<1>3. BrokerTypes' /\ Controlled' /\ WaitsOnce'
  BY <1>1 DEF BrokerInv, brokerVars, BrokerTypes, Controlled, WaitsOnce, Live
<1>. QED BY <1>2, <1>3 DEF BrokerInv

-----------------------------------------------------------------------------

LEMMA BrokerStarts == WorkerInit => BrokerInv
<1>. SUFFICES ASSUME WorkerInit PROVE BrokerInv
  OBVIOUS
<1>1. /\ life = "serving" /\ netAt = "loading" /\ far = [v \in Viewers |-> NoPeer] /\ shown = {}
      /\ toNet = <<>> /\ fromNet = <<>> /\ typed = <<>> /\ waiting = <<>>
      /\ near = [v \in Viewers |-> Unknown] /\ pressed = {}
  BY DEF WorkerInit, WorkerBlank, NetBlank
<1>2. far \in [Viewers -> FarRecord] /\ \A v \in Viewers : far[v].at = "none" /\ far[v].channel = "none"
  BY <1>1 DEF NoPeer, FarRecord
<1>3. /\ near \in [Viewers -> NearRecord]
      /\ \A v \in Viewers : near[v].at = "none" /\ near[v].control = FALSE
  BY <1>1 DEF Unknown, NearRecord
<1>4. NetTypes /\ BrokerTypes
  BY <1>1, <1>2, <1>3 DEF NetTypes, BrokerTypes
<1>5. Controlled /\ WaitsOnce
  BY <1>1, <1>3 DEF Controlled, WaitsOnce
<1>6. ASSUME NEW v \in Viewers PROVE Peer(v)
  BY <1>1, <1>2, <1>3 DEF Peer, AddedOnce, ChannelHolds, Unopened, PageHolds, Live
<1>. QED BY <1>4, <1>5, <1>6 DEF BrokerInv, NetHolds

LEMMA BrokerStep ==
  ASSUME BrokerInv, [WorkerNext]_<<netVars, brokerVars>>
  PROVE  BrokerInv'
<1>1. ASSUME NEW v \in Viewers, AddPeer(v) PROVE BrokerInv'
  BY <1>1, AddPeerKeeps
<1>2. ASSUME NEW v \in Viewers, RemovePeer(v) PROVE BrokerInv'
  BY <1>2, RemovePeerKeeps
<1>3. ASSUME NEW v \in Viewers, Grant(v) PROVE BrokerInv'
  BY <1>3, GrantKeeps
<1>4. ASSUME NEW v \in Viewers, Revoke(v) PROVE BrokerInv'
  BY <1>4, RevokeKeeps
<1>5. CASE Lapse \/ PipeEnds \/ SourceFails \/ BeginShutdown
  BY <1>5, RestingKeeps
<1>6. CASE EnforceTick
  BY <1>6, EnforceTickKeeps
<1>7. CASE NetMessage
  BY <1>7, NetMessageKeeps
<1>8. CASE InputMessage
  BY <1>8, InputMessageKeeps
<1>9. CASE LoopEnds \/ Deadline
  BY <1>9, GoneKeeps
<1>10. CASE NetTurn
  BY <1>10, NetKeeps
<1>11. CASE UNCHANGED <<netVars, brokerVars>>
  <2>1. UNCHANGED <<netVars, waiting, near, pressed, life>>
    BY <1>11 DEF brokerVars
  <2>. QED BY <2>1, RestKeeps
<1>. QED BY <1>1, <1>2, <1>3, <1>4, <1>5, <1>6, <1>7, <1>8, <1>9, <1>10, <1>11 DEF WorkerNext, WorkerTurn

LEMMA BrokerInvKeeps == BrokerInv => BrokerKeeps
<1>. SUFFICES ASSUME BrokerInv PROVE BrokerKeeps
  OBVIOUS
<1>. USE DEF BrokerInv
<1>1. Cardinality(Controllers) \in {0, 1}
  <2>1. CASE Controllers = {}
    <3>1. Cardinality(Controllers) = 0
      BY <2>1, FS_EmptySet
    <3>. QED BY <3>1
  <2>2. ASSUME NEW v \in Controllers PROVE Cardinality(Controllers) = 1
    <3>1. Controllers = {v}
      BY <2>2 DEF Controllers, Controlled
    <3>. QED BY <3>1, FS_Singleton
  <2>. QED BY <2>1, <2>2
<1>2. HeldIsControlled
  BY <1>1 DEF HeldIsControlled, Controlled, Controllers
<1>3. PagesAreTold
  BY DEF PagesAreTold, NetHolds, Peer, PageHolds, InStep
<1>. QED BY <1>2, <1>3 DEF BrokerKeeps

\* Of the host's keys and the viewers' pages, with any number of viewers, keys, lines and reports under
\* way: keys are down only while exactly one peer has control, whom the worker still knows, unless the
\* worker had to be killed; and a page that has read what was sent to it shows control exactly if its
\* peer has it, in whatever order the grant, the revocation, the other page's wish, the failed
\* connection and the removal come.
THEOREM KeysFollowControl == WorkerSpec => []BrokerKeeps
<1>1. WorkerInit => BrokerInv
  BY BrokerStarts
<1>2. BrokerInv /\ [WorkerNext]_<<netVars, brokerVars>> => BrokerInv'
  BY BrokerStep
<1>3. BrokerInv => BrokerKeeps
  BY BrokerInvKeeps
<1>. QED BY <1>1, <1>2, <1>3, PTL DEF WorkerSpec

-----------------------------------------------------------------------------
(* The frames. *)

\* A set of naturals has a least element, and one that is bounded a greatest.
LEMMA Least ==
  ASSUME NEW T \in SUBSET Nat, T # {}
  PROVE  \E x \in T : \A y \in T : x <= y
<1>1. PICK R : R = OpToRel(<, Nat)
  OBVIOUS
<1>2. IsWellFoundedOn(R, Nat)
  BY <1>1, NatLessThanWellFounded
<1>3. PICK x \in T : \A y \in T : ~(<<y, x>> \in R)
  BY <1>2, WFMin
<1>4. ASSUME NEW y \in T PROVE x <= y
  <2>1. <<y, x>> \in R <=> y < x
    BY <1>1 DEF OpToRel
  <2>. QED BY <1>3, <2>1
<1>. QED BY <1>4

LEMMA Greatest ==
  ASSUME NEW n \in Nat, NEW T \in SUBSET (1..n), T # {}
  PROVE  \E x \in T : \A y \in T : y <= x
<1>. DEFINE U == {n - y : y \in T}
<1>1. U \in SUBSET Nat /\ T \in SUBSET Int
  OBVIOUS
<1>2. U # {}
  OBVIOUS
<1>3. PICK u \in U : \A w \in U : u <= w
  BY <1>1, <1>2, Least
<1>4. PICK x \in T : u = n - x
  OBVIOUS
<1>5. ASSUME NEW y \in T PROVE y <= x
  <2>1. n - x <= n - y
    BY <1>3, <1>4
  <2>2. x \in Int /\ y \in Int
    BY <1>1
  <2>. QED BY <2>1, <2>2
<1>. QED BY <1>5

Records ==
  [type : {"caps"}, medium : Media, caps : Caps]
  \cup [type : {"frame"}, medium : Media, key : BOOLEAN, gap : BOOLEAN, caps : Caps]

\* The formats among the first records of f, and what is known after them, from `start` on.
FormatsIn(f, i, m) == {j \in 1..(i - 1) : f[j].type = "caps" /\ f[j].medium = m}

KnownIn(f, start, i, m) ==
  IF FormatsIn(f, i, m) = {} THEN start[m]
  ELSE f[CHOOSE j \in FormatsIn(f, i, m) : \A k \in FormatsIn(f, i, m) : k <= j].caps

KnownAfter(f, start, m) == KnownIn(f, start, Len(f) + 1, m)

Decodes(f, start) ==
  \A i \in DOMAIN f :
    f[i].type = "frame" => f[i].caps = KnownIn(f, start, i, f[i].medium) /\ (f[i].gap => f[i].key)

\* The j-th record is the last format of m before the i-th.
LastFormat(f, i, m, j) == j \in FormatsIn(f, i, m) /\ \A k \in FormatsIn(f, i, m) : k <= j

\* Two flows of the same records before the i-th.
Agree(f, g, i) == i \in Nat /\ \A j \in 1..(i - 1) : g[j] = f[j]

\* The last format of m is the one that is known.
LEMMA LastKnown ==
  ASSUME NEW f, NEW start, NEW i, i \in Nat, NEW m, NEW j, LastFormat(f, i, m, j)
  PROVE  KnownIn(f, start, i, m) = f[j].caps
<1>. USE DEF LastFormat
<1>. DEFINE c == CHOOSE x \in FormatsIn(f, i, m) : \A k \in FormatsIn(f, i, m) : k <= x
<1>1. c \in FormatsIn(f, i, m) /\ \A k \in FormatsIn(f, i, m) : k <= c
  OBVIOUS
<1>2. c \in Int /\ j \in Int
  BY <1>1 DEF FormatsIn
<1>3. c = j
  BY <1>1, <1>2
<1>. QED BY <1>3 DEF KnownIn

LEMMA SameFormats ==
  ASSUME NEW f, NEW start, NEW i, NEW j, NEW m, FormatsIn(f, i, m) = FormatsIn(f, j, m)
  PROVE  KnownIn(f, start, i, m) = KnownIn(f, start, j, m)
BY DEF KnownIn

\* What is known depends on the records before only.
LEMMA SamePrefix ==
  ASSUME NEW f, NEW g, NEW start, NEW i, NEW m, Agree(f, g, i)
  PROVE  KnownIn(g, start, i, m) = KnownIn(f, start, i, m)
<1>. USE DEF Agree
<1>1. FormatsIn(g, i, m) = FormatsIn(f, i, m)
  BY DEF FormatsIn
<1>2. CASE FormatsIn(f, i, m) = {}
  BY <1>1, <1>2 DEF KnownIn
<1>3. CASE FormatsIn(f, i, m) # {}
  <2>1. FormatsIn(f, i, m) \in SUBSET (1..i)
    BY DEF FormatsIn
  <2>2. PICK j \in FormatsIn(f, i, m) : \A k \in FormatsIn(f, i, m) : k <= j
    BY <1>3, <2>1, Greatest
  <2>3. KnownIn(f, start, i, m) = f[j].caps
    BY <2>2, LastKnown DEF LastFormat
  <2>4. KnownIn(g, start, i, m) = g[j].caps
    BY <1>1, <2>2, LastKnown DEF LastFormat
  <2>5. g[j] = f[j]
    BY DEF FormatsIn
  <2>. QED BY <2>3, <2>4, <2>5
<1>. QED BY <1>2, <1>3

\* One record more.
LEMMA OneMore ==
  ASSUME NEW f \in Seq(Records), NEW r \in Records, NEW g, g = f \o <<r>>
  PROVE  /\ g \in Seq(Records) /\ Len(g) = Len(f) + 1 /\ Len(f) \in Nat
         /\ DOMAIN f = 1..Len(f) /\ DOMAIN g = 1..(Len(f) + 1)
         /\ \A i \in 1..Len(f) : g[i] = f[i]
         /\ g[Len(f) + 1] = r
<1>1. PICK t : t = <<r>>
  OBVIOUS
<1>2. t \in Seq(Records) /\ Len(t) = 1 /\ t[1] = r
  BY <1>1
<1>3. t \in Seq(Records) /\ g = f \o t
  BY <1>1, <1>2
<1>4. /\ g \in Seq(Records) /\ Len(g) = Len(f) + Len(t)
      /\ \A i \in 1..(Len(f) + Len(t)) : g[i] = IF i <= Len(f) THEN f[i] ELSE t[i - Len(f)]
  BY <1>3, ConcatProperties
<1>5. Len(f) \in Nat /\ DOMAIN f = 1..Len(f) /\ DOMAIN g = 1..Len(g)
  BY <1>4, LenProperties
<1>. QED BY <1>2, <1>4, <1>5

\* A format is queued, and then known.
LEMMA FormatQueued ==
  ASSUME NEW f \in Seq(Records), NEW start, Decodes(f, start), NEW r \in Records, r.type = "caps",
         NEW g, g = f \o <<r>>
  PROVE  /\ Decodes(g, start)
         /\ \A m \in Media :
              KnownAfter(g, start, m) = IF m = r.medium THEN r.caps ELSE KnownAfter(f, start, m)
<1>1. /\ g \in Seq(Records) /\ Len(g) = Len(f) + 1 /\ Len(f) \in Nat
      /\ DOMAIN f = 1..Len(f) /\ DOMAIN g = 1..(Len(f) + 1)
      /\ \A i \in 1..Len(f) : g[i] = f[i]
      /\ g[Len(f) + 1] = r
  BY OneMore
<1>2. ASSUME NEW i \in DOMAIN g, g[i].type = "frame"
      PROVE  g[i].caps = KnownIn(g, start, i, g[i].medium) /\ (g[i].gap => g[i].key)
  <2>1. i \in DOMAIN f /\ g[i] = f[i]
    BY <1>1, <1>2
  <2>2. Agree(f, g, i)
    BY <1>1, <2>1 DEF Agree
  <2>3. KnownIn(g, start, i, f[i].medium) = KnownIn(f, start, i, f[i].medium)
    BY <2>2, SamePrefix
  <2>. QED BY <1>2, <2>1, <2>3 DEF Decodes
<1>3. KnownAfter(g, start, r.medium) = r.caps
  <2>1. Len(f) + 1 \in FormatsIn(g, Len(g) + 1, r.medium)
    BY <1>1 DEF FormatsIn
  <2>2. \A k \in FormatsIn(g, Len(g) + 1, r.medium) : k <= Len(f) + 1
    BY <1>1 DEF FormatsIn
  <2>3. PICK i \in Nat : i = Len(g) + 1
    BY <1>1
  <2>4. PICK j : j = Len(f) + 1
    OBVIOUS
  <2>5. PICK m : m = r.medium
    OBVIOUS
  <2>6. LastFormat(g, i, m, j)
    BY <2>1, <2>2, <2>3, <2>4, <2>5 DEF LastFormat
  <2>7. KnownIn(g, start, i, m) = g[j].caps
    BY ONLY <2>6, LastKnown, i \in Nat
  <2>. QED BY <1>1, <2>3, <2>4, <2>5, <2>7 DEF KnownAfter
<1>4. ASSUME NEW m \in Media \ {r.medium} PROVE KnownAfter(g, start, m) = KnownAfter(f, start, m)
  <2>1. FormatsIn(g, Len(g) + 1, m) = FormatsIn(g, Len(f) + 1, m)
    BY <1>1 DEF FormatsIn
  <2>2. KnownIn(g, start, Len(g) + 1, m) = KnownIn(g, start, Len(f) + 1, m)
    BY <2>1, SameFormats
  <2>3. Agree(f, g, Len(f) + 1)
    BY <1>1 DEF Agree
  <2>4. KnownIn(g, start, Len(f) + 1, m) = KnownIn(f, start, Len(f) + 1, m)
    BY <2>3, SamePrefix
  <2>. QED BY <2>2, <2>4 DEF KnownAfter
<1>. QED BY <1>2, <1>3, <1>4 DEF Decodes

\* A frame is queued whose format is known then.
LEMMA FrameQueued ==
  ASSUME NEW f \in Seq(Records), NEW start, Decodes(f, start), NEW r \in Records, r.type = "frame",
         r.caps = KnownAfter(f, start, r.medium), r.gap => r.key,
         NEW g, g = f \o <<r>>
  PROVE  /\ Decodes(g, start)
         /\ \A m \in Media : KnownAfter(g, start, m) = KnownAfter(f, start, m)
<1>1. /\ g \in Seq(Records) /\ Len(g) = Len(f) + 1 /\ Len(f) \in Nat
      /\ DOMAIN f = 1..Len(f) /\ DOMAIN g = 1..(Len(f) + 1)
      /\ \A i \in 1..Len(f) : g[i] = f[i]
      /\ g[Len(f) + 1] = r
  BY OneMore
<1>2. ASSUME NEW i \in DOMAIN g, NEW m PROVE KnownIn(g, start, i, m) = KnownIn(f, start, i, m)
  <2>1. Agree(f, g, i)
    BY <1>1 DEF Agree
  <2>. QED BY <2>1, SamePrefix
<1>3. ASSUME NEW i \in DOMAIN g, g[i].type = "frame"
      PROVE  g[i].caps = KnownIn(g, start, i, g[i].medium) /\ (g[i].gap => g[i].key)
  <2>1. CASE i \in DOMAIN f
    BY <1>1, <1>2, <1>3, <2>1 DEF Decodes
  <2>2. CASE i = Len(f) + 1
    BY <1>1, <1>2, <2>2 DEF KnownAfter
  <2>. QED BY <1>1, <2>1, <2>2
<1>4. ASSUME NEW m \in Media PROVE KnownAfter(g, start, m) = KnownAfter(f, start, m)
  <2>1. FormatsIn(g, Len(g) + 1, m) = FormatsIn(g, Len(f) + 1, m)
    BY <1>1 DEF FormatsIn
  <2>2. KnownIn(g, start, Len(g) + 1, m) = KnownIn(g, start, Len(f) + 1, m)
    BY <2>1, SameFormats
  <2>3. Agree(f, g, Len(f) + 1)
    BY <1>1 DEF Agree
  <2>4. KnownIn(g, start, Len(f) + 1, m) = KnownIn(f, start, Len(f) + 1, m)
    BY <2>3, SamePrefix
  <2>. QED BY <2>2, <2>4 DEF KnownAfter
<1>. QED BY <1>3, <1>4 DEF Decodes

\* A sequence is its first element and the rest.
LEMMA HeadAndRest ==
  ASSUME NEW S, NEW q \in Seq(S), q # <<>>, NEW s \in Seq(S), Len(s) = 1, s[1] = Head(q),
         NEW t \in Seq(S), t = Tail(q)
  PROVE  s \o t = q
<1>1. Len(t) = Len(q) - 1 /\ \A i \in 1..Len(t) : t[i] = q[i + 1]
  BY HeadTailProperties
<1>2. Len(q) \in Nat \ {0} /\ s[1] = q[1] /\ Len(t) \in Nat
  BY EmptySeq, LenProperties
<1>3. PICK u : u = s \o t
  OBVIOUS
<1>4. /\ u \in Seq(S) /\ Len(u) = Len(s) + Len(t)
      /\ \A i \in 1..(Len(s) + Len(t)) : u[i] = IF i <= Len(s) THEN s[i] ELSE t[i - Len(s)]
  BY <1>3, ConcatProperties
<1>5. Len(u) = Len(q)
  BY <1>1, <1>2, <1>4
<1>6. ASSUME NEW i \in 1..Len(u) PROVE u[i] = q[i]
  <2>1. CASE i = 1
    <3>1. i \in 1..(Len(s) + Len(t)) /\ i <= Len(s)
      BY <1>2, <2>1
    <3>2. u[i] = s[i]
      BY <1>4, <3>1
    <3>. QED BY <1>2, <2>1, <3>2
  <2>2. CASE i # 1
    <3>1. i - 1 \in 1..Len(t) /\ ~(i <= Len(s)) /\ (i - 1) + 1 = i
      BY <1>1, <1>2, <1>5, <2>2
    <3>2. u[i] = t[i - 1]
      BY <1>4, <3>1
    <3>3. t[i - 1] = q[(i - 1) + 1]
      BY <1>1, <3>1
    <3>. QED BY <3>1, <3>2, <3>3
  <2>. QED BY <2>1, <2>2
<1>. QED BY <1>3, <1>4, <1>5, <1>6, SeqEqual

\* The first of two sequences is read.
LEMMA TailOfJoined ==
  ASSUME NEW S, NEW q \in Seq(S), q # <<>>, NEW y \in Seq(S), NEW f, f = q \o y
  PROVE  f \in Seq(S) /\ f # <<>> /\ f[1] = Head(q) /\ Tail(f) = Tail(q) \o y
<1>1. PICK t : t = Tail(q)
  OBVIOUS
<1>2. t \in Seq(S) /\ Len(t) = Len(q) - 1 /\ \A i \in 1..Len(t) : t[i] = q[i + 1]
  BY <1>1, HeadTailProperties
<1>3. Len(q) \in Nat \ {0} /\ Head(q) = q[1] /\ Len(t) \in Nat /\ Len(y) \in Nat
  BY <1>2, EmptySeq, LenProperties
<1>4. /\ f \in Seq(S) /\ Len(f) = Len(q) + Len(y)
      /\ \A i \in 1..(Len(q) + Len(y)) : f[i] = IF i <= Len(q) THEN q[i] ELSE y[i - Len(q)]
  BY ConcatProperties
<1>5. f # <<>> /\ f[1] = Head(q)
  BY <1>3, <1>4, EmptySeq
<1>6. PICK u : u = t \o y
  OBVIOUS
<1>7. /\ u \in Seq(S) /\ Len(u) = Len(t) + Len(y)
      /\ \A i \in 1..(Len(t) + Len(y)) : u[i] = IF i <= Len(t) THEN t[i] ELSE y[i - Len(t)]
  BY <1>2, <1>6, ConcatProperties
<1>8. PICK v : v = Tail(f)
  OBVIOUS
<1>9. v \in Seq(S) /\ Len(v) = Len(f) - 1 /\ \A i \in 1..Len(v) : v[i] = f[i + 1]
  BY <1>4, <1>5, <1>8, HeadTailProperties
<1>10. Len(v) = Len(u)
  BY <1>2, <1>3, <1>4, <1>7, <1>9
<1>11. ASSUME NEW i \in 1..Len(v) PROVE v[i] = u[i]
  <2>1. i \in 1..(Len(t) + Len(y)) /\ i + 1 \in 1..(Len(q) + Len(y)) /\ v[i] = f[i + 1]
    BY <1>2, <1>3, <1>7, <1>9, <1>10
  <2>2. CASE i <= Len(t)
    <3>1. i + 1 <= Len(q) /\ i \in 1..Len(t)
      BY <1>2, <1>3, <2>1, <2>2
    <3>. QED BY <1>2, <1>4, <1>7, <2>1, <2>2, <3>1
  <2>3. CASE ~(i <= Len(t))
    <3>1. ~(i + 1 <= Len(q)) /\ (i + 1) - Len(q) = i - Len(t)
      BY <1>2, <1>3, <2>1, <2>3
    <3>. QED BY <1>4, <1>7, <2>1, <2>3, <3>1
  <2>. QED BY <2>2, <2>3
<1>12. v = u
  BY <1>7, <1>9, <1>10, <1>11, SeqEqual
<1>. QED BY <1>1, <1>4, <1>5, <1>6, <1>8, <1>12

\* What is left when the end is dropped still decodes.
LEMMA EndDropped ==
  ASSUME NEW f \in Seq(Records), NEW t \in Seq(Records), NEW start, Decodes(f \o t, start)
  PROVE  Decodes(f, start)
<1>1. PICK g : g = f \o t
  OBVIOUS
<1>2. /\ g \in Seq(Records)
      /\ \A i \in DOMAIN f : i \in DOMAIN g /\ g[i] = f[i]
  BY <1>1, Joined
<1>3. Len(f) \in Nat /\ DOMAIN f = 1..Len(f)
  BY LenProperties
<1>4. ASSUME NEW i \in DOMAIN f, f[i].type = "frame"
      PROVE  f[i].caps = KnownIn(f, start, i, f[i].medium) /\ (f[i].gap => f[i].key)
  <2>1. Agree(f, g, i)
    BY <1>2, <1>3 DEF Agree
  <2>2. KnownIn(g, start, i, f[i].medium) = KnownIn(f, start, i, f[i].medium)
    BY <2>1, SamePrefix
  <2>. QED BY <1>1, <1>2, <1>4, <2>2 DEF Decodes
<1>. QED BY <1>4 DEF Decodes

\* The first record is read, and a format it sets known from then on.
Reads(f, start, then) ==
  \A m \in Media : then[m] = IF f[1].type = "caps" /\ f[1].medium = m THEN f[1].caps ELSE start[m]

LEMMA FirstRead ==
  ASSUME NEW f \in Seq(Records), f # <<>>, NEW start, Decodes(f, start), NEW then,
         Reads(f, start, then)
  PROVE  /\ Decodes(Tail(f), then)
         /\ \A m \in Media : KnownAfter(Tail(f), then, m) = KnownAfter(f, start, m)
<1>1. PICK g : g = Tail(f)
  OBVIOUS
<1>2. /\ g \in Seq(Records) /\ Len(g) = Len(f) - 1
      /\ \A i \in 1..Len(g) : g[i] = f[i + 1]
  BY <1>1, HeadTailProperties
<1>3. Len(f) \in Nat \ {0} /\ DOMAIN f = 1..Len(f) /\ DOMAIN g = 1..(Len(f) - 1) /\ Len(g) \in Nat
  BY <1>2, EmptySeq, LenProperties
<1>. USE DEF Reads
<1>4. ASSUME NEW i \in 1..Len(f), NEW m \in Media PROVE KnownIn(g, then, i, m) = KnownIn(f, start, i + 1, m)
  <2>1. \A j \in FormatsIn(g, i, m) : j + 1 \in FormatsIn(f, i + 1, m)
    BY <1>2, <1>3 DEF FormatsIn
  <2>2. \A j \in FormatsIn(f, i + 1, m) : j = 1 \/ j - 1 \in FormatsIn(g, i, m)
    BY <1>2, <1>3, SMTT(20) DEF FormatsIn
  <2>3. 1 \in FormatsIn(f, i + 1, m) <=> f[1].type = "caps" /\ f[1].medium = m
    BY <1>3 DEF FormatsIn
  <2>4. i \in Nat /\ i + 1 \in Nat
    OBVIOUS
  <2>5. CASE FormatsIn(g, i, m) = {}
    <3>1. KnownIn(g, then, i, m) = then[m]
      BY <2>5 DEF KnownIn
    <3>2. CASE f[1].type = "caps" /\ f[1].medium = m
      <4>1. 1 \in FormatsIn(f, i + 1, m) /\ \A k \in FormatsIn(f, i + 1, m) : k <= 1
        BY <2>2, <2>3, <2>5, <3>2
      <4>2. KnownIn(f, start, i + 1, m) = f[1].caps
        BY <2>4, <4>1, LastKnown DEF LastFormat
      <4>. QED BY <3>1, <3>2, <4>2
    <3>3. CASE ~(f[1].type = "caps" /\ f[1].medium = m)
      <4>1. FormatsIn(f, i + 1, m) = {}
        BY <2>2, <2>3, <2>5, <3>3
      <4>. QED BY <3>1, <3>3, <4>1 DEF KnownIn
    <3>. QED BY <3>2, <3>3
  <2>6. CASE FormatsIn(g, i, m) # {}
    <3>1. FormatsIn(g, i, m) \in SUBSET (1..i)
      BY DEF FormatsIn
    <3>2. PICK j \in FormatsIn(g, i, m) : \A k \in FormatsIn(g, i, m) : k <= j
      BY <2>4, <2>6, <3>1, Greatest
    <3>3. j \in 1..Len(g) /\ j \in Nat \ {0}
      BY <1>2, <1>3 DEF FormatsIn
    <3>4. KnownIn(g, then, i, m) = g[j].caps
      BY <2>4, <3>2, LastKnown DEF LastFormat
    <3>5. ASSUME NEW k \in FormatsIn(f, i + 1, m) PROVE k <= j + 1
      <4>1. k \in Nat
        BY DEF FormatsIn
      <4>2. CASE k = 1
        BY <3>3, <4>2
      <4>3. CASE k - 1 \in FormatsIn(g, i, m)
        BY <3>2, <3>3, <4>1, <4>3
      <4>. QED BY <2>2, <4>2, <4>3
    <3>6. KnownIn(f, start, i + 1, m) = f[j + 1].caps
      BY <2>1, <2>4, <3>5, LastKnown DEF LastFormat
    <3>. QED BY <1>2, <3>3, <3>4, <3>6
  <2>. QED BY <2>5, <2>6
<1>5. ASSUME NEW i \in DOMAIN g, g[i].type = "frame"
      PROVE  g[i].caps = KnownIn(g, then, i, g[i].medium) /\ (g[i].gap => g[i].key)
  <2>1. g[i] \in Records /\ i \in 1..Len(f) /\ i + 1 \in DOMAIN f /\ g[i] = f[i + 1]
    BY <1>2, <1>3
  <2>2. g[i].medium \in Media
    BY <2>1 DEF Records
  <2>3. KnownIn(g, then, i, g[i].medium) = KnownIn(f, start, i + 1, g[i].medium)
    BY <1>4, <2>1, <2>2
  <2>. QED BY <1>5, <2>1, <2>3 DEF Decodes
<1>6. ASSUME NEW m \in Media PROVE KnownAfter(g, then, m) = KnownAfter(f, start, m)
  <2>1. Len(g) + 1 = Len(f) /\ Len(f) \in 1..Len(f)
    BY <1>2, <1>3
  <2>. QED BY <1>4, <2>1 DEF KnownAfter
<1>. QED BY <1>1, <1>5, <1>6 DEF Decodes

FrameTypes ==
  /\ encoded \in BOOLEAN /\ skipping \in BOOLEAN /\ gap \in BOOLEAN
  /\ format \in [Media -> Caps]
  /\ sentCaps \in [Media -> Caps \cup {NoCaps}] /\ known \in [Media -> Caps \cup {NoCaps}]
  /\ queue \in Seq(Records) /\ pipe \in Seq(Records) /\ hand \in Records \cup {Nothing}

\* A flow that decodes, after which the reader knows what it is taken to know.
Plays(f, start, sent) ==
  Decodes(f, start) /\ \A m \in Media : sent[m] = NoCaps \/ KnownAfter(f, start, m) = sent[m]

FlowPlays == \A f \in {Flow}, start \in {known}, sent \in {sentCaps} : Plays(f, start, sent)

\* Once there was a first frame, what follows a gap is skipped to a keyframe.
GapIsSkipped == gap => skipping \/ ~encoded

FrameInv == FrameTypes /\ FlowPlays /\ GapIsSkipped

OnHand == IF hand = Nothing THEN <<>> ELSE <<hand>>

LEMMA FlowTyped ==
  ASSUME FrameTypes
  PROVE  /\ OnHand \in Seq(Records) /\ pipe \o OnHand \in Seq(Records) /\ Flow \in Seq(Records)
         /\ Flow = (pipe \o OnHand) \o queue
<1>. USE DEF FrameTypes
<1>1. OnHand \in Seq(Records)
  BY DEF OnHand
<1>2. pipe \o OnHand \in Seq(Records)
  BY <1>1, ConcatProperties
<1>3. Flow = (pipe \o OnHand) \o queue
  BY DEF Flow, OnHand
<1>4. (pipe \o OnHand) \o queue \in Seq(Records)
  BY <1>2, ConcatProperties
<1>. QED BY <1>1, <1>2, <1>3, <1>4

\* The flow as it is, and as it was left.
LEMMA FlowOpen ==
  ASSUME FlowPlays
  PROVE  \E f, start, sent :
           f = Flow /\ start = known /\ sent = sentCaps /\ Plays(f, start, sent)
BY DEF FlowPlays

LEMMA FlowClose ==
  ASSUME NEW f, NEW start, NEW sent, f = Flow', start = known', sent = sentCaps', Plays(f, start, sent)
  PROVE  FlowPlays'
BY DEF FlowPlays

\* An overflow drops the end of the flow, and what was sent is forgotten.
LEMMA OverflowKeeps ==
  ASSUME FrameInv, Overflowed, UNCHANGED <<hand, pipe, known>>, encoded' \in BOOLEAN,
         format' \in [Media -> Caps]
  PROVE  FrameInv'
<1>. USE DEF FrameInv
<1>1. queue' = <<>> /\ sentCaps' = [m \in Media |-> NoCaps] /\ skipping' = TRUE /\ gap' = TRUE
  BY DEF Overflowed
<1>2. FrameTypes'
  BY <1>1 DEF FrameTypes
<1>3. PICK f, start, sent : f = Flow /\ start = known /\ sent = sentCaps /\ Plays(f, start, sent)
  BY FlowOpen
<1>4. PICK x : x = pipe \o OnHand
  OBVIOUS
<1>5. queue \in Seq(Records) /\ x \in Seq(Records) /\ f = x \o queue
  BY <1>3, <1>4, FlowTyped DEF FrameTypes
<1>6. x = Flow'
  BY <1>1, <1>4, <1>5, ConcatEmptySeq DEF Flow, OnHand
<1>7. Decodes(x, start)
  BY <1>3, <1>5, EndDropped DEF Plays
<1>8. PICK none : none = [m \in Media |-> NoCaps]
  OBVIOUS
<1>9. Plays(x, start, none)
  BY <1>7, <1>8 DEF Plays
<1>10. FlowPlays'
  BY <1>1, <1>3, <1>6, <1>8, <1>9, FlowClose
<1>11. GapIsSkipped'
  BY <1>1 DEF GapIsSkipped
<1>. QED BY <1>2, <1>10, <1>11

\* What is pushed when there is room.
Frame(m, key, c) ==
  [type |-> "frame", medium |-> m, key |-> key, gap |-> gap /\ m = "video", caps |-> c]

LEMMA FrameTyped ==
  ASSUME FrameTypes, NEW m \in Media, NEW key \in BOOLEAN, NEW c \in Caps, gap /\ m = "video" => key
  PROVE  /\ Frame(m, key, c) \in Records /\ Frame(m, key, c).type = "frame"
         /\ Frame(m, key, c).medium = m /\ Frame(m, key, c).caps = c
         /\ Frame(m, key, c).gap => Frame(m, key, c).key
<1>1. PICK b \in BOOLEAN : b = (gap /\ m = "video")
  OBVIOUS
<1>2. Frame(m, key, c) = [type |-> "frame", medium |-> m, key |-> key, gap |-> b, caps |-> c]
  BY <1>1 DEF Frame
<1>3. b => key
  BY <1>1
<1>4. Frame(m, key, c) \in Records
  BY <1>2 DEF Records
<1>. QED BY <1>2, <1>3, <1>4

\* A frame of a format the reader is taken to know, and one that is sent its format first.
LEMMA Pushes ==
  ASSUME NEW f \in Seq(Records), NEW start, NEW sent, Plays(f, start, sent),
         NEW r \in Records, r.type = "frame", r.gap => r.key, sent[r.medium] = r.caps,
         NEW g, g = f \o <<r>>
  PROVE  Plays(g, start, sent) /\ g \in Seq(Records)
<1>1. r.medium \in Media /\ r.caps # NoCaps
  BY NoCapsAssumption DEF Records
<1>2. Decodes(f, start) /\ \A m \in Media : sent[m] = NoCaps \/ KnownAfter(f, start, m) = sent[m]
  BY DEF Plays
<1>3. KnownAfter(f, start, r.medium) = r.caps
  BY <1>1, <1>2
<1>4. Decodes(g, start) /\ \A m \in Media : KnownAfter(g, start, m) = KnownAfter(f, start, m)
  BY <1>2, <1>3, FrameQueued
<1>5. g \in Seq(Records)
  BY OneMore
<1>. QED BY <1>2, <1>4, <1>5 DEF Plays

\* What is sent once the format r is.
Sends(sent, then, r) ==
  then[r.medium] = r.caps /\ \A m \in Media \ {r.medium} : then[m] = sent[m]

LEMMA Announces ==
  ASSUME NEW f \in Seq(Records), NEW start, NEW sent, Plays(f, start, sent),
         NEW r \in Records, r.type = "caps", NEW g, g = f \o <<r>>, NEW then, Sends(sent, then, r)
  PROVE  Plays(g, start, then) /\ g \in Seq(Records)
<1>1. Decodes(f, start)
  BY DEF Plays
<1>2. \A m \in Media : sent[m] = NoCaps \/ KnownAfter(f, start, m) = sent[m]
  BY DEF Plays
<1>3. /\ Decodes(g, start)
      /\ \A m \in Media :
           KnownAfter(g, start, m) = IF m = r.medium THEN r.caps ELSE KnownAfter(f, start, m)
  BY <1>1, FormatQueued, ZenonT(30)
<1>4. g \in Seq(Records)
  BY OneMore
<1>5. \A m \in Media : then[m] = NoCaps \/ KnownAfter(g, start, m) = then[m]
  BY <1>2, <1>3 DEF Sends
<1>. QED BY <1>3, <1>4, <1>5 DEF Plays

LEMMA RoomKeeps ==
  ASSUME FrameInv, NEW m \in Media, NEW key \in BOOLEAN, NEW c \in Caps, gap /\ m = "video" => key,
         queue' = queue \o IF sentCaps[m] = c THEN <<Frame(m, key, c)>>
                           ELSE <<CapsRecord(m, c), Frame(m, key, c)>>,
         sentCaps' = [sentCaps EXCEPT ![m] = c], UNCHANGED <<hand, pipe, known>>
  PROVE  queue' \in Seq(Records) /\ FlowPlays'
<1>. USE DEF FrameInv
<1>1. PICK r : r = Frame(m, key, c)
  OBVIOUS
<1>2. r \in Records /\ r.type = "frame" /\ r.medium = m /\ r.caps = c /\ (r.gap => r.key)
  BY <1>1, FrameTyped
<1>3. <<r>> \in Seq(Records)
  BY <1>2
<1>4. PICK x : x = pipe \o OnHand
  OBVIOUS
<1>5. PICK f, start, sent : f = Flow /\ start = known /\ sent = sentCaps /\ Plays(f, start, sent)
  BY FlowOpen
<1>6. x \in Seq(Records) /\ queue \in Seq(Records) /\ f \in Seq(Records) /\ f = x \o queue
  BY <1>4, <1>5, FlowTyped DEF FrameTypes
<1>7. PICK then : then = sentCaps'
  OBVIOUS
<1>8. then[m] = c /\ \A w \in Media \ {m} : then[w] = sent[w]
  BY <1>5, <1>7 DEF FrameTypes
<1>9. Flow' = x \o queue'
  BY <1>4 DEF Flow, OnHand
<1>10. CASE sentCaps[m] = c
  <2>1. PICK g : g = f \o <<r>>
    OBVIOUS
  <2>2. queue' = queue \o <<r>>
    BY <1>1, <1>10
  <2>3. (x \o queue) \o <<r>> = x \o (queue \o <<r>>)
    BY <1>3, <1>6, ConcatAssociative
  <2>4. g = Flow'
    BY <1>6, <1>9, <2>1, <2>2, <2>3
  <2>5. then = sent
    BY <1>5, <1>7, <1>10 DEF FrameTypes
  <2>6. sent[r.medium] = r.caps
    BY <1>2, <1>5, <1>10
  <2>7. Plays(g, start, sent)
    BY <1>2, <1>5, <1>6, <2>1, <2>6, Pushes
  <2>8. queue' \in Seq(Records)
    BY <1>3, <1>6, <2>2, ConcatProperties
  <2>. QED BY <1>5, <1>7, <2>4, <2>5, <2>7, <2>8, FlowClose
<1>11. CASE sentCaps[m] # c
  <2>1. PICK s : s = CapsRecord(m, c)
    OBVIOUS
  <2>2. s \in Records /\ s.type = "caps" /\ s.medium = m /\ s.caps = c
    BY <2>1 DEF CapsRecord, Records
  <2>3. PICK h : h = f \o <<s>>
    OBVIOUS
  <2>4. PICK g : g = h \o <<r>>
    OBVIOUS
  <2>5. Sends(sent, then, s)
    BY <1>8, <2>2 DEF Sends
  <2>6. Plays(h, start, then) /\ h \in Seq(Records)
    BY <1>5, <1>6, <2>2, <2>3, <2>5, Announces
  <2>7. then[r.medium] = r.caps
    BY <1>2, <1>8
  <2>8. Plays(g, start, then)
    BY <1>2, <2>4, <2>6, <2>7, Pushes
  <2>9. queue' = queue \o <<s, r>> /\ <<s, r>> = <<s>> \o <<r>>
    BY <1>1, <1>11, <2>1
  <2>10. <<s>> \in Seq(Records) /\ <<s, r>> \in Seq(Records)
    BY <1>2, <2>2
  <2>11. (x \o queue) \o <<s, r>> = x \o (queue \o <<s, r>>)
    BY <1>6, <2>10, ConcatAssociative
  <2>12. (f \o <<s>>) \o <<r>> = f \o (<<s>> \o <<r>>)
    BY <1>3, <1>6, <2>10, ConcatAssociative
  <2>13. g = Flow'
    BY <1>6, <1>9, <2>3, <2>4, <2>9, <2>11, <2>12
  <2>14. queue' \in Seq(Records)
    BY <1>6, <2>9, <2>10, ConcatProperties
  <2>. QED BY <1>5, <1>7, <2>8, <2>13, <2>14, FlowClose
<1>. QED BY <1>10, <1>11

\* Nothing of the flow moves.
LEMMA FlowRests ==
  ASSUME FlowPlays, UNCHANGED <<sentCaps, known>>, Flow' = Flow
  PROVE  FlowPlays'
<1>1. PICK f, start, sent : f = Flow /\ start = known /\ sent = sentCaps /\ Plays(f, start, sent)
  BY FlowOpen
<1>2. f = Flow' /\ start = known' /\ sent = sentCaps'
  BY <1>1
<1>. QED BY <1>1, <1>2, FlowClose

LEMMA PushedKeeps ==
  ASSUME FrameInv, NEW m \in Media, NEW key \in BOOLEAN, NEW c \in Caps, gap /\ m = "video" => key,
         format' = [format EXCEPT ![m] = c], Pushed(m, key), UNCHANGED <<hand, pipe, known>>,
         encoded' \in BOOLEAN, m = "audio" => encoded' = encoded
  PROVE  FrameInv'
<1>. USE DEF FrameInv
<1>1. format' \in [Media -> Caps] /\ format'[m] = c
  BY DEF FrameTypes
<1>2. CASE Overflowed
  BY <1>1, <1>2, OverflowKeeps
<1>3. CASE /\ queue' = queue \o IF sentCaps[m] = c THEN <<Frame(m, key, c)>>
                                ELSE <<CapsRecord(m, c), Frame(m, key, c)>>
           /\ sentCaps' = [sentCaps EXCEPT ![m] = c]
           /\ skipping' = (skipping /\ m # "video")
           /\ gap' = (gap /\ m # "video")
  <2>1. queue' \in Seq(Records) /\ FlowPlays'
    BY <1>3, RoomKeeps
  <2>2. skipping' \in BOOLEAN /\ gap' \in BOOLEAN
    BY <1>3
  <2>3. sentCaps' \in [Media -> Caps \cup {NoCaps}]
    BY <1>3 DEF FrameTypes
  <2>4. FrameTypes'
    BY <1>1, <2>1, <2>2, <2>3 DEF FrameTypes
  <2>5. GapIsSkipped'
    <3>1. CASE m = "video"
      <4>1. ~gap'
        BY <1>3, <3>1
      <4>. QED BY <4>1 DEF GapIsSkipped
    <3>2. CASE m = "audio"
      <4>1. gap' = gap /\ skipping' = skipping
        BY <1>3, <3>2 DEF FrameTypes
      <4>. QED BY <3>2, <4>1 DEF GapIsSkipped
    <3>. QED BY <3>1, <3>2 DEF Media
  <2>. QED BY <2>1, <2>4, <2>5
<1>4. Overflowed \/ /\ queue' = queue \o IF sentCaps[m] = c THEN <<Frame(m, key, c)>>
                                         ELSE <<CapsRecord(m, c), Frame(m, key, c)>>
                    /\ sentCaps' = [sentCaps EXCEPT ![m] = c]
                    /\ skipping' = (skipping /\ m # "video")
                    /\ gap' = (gap /\ m # "video")
  BY <1>1 DEF Pushed, Frame
<1>. QED BY <1>2, <1>3, <1>4

LEMMA VideoSampleKeeps ==
  ASSUME FrameInv, NEW key \in BOOLEAN, NEW c \in Caps, VideoSample(key, c)
  PROVE  FrameInv'
<1>. USE DEF FrameInv
<1>1. /\ (~encoded => key) /\ encoded' = TRUE
      /\ format' = [format EXCEPT !["video"] = c] /\ UNCHANGED <<hand, pipe, known>>
  BY DEF VideoSample
<1>2. CASE skipping /\ ~key
  <2>1. gap' = TRUE /\ UNCHANGED <<queue, sentCaps, skipping>>
    BY <1>2 DEF VideoSample
  <2>2. Flow' = Flow
    BY <1>1, <2>1 DEF Flow
  <2>3. FlowPlays'
    BY <1>1, <2>1, <2>2, FlowRests
  <2>4. FrameTypes'
    BY <1>1, <2>1 DEF FrameTypes
  <2>5. GapIsSkipped'
    BY <1>2, <2>1 DEF GapIsSkipped
  <2>. QED BY <2>3, <2>4, <2>5
<1>3. CASE ~(skipping /\ ~key)
  <2>1. Pushed("video", key)
    BY <1>3 DEF VideoSample
  <2>2. gap => key
    BY <1>1, <1>3 DEF GapIsSkipped
  <2>. QED BY <1>1, <2>1, <2>2, PushedKeeps DEF Media
<1>. QED BY <1>2, <1>3

LEMMA AudioSampleKeeps ==
  ASSUME FrameInv, NEW c \in Caps, AudioSample(c)
  PROVE  FrameInv'
<1>1. /\ format' = [format EXCEPT !["audio"] = c] /\ Pushed("audio", FALSE)
      /\ UNCHANGED <<encoded, hand, pipe, known>>
  BY DEF AudioSample
<1>2. encoded' \in BOOLEAN
  BY <1>1 DEF FrameInv, FrameTypes
<1>3. "audio" \in Media /\ FALSE \in BOOLEAN
  BY DEF Media
<1>. QED BY <1>1, <1>2, <1>3, PushedKeeps

LEMMA TakeRecordKeeps ==
  ASSUME FrameInv, TakeRecord
  PROVE  FrameInv'
<1>. USE DEF FrameInv
<1>1. /\ hand = Nothing /\ queue # <<>> /\ hand' = Head(queue) /\ queue' = Tail(queue)
      /\ UNCHANGED <<encoded, format, sentCaps, skipping, gap, pipe, known>>
  BY DEF TakeRecord
<1>2. queue \in Seq(Records) /\ pipe \in Seq(Records)
  BY DEF FrameTypes
<1>3. PICK h : h = Head(queue)
  OBVIOUS
<1>4. PICK t : t = Tail(queue)
  OBVIOUS
<1>5. h \in Records /\ t \in Seq(Records)
  BY <1>1, <1>2, <1>3, <1>4, HeadTailProperties
<1>6. h # Nothing
  BY <1>5 DEF Records, Nothing
<1>7. PICK s : s = <<h>>
  OBVIOUS
<1>8. s \in Seq(Records) /\ Len(s) = 1 /\ s[1] = h
  BY <1>5, <1>7
<1>9. s \o t = queue
  BY <1>1, <1>2, <1>3, <1>4, <1>5, <1>8, HeadAndRest
<1>10. Flow = pipe \o queue
  BY <1>1, <1>2, ConcatEmptySeq DEF Flow
<1>11. Flow' = (pipe \o s) \o t
  BY <1>1, <1>3, <1>4, <1>6, <1>7 DEF Flow
<1>12. (pipe \o s) \o t = pipe \o (s \o t)
  BY <1>2, <1>5, <1>8, ConcatAssociative, SMTT(20)
<1>13. FlowPlays'
  BY <1>1, <1>9, <1>10, <1>11, <1>12, FlowRests
<1>14. FrameTypes' /\ GapIsSkipped'
  BY <1>1, <1>3, <1>4, <1>5 DEF FrameTypes, GapIsSkipped
<1>. QED BY <1>13, <1>14

LEMMA WriteRecordKeeps ==
  ASSUME FrameInv, WriteRecord
  PROVE  FrameInv'
<1>. USE DEF FrameInv
<1>1. /\ hand # Nothing /\ pipe' = Append(pipe, hand) /\ hand' = Nothing
      /\ UNCHANGED <<encoded, format, sentCaps, skipping, gap, queue, known>>
  BY DEF WriteRecord
<1>2. hand \in Records /\ pipe \in Seq(Records) /\ queue \in Seq(Records)
  BY <1>1 DEF FrameTypes
<1>3. pipe' = pipe \o <<hand>> /\ pipe' \in Seq(Records)
  BY <1>1, <1>2, AppendIsConcat, AppendProperties
<1>4. Flow = (pipe \o <<hand>>) \o queue
  BY <1>1 DEF Flow
<1>5. pipe' \o <<>> = pipe'
  BY <1>3, ConcatEmptySeq
<1>6. Flow' = pipe' \o queue
  BY <1>1, <1>5 DEF Flow
<1>7. FlowPlays'
  BY <1>1, <1>3, <1>4, <1>6, FlowRests
<1>8. FrameTypes' /\ GapIsSkipped'
  BY <1>1, <1>3 DEF FrameTypes, GapIsSkipped
<1>. QED BY <1>7, <1>8

LEMMA ReadFramesKeeps ==
  ASSUME FrameInv, ReadFrames
  PROVE  FrameInv'
<1>. USE DEF FrameInv
<1>1. PICK r : r = Head(pipe)
  OBVIOUS
<1>2. /\ pipe # <<>> /\ pipe' = Tail(pipe)
      /\ known' = IF r.type = "caps" THEN [known EXCEPT ![r.medium] = r.caps] ELSE known
      /\ UNCHANGED <<encoded, format, sentCaps, skipping, gap, queue, hand>>
  BY <1>1 DEF ReadFrames
<1>3. pipe \in Seq(Records) /\ queue \in Seq(Records) /\ OnHand \in Seq(Records)
  BY FlowTyped DEF FrameTypes
<1>4. r \in Records /\ pipe' \in Seq(Records)
  BY <1>1, <1>2, <1>3, HeadTailProperties
<1>5. PICK f, start, sent : f = Flow /\ start = known /\ sent = sentCaps /\ Plays(f, start, sent)
  BY FlowOpen
<1>6. PICK y : y = OnHand \o queue
  OBVIOUS
<1>7. y \in Seq(Records)
  BY <1>3, <1>6, ConcatProperties
<1>8. f = pipe \o y
  <2>1. (pipe \o OnHand) \o queue = pipe \o (OnHand \o queue)
    BY <1>3, ConcatAssociative
  <2>. QED BY <1>5, <1>6, <2>1, FlowTyped
<1>9. Flow' = (pipe' \o OnHand) \o queue
  BY <1>2 DEF Flow, OnHand
<1>10. Flow' = pipe' \o y
  BY <1>3, <1>4, <1>6, <1>9, ConcatAssociative, SMTT(20)
<1>11. f \in Seq(Records) /\ f # <<>> /\ f[1] = r /\ Tail(f) = pipe' \o y
  BY <1>1, <1>2, <1>3, <1>7, <1>8, TailOfJoined
<1>12. PICK g : g = Tail(f)
  OBVIOUS
<1>13. PICK then : then = known'
  OBVIOUS
<1>14. r.type = "caps" => r.medium \in Media /\ r.caps \in Caps
  BY <1>4 DEF Records
<1>15. \A m \in Media : then[m] = IF f[1].type = "caps" /\ f[1].medium = m THEN f[1].caps ELSE start[m]
  BY <1>2, <1>5, <1>11, <1>13, <1>14 DEF FrameTypes
<1>16. Reads(f, start, then)
  BY <1>15 DEF Reads
<1>17. Decodes(f, start)
  BY <1>5 DEF Plays
<1>18. Decodes(g, then) /\ \A m \in Media : KnownAfter(g, then, m) = KnownAfter(f, start, m)
  BY <1>11, <1>12, <1>16, <1>17, FirstRead
<1>19. Plays(g, then, sent)
  BY <1>5, <1>18 DEF Plays
<1>20. FlowPlays'
  BY <1>2, <1>5, <1>10, <1>11, <1>12, <1>13, <1>19, FlowClose
<1>21. known' \in [Media -> Caps \cup {NoCaps}]
  BY <1>2, <1>14 DEF FrameTypes
<1>22. FrameTypes' /\ GapIsSkipped'
  BY <1>2, <1>4, <1>21 DEF FrameTypes, GapIsSkipped
<1>. QED BY <1>20, <1>22

LEMMA FrameStarts == FrameInit => FrameInv
<1>. SUFFICES ASSUME FrameInit PROVE FrameInv
  OBVIOUS
<1>1. /\ encoded = FALSE /\ format \in [Media -> Caps] /\ skipping = FALSE /\ gap = TRUE
      /\ sentCaps = [m \in Media |-> NoCaps] /\ known = [m \in Media |-> NoCaps]
      /\ queue = <<>> /\ hand = Nothing /\ pipe = <<>>
  BY DEF FrameInit
<1>2. FrameTypes /\ GapIsSkipped
  <2>1. <<>> \in Seq(Records)
    OBVIOUS
  <2>2. sentCaps \in [Media -> Caps \cup {NoCaps}] /\ known \in [Media -> Caps \cup {NoCaps}]
    BY <1>1
  <2>. QED BY <1>1, <2>1, <2>2 DEF FrameTypes, GapIsSkipped
<1>3. Flow = <<>>
  BY <1>1 DEF Flow
<1>4. \A m \in Media : sentCaps[m] = NoCaps
  BY <1>1
<1>5. FlowPlays
  BY <1>3, <1>4 DEF FlowPlays, Plays, Decodes
<1>. QED BY <1>2, <1>5 DEF FrameInv

LEMMA FrameStep ==
  ASSUME FrameInv, [FrameNext]_frameVars
  PROVE  FrameInv'
<1>1. ASSUME NEW key \in BOOLEAN, NEW c \in Caps, VideoSample(key, c) PROVE FrameInv'
  BY <1>1, VideoSampleKeeps
<1>2. ASSUME NEW c \in Caps, AudioSample(c) PROVE FrameInv'
  BY <1>2, AudioSampleKeeps
<1>3. CASE TakeRecord
  BY <1>3, TakeRecordKeeps
<1>4. CASE WriteRecord
  BY <1>4, WriteRecordKeeps
<1>5. CASE ReadFrames
  BY <1>5, ReadFramesKeeps
<1>6. ASSUME UNCHANGED <<encoded, format, sentCaps, skipping, gap, queue, hand, pipe, known>>
      PROVE  FrameInv'
  <2>1. Flow' = Flow /\ FrameTypes' /\ GapIsSkipped'
    BY <1>6 DEF FrameInv, Flow, FrameTypes, GapIsSkipped
  <2>. QED BY <1>6, <2>1, FlowRests DEF FrameInv
<1>7. ASSUME NEW kind, KeyframeRequest(kind) \/ LimitPasses(kind) PROVE FrameInv'
  BY <1>6, <1>7 DEF KeyframeRequest, LimitPasses
<1>8. CASE Recovery
  BY <1>6, <1>8 DEF Recovery
<1>9. CASE UNCHANGED frameVars
  BY <1>6, <1>9 DEF frameVars
<1>. QED BY <1>1, <1>2, <1>3, <1>4, <1>5, <1>7, <1>8, <1>9 DEF FrameNext

LEMMA FrameInvDecodes == FrameInv => FramesDecode
<1>. SUFFICES ASSUME FrameInv PROVE FramesDecode
  OBVIOUS
<1>1. Decodes(Flow, known)
  BY DEF FrameInv, FlowPlays, Plays
<1>2. \A i, m : KnownAt(i, m) = KnownIn(Flow, known, i, m)
  BY DEF KnownAt, KnownIn, FormatsIn
<1>. QED BY <1>1, <1>2 DEF FramesDecode, Decodes

\* Of any number of formats, any queue budget and any size of the pipe: whatever an overflow drops and
\* whenever it does, between any two steps of the writer and of the reader, no frame reaches the viewers
\* under another format than its own, and none that follows a gap but a keyframe.
THEOREM FramesStayPlayable == FrameSpec => []FramesDecode
<1>1. FrameInit => FrameInv
  BY FrameStarts
<1>2. FrameInv /\ [FrameNext]_frameVars => FrameInv'
  BY FrameStep
<1>3. FrameInv => FramesDecode
  BY FrameInvDecodes
<1>. QED BY <1>1, <1>2, <1>3, PTL DEF FrameSpec

-----------------------------------------------------------------------------
(* The audio's timeline. *)

LEMMA Products == ASSUME NEW x \in Nat, NEW y \in Nat PROVE x * y \in Nat
OBVIOUS

LEMMA Quotients ==
  ASSUME NEW x \in Nat, NEW d \in Nat \ {0}
  PROVE  x \div d \in Nat /\ x % d \in 0..(d - 1) /\ (x \div d) * d + (x % d) = x
<1>1. x \div d \in Int
  OBVIOUS
<1>2. x \div d >= 0
  OBVIOUS
<1>3. x % d \in 0..(d - 1)
  OBVIOUS
<1>4. (x \div d) * d + (x % d) = x
  OBVIOUS
<1>. QED BY <1>1, <1>2, <1>3, <1>4

\* How long so many samples are.
Ticks(samples) == (samples * Second) \div Rate

LEMMA TicksAreNatural ==
  ASSUME NEW samples \in Nat
  PROVE  Ticks(samples) \in Nat
<1>1. samples * Second \in Nat
  BY TimelineAssumption, Products
<1>. QED BY <1>1, TimelineAssumption, Quotients DEF Ticks

TimelineTypes ==
  /\ now \in Nat
  /\ line \in [started : BOOLEAN, origin : Nat, samples : Nat, next : Nat]
  /\ last \in [pts : Nat, length : Nat, at : Nat, discont : BOOLEAN]

\* The next chunk goes where the samples since the origin end, by a single division.
Counted == line.next = line.origin + Ticks(line.samples)

LastIsNear ==
  /\ last.at - last.pts <= IF last.length > Drift THEN last.length ELSE Drift
  /\ last.pts - last.at <= Drift

TimelineInv == TimelineTypes /\ Counted /\ LastIsNear

LEMMA ChunkKeeps ==
  ASSUME TimelineInv, NEW n \in Chunks, Chunk(n)
  PROVE  TimelineInv'
<1>. USE DEF TimelineInv
<1>1. n \in Nat /\ Drift \in Nat /\ now \in Nat
  BY TimelineAssumption DEF TimelineTypes
<1>2. PICK length : length = Ticks(n)
  OBVIOUS
<1>3. length \in Nat
  BY <1>1, <1>2, TicksAreNatural
<1>4. PICK set : set = IF Far(line) THEN Anew(length) ELSE line
  OBVIOUS
<1>5. PICK apart \in BOOLEAN : apart = (Far(line) /\ line.started)
  OBVIOUS
<1>6. /\ line' = Advanced(set, n) /\ now' = now
      /\ last' = [pts |-> set.next, length |-> length, at |-> now, discont |-> apart]
  BY <1>2, <1>4, <1>5 DEF Chunk, Ticks
<1>7. /\ set \in [started : BOOLEAN, origin : Nat, samples : Nat, next : Nat]
      /\ now - set.next <= IF length > Drift THEN length ELSE Drift
      /\ set.next - now <= Drift
  <2>1. CASE Far(line)
    <3>1. PICK start : start = IF now > length THEN now - length ELSE 0
      OBVIOUS
    <3>2. set = [started |-> TRUE, origin |-> start, samples |-> 0, next |-> start]
      BY <1>4, <2>1, <3>1 DEF Anew
    <3>3. start \in Nat /\ now - start <= length /\ start <= now
      BY <1>1, <1>3, <3>1
    <3>4. now - start <= IF length > Drift THEN length ELSE Drift
      BY <1>1, <1>3, <3>3
    <3>5. start - now <= Drift
      BY <1>1, <3>3
    <3>6. set.next = start
      BY <3>2
    <3>. QED BY <3>2, <3>3, <3>4, <3>5, <3>6
  <2>2. CASE ~Far(line)
    <3>1. set = line /\ line.next \in Nat
      BY <1>4, <2>2 DEF TimelineTypes
    <3>2. ~(line.next - now > Drift) /\ ~(now - line.next > Drift)
      BY <2>2 DEF Far
    <3>3. line.next - now <= Drift /\ now - line.next <= Drift
      BY <1>1, <3>1, <3>2
    <3>4. now - line.next <= IF length > Drift THEN length ELSE Drift
      BY <1>1, <1>3, <3>1, <3>3
    <3>. QED BY <3>1, <3>3, <3>4 DEF TimelineTypes
  <2>. QED BY <2>1, <2>2
<1>8. set.samples + n \in Nat /\ set.origin \in Nat
  BY <1>1, <1>7
<1>9. Ticks(set.samples + n) \in Nat
  BY <1>8, TicksAreNatural
<1>10. line' = [set EXCEPT !.samples = set.samples + n, !.next = set.origin + Ticks(set.samples + n)]
  BY <1>6 DEF Advanced, Ticks
<1>11. /\ line' \in [started : BOOLEAN, origin : Nat, samples : Nat, next : Nat]
       /\ line'.next = line'.origin + Ticks(line'.samples)
  <2>1. PICK total \in Nat : total = set.samples + n
    BY <1>8
  <2>2. PICK next \in Nat : next = set.origin + Ticks(total)
    BY <1>8, <1>9, <2>1
  <2>3. line' = [set EXCEPT !.samples = total, !.next = next]
    BY <1>10, <2>1, <2>2
  <2>4. line'.next = next /\ line'.samples = total /\ line'.origin = set.origin
    BY <1>7, <2>3
  <2>. QED BY <1>7, <2>2, <2>3, <2>4
<1>12. Counted'
  BY <1>11 DEF Counted, Ticks
<1>13. last' \in [pts : Nat, length : Nat, at : Nat, discont : BOOLEAN]
  <2>1. set.next \in Nat
    BY <1>7
  <2>. QED BY <1>1, <1>3, <1>6, <2>1
<1>14. LastIsNear'
  BY <1>6, <1>7 DEF LastIsNear
<1>. QED BY <1>1, <1>6, <1>11, <1>12, <1>13, <1>14 DEF TimelineTypes

LEMMA TimelineStarts == TimelineInit => TimelineInv
<1>. SUFFICES ASSUME TimelineInit PROVE TimelineInv
  OBVIOUS
<1>1. /\ now = 0 /\ line = [started |-> FALSE, origin |-> 0, samples |-> 0, next |-> 0]
      /\ last = [pts |-> 0, length |-> 0, at |-> 0, discont |-> FALSE]
  BY DEF TimelineInit, NotStarted
<1>2. TimelineTypes
  BY <1>1 DEF TimelineTypes
<1>3. Ticks(0) = 0
  <2>1. Rate \in Nat \ {0} /\ Second \in Nat
    BY TimelineAssumption
  <2>2. 0 * Second = 0
    BY <2>1
  <2>3. 0 \div Rate = 0
    BY <2>1
  <2>. QED BY <2>2, <2>3 DEF Ticks
<1>4. Counted
  BY <1>1, <1>3 DEF Counted
<1>5. LastIsNear
  BY <1>1, TimelineAssumption DEF LastIsNear
<1>. QED BY <1>2, <1>4, <1>5 DEF TimelineInv

LEMMA TimelineStep ==
  ASSUME TimelineInv, [TimelineNext]_timelineVars
  PROVE  TimelineInv'
<1>. USE DEF TimelineInv
<1>1. ASSUME NEW n \in Chunks, Chunk(n) PROVE TimelineInv'
  BY <1>1, ChunkKeeps
<1>2. CASE Reset
  <2>1. line' = [line EXCEPT !.started = FALSE] /\ now' = now /\ last' = last
    BY <1>2 DEF Reset
  <2>2. /\ line' \in [started : BOOLEAN, origin : Nat, samples : Nat, next : Nat]
        /\ line'.next = line.next /\ line'.origin = line.origin /\ line'.samples = line.samples
    BY <2>1 DEF TimelineTypes
  <2>. QED BY <2>1, <2>2 DEF TimelineTypes, Counted, LastIsNear, Ticks
<1>3. CASE ClockTicks
  <2>1. now' = now + 1 /\ line' = line /\ last' = last
    BY <1>3 DEF ClockTicks
  <2>. QED BY <2>1 DEF TimelineTypes, Counted, LastIsNear, Ticks
<1>4. CASE UNCHANGED timelineVars
  BY <1>4 DEF timelineVars, TimelineTypes, Counted, LastIsNear, Ticks
<1>. QED BY <1>1, <1>2, <1>3, <1>4 DEF TimelineNext

LEMMA CountedIsExact ==
  ASSUME TimelineInv
  PROVE  \E r \in 0..(Rate - 1) : (line.next - line.origin) * Rate + r = line.samples * Second
<1>1. line.origin \in Nat /\ line.samples \in Nat
  BY DEF TimelineInv, TimelineTypes
<1>2. PICK x : x = line.samples * Second
  OBVIOUS
<1>3. x \in Nat
  BY <1>1, <1>2, TimelineAssumption, Products
<1>4. x \div Rate \in Nat /\ x % Rate \in 0..(Rate - 1) /\ (x \div Rate) * Rate + (x % Rate) = x
  BY <1>3, TimelineAssumption, Quotients
<1>5. line.next = line.origin + (x \div Rate)
  BY <1>2 DEF TimelineInv, Counted, Ticks
<1>6. line.next - line.origin = x \div Rate
  BY <1>1, <1>4, <1>5
<1>. QED BY <1>2, <1>4, <1>6

\* At any clock and sample rate, any drift and any chunk sizes: a chunk is stamped within the drift of
\* its arrival, or a chunk's length before it, and after however many chunks the timeline is where its
\* samples put it, to the rounding of one division.
THEOREM AudioFollowsItsSamples == TimelineSpec => []NeverWanders
<1>1. TimelineInit => TimelineInv
  BY TimelineStarts
<1>2. TimelineInv /\ [TimelineNext]_timelineVars => TimelineInv'
  BY TimelineStep
<1>3. TimelineInv => NeverWanders
  BY CountedIsExact DEF TimelineInv, LastIsNear, NeverWanders
<1>. QED BY <1>1, <1>2, <1>3, PTL DEF TimelineSpec

=============================================================================
