------------------------ MODULE TopologyProxyProofs ------------------------
(***************************************************************************)
(* That the SSE proxy holds one watch, and that what its browsers show is  *)
(* the service's state but for the parts an older snapshot took back, for  *)
(* any number of browsers, parts, changes and lost connections.            *)
(*                                                                         *)
(* The proxy's own guard (a watch starts only where watchStream is null)   *)
(* is not enough for the first: a late 'end' of the last stream clears     *)
(* watchStream whatever it holds.  What saves it is that such an event is  *)
(* never there together with a watch.                                      *)
(***************************************************************************)
EXTENDS TopologyProxy, TLAPS

\* No event of a lost stream is left when the next watch starts, and a proxy
\* that holds no stream is served none.
NoLateEvent ==
    /\ opened \in Nat
    /\ ~isStopping /\ events # {} => DOMAIN watching = {}
    /\ watchStream = Nothing => DOMAIN watching = {}

WatchInv == OneWatch /\ NoLateEvent

LEMMA InitWatch == Init => WatchInv
BY ProxyAssumption DEF Init, WatchInv, OneWatch, NoLateEvent

\* startWatchStream, called where no event is left.
LEMMA StartKeepsOne ==
    ASSUME WatchInv, StartWatch, events = {},
           events' = events, isStopping' = isStopping
    PROVE  WatchInv'
<1>1. CASE watchStream # Nothing \/ isStopping
  BY <1>1 DEF WatchInv, OneWatch, NoLateEvent, StartWatch
<1>2. CASE ~(watchStream # Nothing \/ isStopping)
  <2>1. /\ opened' = opened + 1 /\ watchStream' = opened'
        /\ DOMAIN watching' = DOMAIN watching \cup {opened'}
    BY <1>2 DEF StartWatch
  <2>2. DOMAIN watching = {} /\ opened' \in Nat /\ opened' # Nothing
    BY <1>2, <2>1, ProxyAssumption DEF WatchInv, NoLateEvent
  <2> QED
    BY <2>1, <2>2 DEF WatchInv, OneWatch, NoLateEvent
<1> QED
  BY <1>1, <1>2

LEMMA StepWatch == WatchInv /\ [Next]_vars => WatchInv'
<1> SUFFICES ASSUME WatchInv, [Next]_vars
             PROVE  WatchInv'
  OBVIOUS
<1> USE DEF WatchInv, OneWatch, NoLateEvent
<1>1. ASSUME NEW c \in DOMAIN watching, StreamData(c)
      PROVE  WatchInv'
  BY <1>1 DEF StreamData
<1>2. ASSUME NEW c \in Call, NEW e \in {"error", "end"}, StreamEvent(c, e)
      PROVE  WatchInv'
  <2>1. /\ events # {} /\ events' \subseteq events
        /\ watching' = watching /\ opened' = opened /\ isStopping' = isStopping
    BY <1>2 DEF StreamEvent
  <2>2. CASE isStopping
    BY <1>2, <2>1, <2>2 DEF StreamEvent
  <2>3. CASE ~isStopping
    BY <2>1, <2>3
  <2> QED
    BY <2>2, <2>3
<1>3. CASE SecondPasses
  BY <1>3, StartKeepsOne DEF SecondPasses, Settled
<1>4. ASSUME NEW b \in Browser,
             HandleSse(b) \/ Join(b) \/ CallFails(b) \/ BrowserLeaves(b)
      PROVE  WatchInv'
  BY <1>4 DEF HandleSse, Join, GetTopology, SnapshotFetched, SnapshotMissed, CallFails,
              BrowserLeaves, watchVars
<1>5. ASSUME NEW p \in Part, Change(p)
      PROVE  WatchInv'
  BY <1>5 DEF Change
<1>6. CASE ConnectionLost
  BY <1>6 DEF ConnectionLost
<1>7. CASE Stop
  BY <1>7 DEF Stop
<1>8. CASE UNCHANGED vars
  BY <1>8 DEF vars
<1> QED
  BY <1>1, <1>2, <1>3, <1>4, <1>5, <1>6, <1>7, <1>8 DEF Next, Deliver, Handle

\* However often the connection is lost and both its events restart the
\* watch, the service serves the proxy no stream but the one it holds.
THEOREM OneWatchHeld == Spec => []OneWatch
<1>1. WatchInv => OneWatch
  BY DEF WatchInv
<1> QED
  BY InitWatch, StepWatch, <1>1, PTL DEF Spec

(***************************************************************************)
(* What the browsers show.                                                 *)
(***************************************************************************)
Picture == [Part -> Nat]
Update == UNION {[D -> Nat] : D \in SUBSET Part}

Unmentioned(s, p) == \A n \in DOMAIN s : p \notin DOMAIN s[n]

\* The last update of p in s gives it the version x.
LastIs(s, p, x) ==
    \E n \in DOMAIN s :
        /\ p \in DOMAIN s[n] /\ s[n][p] = x
        /\ \A m \in DOMAIN s : m > n => p \notin DOMAIN s[m]

LEMMA LastOfAppend ==
    ASSUME NEW s \in Seq(Update), NEW u \in Update, NEW p
    PROVE  /\ p \in DOMAIN u => LastIs(Append(s, u), p, u[p])
           /\ p \notin DOMAIN u =>
                 /\ Unmentioned(s, p) => Unmentioned(Append(s, u), p)
                 /\ \A x : LastIs(s, p, x) => LastIs(Append(s, u), p, x)
           /\ Unmentioned(Append(s, u), p) => Unmentioned(s, p)
<1> DEFINE t == Append(s, u)
<1>1. /\ Len(s) \in Nat /\ DOMAIN s = 1 .. Len(s) /\ DOMAIN t = 1 .. Len(s) + 1
      /\ \A n \in DOMAIN s : t[n] = s[n]
      /\ t[Len(s) + 1] = u
  OBVIOUS
<1> HIDE DEF t
<1>2. p \in DOMAIN u => LastIs(t, p, u[p])
  <2>1. Len(s) + 1 \in DOMAIN t /\ \A m \in DOMAIN t : ~(m > Len(s) + 1)
    BY <1>1
  <2> QED
    BY <1>1, <2>1 DEF LastIs
<1>3. \A n \in DOMAIN t : n \in DOMAIN s \/ n = Len(s) + 1
  BY <1>1
<1>4. p \notin DOMAIN u => (Unmentioned(s, p) => Unmentioned(t, p))
  BY <1>1, <1>3 DEF Unmentioned
<1>5. ASSUME NEW x, p \notin DOMAIN u, LastIs(s, p, x)
      PROVE  LastIs(t, p, x)
  <2>1. PICK n \in DOMAIN s : /\ p \in DOMAIN s[n] /\ s[n][p] = x
                              /\ \A m \in DOMAIN s : m > n => p \notin DOMAIN s[m]
    BY <1>5 DEF LastIs
  <2>2. n \in DOMAIN t /\ t[n] = s[n]
    BY <1>1
  <2>3. \A m \in DOMAIN t : m > n => p \notin DOMAIN t[m]
    BY <1>1, <1>3, <1>5, <2>1
  <2> QED
    BY <2>1, <2>2, <2>3 DEF LastIs
<1>6. Unmentioned(t, p) => Unmentioned(s, p)
  BY <1>1 DEF Unmentioned
<1> QED
  BY <1>2, <1>4, <1>5, <1>6 DEF t

LEMMA LastOfTail ==
    ASSUME NEW s \in Seq(Update), s # <<>>, NEW p
    PROVE  /\ Unmentioned(s, p) => Unmentioned(Tail(s), p) /\ p \notin DOMAIN Head(s)
           /\ \A x : LastIs(s, p, x) =>
                 \/ LastIs(Tail(s), p, x)
                 \/ Unmentioned(Tail(s), p) /\ p \in DOMAIN Head(s) /\ Head(s)[p] = x
<1> DEFINE t == Tail(s)
<1>1. /\ Len(s) \in Nat /\ Len(s) > 0 /\ Head(s) = s[1]
      /\ DOMAIN s = 1 .. Len(s) /\ DOMAIN t = 1 .. Len(s) - 1
      /\ \A n \in DOMAIN t : t[n] = s[n + 1]
  OBVIOUS
<1> HIDE DEF t
<1>2. 1 \in DOMAIN s /\ \A n \in DOMAIN t : n + 1 \in DOMAIN s /\ n + 1 > 1
  BY <1>1
<1>3. Unmentioned(s, p) => Unmentioned(t, p) /\ p \notin DOMAIN Head(s)
  BY <1>1, <1>2 DEF Unmentioned
<1>4. ASSUME NEW x, LastIs(s, p, x)
      PROVE  \/ LastIs(t, p, x)
             \/ Unmentioned(t, p) /\ p \in DOMAIN Head(s) /\ Head(s)[p] = x
  <2>1. PICK n \in DOMAIN s : /\ p \in DOMAIN s[n] /\ s[n][p] = x
                              /\ \A m \in DOMAIN s : m > n => p \notin DOMAIN s[m]
    BY <1>4 DEF LastIs
  <2>2. CASE n = 1
    <3>1. Unmentioned(t, p)
      BY <1>1, <1>2, <2>1, <2>2 DEF Unmentioned
    <3> QED
      BY <1>1, <2>1, <2>2, <3>1
  <2>3. CASE n # 1
    <3>1. n - 1 \in DOMAIN t /\ t[n - 1] = s[n]
      <4>1. n - 1 \in DOMAIN t /\ (n - 1) + 1 = n
        BY <1>1, <2>3
      <4> QED
        BY <1>1, <4>1
    <3>2. \A m \in DOMAIN t : m > n - 1 => p \notin DOMAIN t[m]
      <4>1. \A m \in DOMAIN t : m > n - 1 => m + 1 > n
        BY <1>1, <2>1
      <4> QED
        BY <1>1, <1>2, <2>1, <4>1
    <3> QED
      BY <2>1, <3>1, <3>2 DEF LastIs
  <2> QED
    BY <2>2, <2>3
<1> QED
  BY <1>3, <1>4 DEF t

\* What a browser will show of p is what the last update of p says.
LEMMA WillShowLast ==
    ASSUME NEW b \in Browser, NEW c \in DOMAIN watching, NEW p \in Part,
           watching[c] \in Seq(Update)
    PROVE  /\ Unmentioned(watching[c], p) => WillShow(b, c, p) = shown[b][p]
           /\ \A x : LastIs(watching[c], p, x) => WillShow(b, c, p) = x
<1> DEFINE s == watching[c]
           updates == {n \in DOMAIN s : p \in DOMAIN s[n]}
<1>1. WillShow(b, c, p) = IF updates = {} THEN shown[b][p] ELSE s[Max(updates)][p]
  BY DEF WillShow
<1>2. DOMAIN s \subseteq Nat
  OBVIOUS
<1> HIDE DEF s
<1>3. Unmentioned(s, p) => updates = {}
  BY DEF Unmentioned
<1>4. ASSUME NEW x, LastIs(s, p, x)
      PROVE  updates # {} /\ s[Max(updates)][p] = x
  <2>1. PICK n \in DOMAIN s : /\ p \in DOMAIN s[n] /\ s[n][p] = x
                              /\ \A m \in DOMAIN s : m > n => p \notin DOMAIN s[m]
    BY <1>4 DEF LastIs
  <2>2. n \in updates /\ \A m \in updates : n >= m
    BY <1>2, <2>1
  <2>3. Max(updates) = n
    <3>1. updates \subseteq Nat
      BY <1>2
    <3>2. Max(updates) \in updates /\ \A m \in updates : Max(updates) >= m
      <4> HIDE DEF updates
      <4> QED
        BY <2>2 DEF Max
    <3> HIDE DEF updates
    <3> QED
      BY <2>2, <3>1, <3>2
  <2> QED
    BY <2>1, <2>2, <2>3
<1> QED
  BY <1>1, <1>3, <1>4 DEF s

ProxyTyped ==
    /\ topology \in Picture
    /\ \A c \in DOMAIN watching : watching[c] \in Seq(Update)
    /\ watching = [c \in DOMAIN watching |-> watching[c]]
    /\ shown \in [Browser -> Picture]
    /\ fetched \in [Browser -> Picture \cup {Nothing}]
    /\ lastSnapshot \in Picture \cup {Nothing}
    /\ overtaken = [b \in Browser |-> overtaken[b]]
    /\ request = [b \in Browser |-> request[b]]

\* The last update of a part under way is the service's version of it.
StreamCurrent ==
    \A c \in DOMAIN watching, p \in Part :
        Unmentioned(watching[c], p) \/ LastIs(watching[c], p, topology[p])

\* A snapshot is never ahead of the service.  A part it is behind in has an
\* update under way or one that has reached the browser, which the snapshot
\* will set back: the part that will count as overtaken.
FetchedCurrent ==
    \A b \in Browser :
        fetched[b] # Nothing =>
            /\ \A p \in Part : fetched[b][p] <= topology[p]
            /\ b \in listeners /\ request[b] = "fetching" =>
                  \A c \in DOMAIN watching, p \in Part :
                     \/ ~Unmentioned(watching[c], p)
                     \/ fetched[b][p] = topology[p]
                     \/ shown[b][p] = topology[p]

\* No watch is served while a request whose fetch failed waits for the last
\* snapshot, and none has a snapshot before it came.
RequestsSettled ==
    \A b \in Browser :
        /\ request[b] = "failed" => DOMAIN watching = {}
        /\ request[b] = "new" => fetched[b] = Nothing

\* What PictureExact says, in terms of the updates under way.
JoinedCurrent ==
    \A b \in Browser, c \in DOMAIN watching, p \in Part :
        b \in listeners /\ request[b] = "joined" /\ p \notin overtaken[b]
            /\ Unmentioned(watching[c], p)
            => shown[b][p] = topology[p]

ShownInv ==
    /\ WatchInv
    /\ ProxyTyped /\ StreamCurrent /\ FetchedCurrent /\ RequestsSettled /\ JoinedCurrent

\* A snapshot mentions every part, at its version of the moment.
LEMMA SnapshotMentionsAll ==
    ASSUME NEW t \in Picture
    PROVE  /\ <<t>> \in Seq(Update)
           /\ \A p \in Part : LastIs(<<t>>, p, t[p]) /\ ~Unmentioned(<<t>>, p)
<1>1. t \in Update /\ DOMAIN t = Part
  BY DEF Picture, Update
<1>2. <<t>> \in Seq(Update) /\ DOMAIN <<t>> = {1} /\ <<t>>[1] = t
  BY <1>1
<1> QED
  BY <1>1, <1>2 DEF LastIs, Unmentioned

LEMMA InitShown == Init => ShownInv
<1> SUFFICES ASSUME Init PROVE ShownInv
  OBVIOUS
<1>1. topology \in Picture /\ Blank \in Picture
  BY DEF Init, Blank, Picture
<1>2. DOMAIN watching = {1} /\ watching[1] = <<topology>>
  BY DEF Init
<1>3. ProxyTyped
  BY <1>1, <1>2, SnapshotMentionsAll DEF Init, ProxyTyped
<1>4. StreamCurrent
  BY <1>1, <1>2, SnapshotMentionsAll DEF StreamCurrent
<1>5. FetchedCurrent /\ RequestsSettled /\ JoinedCurrent
  BY DEF Init, FetchedCurrent, RequestsSettled, JoinedCurrent
<1> QED
  BY <1>3, <1>4, <1>5, InitWatch DEF ShownInv

\* An update reaches every listener.  There is one watch only, so no other
\* brings an older version of the same part.
LEMMA DataKeepsShown ==
    ASSUME ShownInv, NEW c \in DOMAIN watching, StreamData(c)
    PROVE  ProxyTyped' /\ StreamCurrent' /\ FetchedCurrent' /\ RequestsSettled' /\ JoinedCurrent'
<1> USE DEF ShownInv
<1> DEFINE s == watching[c]
           u == Head(s)
<1>1. s \in Seq(Update) /\ s # <<>> /\ u \in Update /\ Tail(s) \in Seq(Update)
  BY DEF StreamData, ProxyTyped
<1>2. /\ DOMAIN watching = {c} /\ DOMAIN watching' = {c}
      /\ watching'[c] = Tail(s)
      /\ watching' = [x \in DOMAIN watching' |-> watching'[x]]
  BY DEF StreamData, WatchInv, OneWatch, ProxyTyped
<1>3. /\ topology' = topology /\ listeners' = listeners
      /\ request' = request /\ fetched' = fetched
      /\ shown' = [b \in Browser |-> IF b \in listeners THEN Updated(shown[b], u)
                                     ELSE shown[b]]
      /\ overtaken' = [b \in Browser |-> IF b \in listeners THEN overtaken[b] \ DOMAIN u
                                         ELSE overtaken[b]]
      /\ lastSnapshot' = IF IsSnapshot(u) THEN u ELSE lastSnapshot
  BY DEF StreamData, Broadcast
<1>4. \A b \in listeners \cap Browser : \A p \in Part :
         shown'[b][p] = IF p \in DOMAIN u THEN u[p] ELSE shown[b][p]
  BY <1>3 DEF Updated
<1>5. \A p \in Part :
         /\ Unmentioned(s, p) => Unmentioned(Tail(s), p) /\ p \notin DOMAIN u
         /\ LastIs(s, p, topology[p]) =>
               \/ LastIs(Tail(s), p, topology[p])
               \/ Unmentioned(Tail(s), p) /\ p \in DOMAIN u /\ u[p] = topology[p]
  BY <1>1, LastOfTail
<1>6. \A p \in Part : ~(Unmentioned(Tail(s), p) /\ LastIs(Tail(s), p, topology[p]))
  BY DEF Unmentioned, LastIs
<1>7. \A p \in Part : Unmentioned(s, p) \/ LastIs(s, p, topology[p])
  BY DEF StreamCurrent
<1> HIDE DEF s, u
<1>8. ProxyTyped'
  <2>1. \A b \in Browser : Updated(shown[b], u) \in Picture
    BY <1>1 DEF Updated, ProxyTyped, Picture, Update
  <2>2. IsSnapshot(u) => u \in Picture
    BY <1>1 DEF IsSnapshot, Update, Picture
  <2>3. shown' \in [Browser -> Picture] /\ lastSnapshot' \in Picture \cup {Nothing}
    BY <1>3, <2>1, <2>2 DEF ProxyTyped
  <2>4. \A x \in DOMAIN watching' : watching'[x] \in Seq(Update)
    BY <1>1, <1>2
  <2> QED
    BY <1>2, <1>3, <2>3, <2>4 DEF ProxyTyped
<1>9. StreamCurrent'
  BY <1>2, <1>3, <1>5, <1>7 DEF StreamCurrent
<1>10. FetchedCurrent'
  <2>1. ASSUME NEW b \in Browser, fetched[b] # Nothing, b \in listeners,
               request[b] = "fetching", NEW p \in Part, Unmentioned(Tail(s), p)
        PROVE  fetched[b][p] = topology[p] \/ shown'[b][p] = topology[p]
    <3>1. CASE Unmentioned(s, p)
      <4>1. fetched[b][p] = topology[p] \/ shown[b][p] = topology[p]
        BY <1>2, <2>1, <3>1 DEF FetchedCurrent, s
      <4> QED
        BY <1>4, <1>5, <2>1, <3>1, <4>1
    <3>2. CASE ~Unmentioned(s, p)
      BY <1>4, <1>5, <1>6, <1>7, <2>1, <3>2
    <3> QED
      BY <3>1, <3>2
  <2>2. \A x \in DOMAIN watching' : watching'[x] = Tail(s)
    BY <1>2
  <2>3. ASSUME NEW b \in Browser, fetched[b] # Nothing
        PROVE  /\ \A p \in Part : fetched[b][p] <= topology[p]
               /\ b \in listeners /\ request[b] = "fetching" =>
                     \A x \in DOMAIN watching', p \in Part :
                        \/ ~Unmentioned(watching'[x], p)
                        \/ fetched[b][p] = topology[p]
                        \/ shown'[b][p] = topology[p]
    BY <2>1, <2>2, <2>3 DEF FetchedCurrent
  <2> QED
    BY <1>3, <2>3 DEF FetchedCurrent
<1>11. RequestsSettled'
  BY <1>2, <1>3 DEF RequestsSettled
<1>12. JoinedCurrent'
  <2>1. ASSUME NEW b \in Browser, b \in listeners, request[b] = "joined",
               NEW p \in Part, p \notin overtaken'[b], Unmentioned(Tail(s), p)
        PROVE  shown'[b][p] = topology[p]
    <3>1. CASE Unmentioned(s, p)
      <4>1. p \notin overtaken[b]
        BY <1>3, <1>5, <2>1, <3>1
      <4>2. shown[b][p] = topology[p]
        BY <1>2, <2>1, <3>1, <4>1 DEF JoinedCurrent, s
      <4> QED
        BY <1>4, <1>5, <2>1, <3>1, <4>2
    <3>2. CASE ~Unmentioned(s, p)
      BY <1>4, <1>5, <1>6, <1>7, <2>1, <3>2
    <3> QED
      BY <3>1, <3>2
  <2>2. \A x \in DOMAIN watching' : watching'[x] = Tail(s)
    BY <1>2
  <2>3. ASSUME NEW b \in Browser, NEW x \in DOMAIN watching', NEW p \in Part,
               b \in listeners, request[b] = "joined", p \notin overtaken'[b],
               Unmentioned(watching'[x], p)
        PROVE  shown'[b][p] = topology[p]
    BY <2>1, <2>2, <2>3
  <2> QED
    BY <1>3, <2>3 DEF JoinedCurrent
<1> QED
  BY <1>8, <1>9, <1>10, <1>11, <1>12

\* A change of the service is under way to the proxy at once.
LEMMA ChangeKeepsShown ==
    ASSUME ShownInv, NEW q \in Part, Change(q)
    PROVE  ProxyTyped' /\ StreamCurrent' /\ FetchedCurrent' /\ RequestsSettled' /\ JoinedCurrent'
<1> USE DEF ShownInv
<1> DEFINE u == [x \in {q} |-> topology[q] + 1]
<1>1. u \in Update /\ DOMAIN u = {q} /\ u[q] = topology[q] + 1
  <2>1. u \in [{q} -> Nat] /\ {q} \in SUBSET Part
    BY DEF ProxyTyped, Picture
  <2> QED
    BY <2>1 DEF Update
<1>2. /\ topology' \in Picture /\ topology'[q] = u[q]
      /\ \A p \in Part : topology'[p] >= topology[p]
      /\ \A p \in Part \ {q} : topology'[p] = topology[p]
  BY <1>1 DEF Change, ProxyTyped, Picture
<1>3. /\ watching' = [c \in DOMAIN watching |-> Append(watching[c], u)]
      /\ lastSnapshot' = lastSnapshot /\ listeners' = listeners /\ request' = request
      /\ fetched' = fetched /\ shown' = shown /\ overtaken' = overtaken
  BY DEF Change, browserVars
<1> HIDE DEF u
<1>4. ASSUME NEW c \in DOMAIN watching, NEW p \in Part
      PROVE  /\ p = q => LastIs(watching'[c], p, topology'[p])
             /\ p # q => /\ Unmentioned(watching[c], p) => Unmentioned(watching'[c], p)
                         /\ \A x : LastIs(watching[c], p, x) => LastIs(watching'[c], p, x)
             /\ Unmentioned(watching'[c], p) => Unmentioned(watching[c], p) /\ p # q
  <2>1. watching[c] \in Seq(Update) /\ watching'[c] = Append(watching[c], u)
    BY <1>3 DEF ProxyTyped
  <2>2. p = q => LastIs(watching'[c], p, topology'[p])
    BY <1>1, <1>2, <2>1, LastOfAppend
  <2>3. ~(Unmentioned(watching'[c], p) /\ LastIs(watching'[c], p, topology'[p]))
    BY DEF Unmentioned, LastIs
  <2>4. /\ p # q => /\ Unmentioned(watching[c], p) => Unmentioned(watching'[c], p)
                    /\ \A x : LastIs(watching[c], p, x) => LastIs(watching'[c], p, x)
        /\ Unmentioned(watching'[c], p) => Unmentioned(watching[c], p)
    BY <1>1, <2>1, LastOfAppend
  <2> QED
    BY <2>2, <2>3, <2>4
<1>5. ProxyTyped'
  BY <1>1, <1>2, <1>3 DEF ProxyTyped
<1>6. StreamCurrent'
  BY <1>2, <1>3, <1>4 DEF StreamCurrent
<1>7. FetchedCurrent'
  <2>1. ASSUME NEW b \in Browser, fetched[b] # Nothing, NEW p \in Part
        PROVE  fetched[b][p] <= topology'[p]
    <3>1. fetched[b][p] \in Nat /\ topology[p] \in Nat /\ topology'[p] \in Nat
      BY <1>2, <2>1 DEF ProxyTyped, Picture
    <3> QED
      BY <1>2, <2>1, <3>1 DEF FetchedCurrent
  <2> QED
    BY <1>2, <1>3, <1>4, <2>1 DEF FetchedCurrent
<1>8. RequestsSettled'
  BY <1>3 DEF RequestsSettled
<1>9. JoinedCurrent'
  BY <1>2, <1>3, <1>4 DEF JoinedCurrent
<1> QED
  BY <1>5, <1>6, <1>7, <1>8, <1>9

\* A watch that starts brings every part; it does not start while a request
\* is about to fall back on the last snapshot.
LEMMA StartKeepsShown ==
    ASSUME ShownInv, SecondPasses
    PROVE  ProxyTyped' /\ StreamCurrent' /\ FetchedCurrent' /\ RequestsSettled' /\ JoinedCurrent'
<1> USE DEF ShownInv
<1>1. /\ topology' = topology /\ lastSnapshot' = lastSnapshot /\ listeners' = listeners
      /\ request' = request /\ fetched' = fetched /\ shown' = shown /\ overtaken' = overtaken
      /\ \A b \in Browser : request[b] # "failed"
  BY DEF SecondPasses, Settled, browserVars
<1>2. CASE watching' = watching
  BY <1>1, <1>2 DEF ProxyTyped, StreamCurrent, FetchedCurrent, RequestsSettled, JoinedCurrent
<1>3. CASE watching' # watching
  <2>1. watching' = [c \in DOMAIN watching \cup {opened'} |->
                        IF c = opened' THEN <<topology>> ELSE watching[c]]
    BY <1>3 DEF SecondPasses, StartWatch
  <2>2. \A c \in DOMAIN watching' :
           watching'[c] = <<topology>> \/ (c \in DOMAIN watching /\ watching'[c] = watching[c])
    BY <2>1
  <2>3. ProxyTyped'
    BY <1>1, <2>1, <2>2, SnapshotMentionsAll DEF ProxyTyped
  <2>4. /\ topology \in Picture
        /\ \A p \in Part : LastIs(<<topology>>, p, topology[p]) /\ ~Unmentioned(<<topology>>, p)
    BY SnapshotMentionsAll DEF ProxyTyped
  <2>5. StreamCurrent'
    BY <1>1, <2>2, <2>4 DEF StreamCurrent
  <2>6. FetchedCurrent' /\ RequestsSettled' /\ JoinedCurrent'
    BY <1>1, <2>2, <2>4 DEF FetchedCurrent, RequestsSettled, JoinedCurrent
  <2> QED
    BY <2>3, <2>5, <2>6
<1> QED
  BY <1>2, <1>3

\* Requests: what a browser that comes, is answered or leaves changes.
LEMMA RequestKeepsShown ==
    ASSUME ShownInv, NEW b \in Browser,
           HandleSse(b) \/ Join(b) \/ CallFails(b) \/ BrowserLeaves(b)
    PROVE  ProxyTyped' /\ StreamCurrent' /\ FetchedCurrent' /\ RequestsSettled' /\ JoinedCurrent'
<1> USE DEF ShownInv
<1>1. topology' = topology /\ watching' = watching
  BY DEF HandleSse, Join, GetTopology, SnapshotFetched, SnapshotMissed, CallFails,
         BrowserLeaves, watchVars
<1>2. StreamCurrent'
  BY <1>1 DEF StreamCurrent
<1>3. CASE HandleSse(b)
  <2>1. /\ request[b] = "new" /\ fetched[b] = Nothing
        /\ request' = [request EXCEPT ![b] = "fetching"]
        /\ listeners' = listeners \cup {b} /\ fetched' = fetched /\ shown' = shown
        /\ overtaken' = overtaken /\ lastSnapshot' = lastSnapshot
    BY <1>3 DEF HandleSse, RequestsSettled
  <2>2. /\ request'[b] = "fetching" /\ request' = [x \in Browser |-> request'[x]]
        /\ \A x \in Browser \ {b} : request'[x] = request[x]
    BY <2>1 DEF ProxyTyped
  <2>3. ProxyTyped'
    BY <1>1, <2>1, <2>2 DEF ProxyTyped
  <2>4. FetchedCurrent' /\ RequestsSettled' /\ JoinedCurrent'
    BY <1>1, <2>1, <2>2 DEF FetchedCurrent, RequestsSettled, JoinedCurrent
  <2> QED
    BY <1>2, <2>3, <2>4
<1>4. CASE GetTopology(b)
  <2>1. /\ request[b] = "fetching"
        /\ request' = request /\ listeners' = listeners /\ shown' = shown
        /\ overtaken' = overtaken /\ lastSnapshot' = lastSnapshot
        /\ fetched' = [fetched EXCEPT ![b] = topology]
    BY <1>4 DEF GetTopology
  <2>2. fetched'[b] = topology /\ \A x \in Browser \ {b} : fetched'[x] = fetched[x]
    BY <2>1 DEF ProxyTyped
  <2>3. ProxyTyped'
    BY <1>1, <2>1 DEF ProxyTyped
  <2>4. \A p \in Part : topology[p] <= topology[p]
    BY DEF ProxyTyped, Picture
  <2>5. FetchedCurrent'
    BY <1>1, <2>1, <2>2, <2>4 DEF FetchedCurrent
  <2>6. RequestsSettled' /\ JoinedCurrent'
    BY <1>1, <2>1, <2>2 DEF RequestsSettled, JoinedCurrent
  <2> QED
    BY <1>2, <2>3, <2>5, <2>6
<1>5. CASE SnapshotFetched(b)
  <2>1. /\ request[b] \in {"fetching", "left"} /\ fetched[b] # Nothing
        /\ lastSnapshot' = fetched[b] /\ listeners' = listeners
        /\ overtaken' = [overtaken EXCEPT ![b] = {p \in Part : shown[b][p] > fetched[b][p]}]
        /\ shown' = [shown EXCEPT ![b] = fetched[b]]
        /\ fetched' = [fetched EXCEPT ![b] = Nothing]
        /\ request' = [request EXCEPT ![b] = IF @ = "fetching" THEN "joined" ELSE @]
    BY <1>5 DEF SnapshotFetched
  <2>2. /\ shown'[b] = fetched[b] /\ fetched'[b] = Nothing
        /\ overtaken'[b] = {p \in Part : shown[b][p] > fetched[b][p]}
        /\ request'[b] = IF request[b] = "fetching" THEN "joined" ELSE request[b]
        /\ \A x \in Browser \ {b} :
              /\ shown'[x] = shown[x] /\ fetched'[x] = fetched[x]
              /\ overtaken'[x] = overtaken[x] /\ request'[x] = request[x]
    BY <2>1 DEF ProxyTyped
  <2>3. fetched[b] \in Picture /\ shown[b] \in Picture
    BY <2>1 DEF ProxyTyped
  <2>4. ProxyTyped'
    BY <1>1, <2>1, <2>3 DEF ProxyTyped
  <2>5. FetchedCurrent' /\ RequestsSettled'
    BY <1>1, <2>1, <2>2 DEF FetchedCurrent, RequestsSettled
  <2>6. ASSUME NEW c \in DOMAIN watching, NEW p \in Part, b \in listeners,
               request'[b] = "joined", p \notin overtaken'[b], Unmentioned(watching[c], p)
        PROVE  fetched[b][p] = topology[p]
    <3>1. request[b] = "fetching"
      BY <2>1, <2>2, <2>6
    <3>2. fetched[b][p] = topology[p] \/ shown[b][p] = topology[p]
      BY <2>1, <2>6, <3>1 DEF FetchedCurrent
    <3>3. ~(shown[b][p] > fetched[b][p]) /\ fetched[b][p] <= topology[p]
      BY <2>1, <2>2, <2>6 DEF FetchedCurrent
    <3>4. fetched[b][p] \in Nat /\ shown[b][p] \in Nat /\ topology[p] \in Nat
      BY <2>3 DEF ProxyTyped, Picture
    <3> QED
      BY <3>2, <3>3, <3>4
  <2>7. JoinedCurrent'
    <3>1. ASSUME NEW x \in Browser, NEW c \in DOMAIN watching, NEW p \in Part,
                 x \in listeners, request'[x] = "joined", p \notin overtaken'[x],
                 Unmentioned(watching[c], p)
          PROVE  shown'[x][p] = topology[p]
      BY <2>2, <2>6, <3>1 DEF JoinedCurrent
    <3> QED
      BY <1>1, <2>1, <3>1 DEF JoinedCurrent
  <2> QED
    BY <1>2, <2>4, <2>5, <2>7
<1>6. CASE SnapshotMissed(b)
  <2>1. /\ DOMAIN watching = {}
        /\ fetched' = fetched /\ lastSnapshot' = lastSnapshot /\ overtaken' = overtaken
        /\ shown' = [shown EXCEPT ![b] = IF lastSnapshot = Nothing THEN @ ELSE lastSnapshot]
        /\ request' = [request EXCEPT ![b] = "joined"]
    BY <1>6 DEF SnapshotMissed, RequestsSettled
  <2>2. /\ request'[b] = "joined" /\ request' = [x \in Browser |-> request'[x]]
        /\ \A x \in Browser \ {b} : request'[x] = request[x]
    BY <2>1 DEF ProxyTyped
  <2>3. shown' \in [Browser -> Picture]
    BY <2>1 DEF ProxyTyped
  <2>4. ProxyTyped'
    BY <1>1, <2>1, <2>2, <2>3 DEF ProxyTyped
  <2>5. FetchedCurrent' /\ RequestsSettled' /\ JoinedCurrent'
    BY <1>1, <2>1, <2>2 DEF FetchedCurrent, RequestsSettled, JoinedCurrent
  <2> QED
    BY <1>2, <2>4, <2>5
<1>7. CASE CallFails(b)
  <2>1. /\ DOMAIN watching = {} /\ lastSnapshot' = lastSnapshot
        /\ listeners' = listeners /\ fetched' = fetched /\ shown' = shown
        /\ overtaken' = overtaken /\ request' = [request EXCEPT ![b] = "failed"]
    BY <1>7 DEF CallFails
  <2>2. /\ request'[b] = "failed" /\ request' = [x \in Browser |-> request'[x]]
        /\ \A x \in Browser \ {b} : request'[x] = request[x]
    BY <2>1 DEF ProxyTyped
  <2>3. ProxyTyped'
    BY <1>1, <2>1, <2>2 DEF ProxyTyped
  <2>4. FetchedCurrent' /\ RequestsSettled' /\ JoinedCurrent'
    BY <1>1, <2>1, <2>2 DEF FetchedCurrent, RequestsSettled, JoinedCurrent
  <2> QED
    BY <1>2, <2>3, <2>4
<1>8. CASE BrowserLeaves(b)
  <2>1. /\ listeners' \subseteq listeners /\ fetched' = fetched /\ shown' = shown
        /\ overtaken' = overtaken /\ lastSnapshot' = lastSnapshot
        /\ request' = [request EXCEPT ![b] = "left"]
    BY <1>8 DEF BrowserLeaves
  <2>2. /\ request'[b] = "left" /\ request' = [x \in Browser |-> request'[x]]
        /\ \A x \in Browser \ {b} : request'[x] = request[x]
    BY <2>1 DEF ProxyTyped
  <2>3. ProxyTyped'
    BY <1>1, <2>1, <2>2 DEF ProxyTyped
  <2>4. FetchedCurrent' /\ RequestsSettled' /\ JoinedCurrent'
    BY <1>1, <2>1, <2>2 DEF FetchedCurrent, RequestsSettled, JoinedCurrent
  <2> QED
    BY <1>2, <2>3, <2>4
<1> QED
  BY <1>3, <1>4, <1>5, <1>6, <1>7, <1>8 DEF Join

LEMMA StepShown == ShownInv /\ [Next]_vars => ShownInv'
<1> SUFFICES ASSUME ShownInv, [Next]_vars
             PROVE  /\ ProxyTyped' /\ StreamCurrent' /\ FetchedCurrent'
                    /\ RequestsSettled' /\ JoinedCurrent'
  BY StepWatch DEF ShownInv
<1> USE DEF ShownInv
<1>1. ASSUME NEW c \in DOMAIN watching, StreamData(c)
      PROVE  /\ ProxyTyped' /\ StreamCurrent' /\ FetchedCurrent'
             /\ RequestsSettled' /\ JoinedCurrent'
  BY <1>1, DataKeepsShown
<1>2. ASSUME NEW c \in Call, NEW e \in {"error", "end"}, StreamEvent(c, e)
      PROVE  /\ ProxyTyped' /\ StreamCurrent' /\ FetchedCurrent'
             /\ RequestsSettled' /\ JoinedCurrent'
  <2>1. /\ topology' = topology /\ watching' = watching /\ lastSnapshot' = lastSnapshot
        /\ UNCHANGED browserVars
    BY <1>2 DEF StreamEvent
  <2> QED
    BY <2>1 DEF browserVars, ProxyTyped, StreamCurrent, FetchedCurrent, RequestsSettled,
                JoinedCurrent
<1>3. CASE SecondPasses
  BY <1>3, StartKeepsShown
<1>4. ASSUME NEW b \in Browser,
             HandleSse(b) \/ Join(b) \/ CallFails(b) \/ BrowserLeaves(b)
      PROVE  /\ ProxyTyped' /\ StreamCurrent' /\ FetchedCurrent'
             /\ RequestsSettled' /\ JoinedCurrent'
  BY <1>4, RequestKeepsShown
<1>5. ASSUME NEW p \in Part, Change(p)
      PROVE  /\ ProxyTyped' /\ StreamCurrent' /\ FetchedCurrent'
             /\ RequestsSettled' /\ JoinedCurrent'
  BY <1>5, ChangeKeepsShown
<1>6. CASE ConnectionLost
  <2>1. /\ DOMAIN watching' = {} /\ watching' = [c \in {} |-> <<>>]
        /\ topology' = topology /\ lastSnapshot' = lastSnapshot
        /\ shown' = shown /\ overtaken' = overtaken
        /\ fetched' = [b \in Browser |-> Nothing]
        /\ request' = [b \in Browser |-> IF request[b] = "fetching" THEN "failed"
                                         ELSE request[b]]
    BY <1>6 DEF ConnectionLost
  <2>2. ProxyTyped'
    BY <2>1 DEF ProxyTyped
  <2> QED
    BY <2>1, <2>2 DEF StreamCurrent, FetchedCurrent, RequestsSettled, JoinedCurrent
<1>7. CASE Stop
  <2>1. /\ DOMAIN watching' = {} /\ watching' = [c \in DOMAIN watching' |-> watching'[c]]
        /\ topology' = topology /\ lastSnapshot' = lastSnapshot
        /\ shown' = shown /\ overtaken' = overtaken /\ fetched' = fetched
        /\ request' = [b \in Browser |-> IF b \in listeners THEN "left" ELSE request[b]]
    BY <1>7 DEF Stop, WatchInv, OneWatch
  <2>2. ProxyTyped'
    BY <2>1 DEF ProxyTyped
  <2> QED
    BY <2>1, <2>2 DEF StreamCurrent, FetchedCurrent, RequestsSettled, JoinedCurrent
<1>8. CASE UNCHANGED vars
  BY <1>8 DEF vars, ProxyTyped, StreamCurrent, FetchedCurrent, RequestsSettled, JoinedCurrent
<1> QED
  BY <1>1, <1>2, <1>3, <1>4, <1>5, <1>6, <1>7, <1>8 DEF Next, Deliver, Handle

\* A browser that has joined, however its snapshot and the updates crossed,
\* will show the service's state of every part that no update overtook.
THEOREM PicturesExact == Spec => []PictureExact
<1>1. ShownInv => PictureExact
  <2> SUFFICES ASSUME ShownInv, NEW b \in Browser, NEW c \in DOMAIN watching, NEW p \in Part,
                      b \in listeners, request[b] = "joined", p \notin overtaken[b]
               PROVE  WillShow(b, c, p) = topology[p]
    BY DEF PictureExact
  <2>1. watching[c] \in Seq(Update)
    BY DEF ShownInv, ProxyTyped
  <2>2. CASE Unmentioned(watching[c], p)
    BY <2>1, <2>2, WillShowLast DEF ShownInv, JoinedCurrent
  <2>3. CASE LastIs(watching[c], p, topology[p])
    BY <2>1, <2>3, WillShowLast
  <2> QED
    BY <2>2, <2>3 DEF ShownInv, StreamCurrent
<1> QED
  BY InitShown, StepShown, <1>1, PTL DEF Spec
=============================================================================
