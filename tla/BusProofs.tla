------------------------------- MODULE BusProofs -------------------------------
(***************************************************************************)
(* Proofs about ControlPlane and Plugins, for every value of their         *)
(* constants: what the process does with its channels, and what the module *)
(* runtime does with its subscriptions.                                    *)
(***************************************************************************)
EXTENDS Bus, Lemmas

\* What a notifier can be: NewManager takes its channels from the list in
\* order, so that it is some place of that list.
Channels == {InOrder(config.channels)[k] : k \in Nat}

Built == notifiers \in Seq(Channels)

\* Every step keeps the notifiers among the channels of the configuration.
LEMMA BuiltStep ==
  ASSUME Built, [Next]_vars
  PROVE  Built'
<1>1. CASE AddNotifier
  <2> DEFINE c == InOrder(config.channels)[Len(notifiers) + 1]
  <2>1. /\ config' = config
        /\ notifiers' = Append(notifiers, c) \/ notifiers' = notifiers
    BY <1>1 DEF AddNotifier
  <2>2. notifiers \in Seq(Channels) /\ Len(notifiers) + 1 \in Nat
    BY DEF Built
  <2>3. c \in Channels
    BY <2>2 DEF Channels
  <2> HIDE DEF c
  <2>4. Channels' = Channels
    BY <2>1 DEF Channels
  <2> QED
    BY <2>1, <2>2, <2>3, <2>4 DEF Built
<1>2. ASSUME UNCHANGED <<config, notifiers>> PROVE Built'
  BY <1>2 DEF Built, Channels
<1>3. CASE Start \/ Shutdown \/ StopFlusher \/ FinalFlush \/ Return \/ Signal \/ ServerFails
  BY <1>2, <1>3 DEF Start, Shutdown, StopFlusher, FinalFlush, Return, Signal, ServerFails
<1>4. CASE Ingest \/ AutoFlush \/ UNCHANGED vars
  BY <1>2, <1>4 DEF Ingest, AutoFlush, vars, process
<1>5. CASE TakeObservation \/ Handle \/ TakeFinding \/ EndNotify \/ EndLoop
  BY <1>2, <1>5 DEF TakeObservation, Handle, TakeFinding, EndNotify, EndLoop, process
<1>6. CASE SendWithTimeout \/ SendMail
  BY <1>2, <1>6 DEF SendWithTimeout, SendMail, SendNext, process
<1> QED
  BY <1>1, <1>3, <1>4, <1>5, <1>6 DEF Next, Main, Dispatcher

-----------------------------------------------------------------------------
-----------------------------------------------------------------------------
(***************************************************************************)
(* What Among selects, by induction over the length of the sequence.       *)
(***************************************************************************)
\* The parts of Among: what it has selected from each prefix.
IsParts(f, s, S, k) ==
  f = [n \in 0 .. k |-> IF n = 0 THEN << >>
         ELSE IF s[n] \in S THEN Append(f[n - 1], s[n]) ELSE f[n - 1]]

\* There are such parts: the recursive definition of Among is sound.
LEMMA PartsExist ==
  ASSUME NEW s, NEW S, NEW k \in Nat
  PROVE  \E f : IsParts(f, s, S, k)
<1> DEFINE Good == {n \in Nat : \E f : IsParts(f, s, S, n)}
<1>1. 0 \in Good
  <2> DEFINE f == [n \in 0 .. 0 |-> << >>]
  <2>1. IsParts(f, s, S, 0)
    BY DEF IsParts
  <2> QED
    BY <2>1
<1>2. \A n \in Nat : n \in Good => n + 1 \in Good
  <2> SUFFICES ASSUME NEW n \in Nat, n \in Good PROVE n + 1 \in Good
    OBVIOUS
  <2>1. PICK f : IsParts(f, s, S, n)
    OBVIOUS
  <2> DEFINE g == [i \in 0 .. n + 1 |-> IF i <= n THEN f[i]
                     ELSE IF s[i] \in S THEN Append(f[i - 1], s[i]) ELSE f[i - 1]]
             h == [i \in 0 .. n + 1 |-> IF i = 0 THEN << >>
                     ELSE IF s[i] \in S THEN Append(g[i - 1], s[i]) ELSE g[i - 1]]
  <2>2. \A i \in 0 .. n + 1 : g[i] = h[i]
    <3> SUFFICES ASSUME NEW i \in 0 .. n + 1 PROVE g[i] = h[i]
      OBVIOUS
    <3>1. CASE i = 0
      BY <2>1, <3>1 DEF IsParts
    <3>2. CASE i # 0
      <4>1. i - 1 \in 0 .. n + 1 /\ i - 1 <= n /\ i - 1 \in 0 .. n
        BY <3>2
      <4>2. g[i - 1] = f[i - 1]
        BY <4>1
      <4>3. CASE i <= n
        <5>1. i \in 0 .. n
          BY <4>3
        <5>2. f[i] = IF s[i] \in S THEN Append(f[i - 1], s[i]) ELSE f[i - 1]
          BY <2>1, <3>2, <5>1 DEF IsParts
        <5> QED
          BY <3>2, <4>2, <4>3, <5>2
      <4> QED
        BY <3>2, <4>2, <4>3
    <3> QED
      BY <3>1, <3>2
  <2>3. g = h
    BY <2>2
  <2>4. IsParts(g, s, S, n + 1)
    BY <2>3 DEF IsParts
  <2> QED
    BY <2>4
<1>3. Nat \subseteq Good
  <2> HIDE DEF Good
  <2> QED
    BY <1>1, <1>2, NatSetInduction
<1> QED
  BY <1>3

\* Among is the last of its parts.
LEMMA AmongParts ==
  ASSUME NEW s, NEW S, NEW k \in Nat, Len(s) = k
  PROVE  \E f : IsParts(f, s, S, k) /\ Among(s, S) = f[k]
<1> DEFINE f == CHOOSE g : IsParts(g, s, S, k)
<1>1. IsParts(f, s, S, k)
  BY PartsExist
<1>2. Among(s, S) = f[k]
  BY DEF Among, IsParts
<1> QED
  BY <1>1, <1>2

\* What Among has selected from a prefix depends on that prefix only.
LEMMA PartsAgree ==
  ASSUME NEW s, NEW t, NEW S, NEW m \in Nat, NEW k \in Nat, m <= k,
         NEW f, IsParts(f, s, S, m), NEW g, IsParts(g, t, S, k),
         \A n \in 1 .. m : s[n] = t[n]
  PROVE  f[m] = g[m]
<1> DEFINE Good == {n \in Nat : n <= m => f[n] = g[n]}
<1>1. 0 \in Good
  BY DEF IsParts
<1>2. \A n \in Nat : n \in Good => n + 1 \in Good
  <2> SUFFICES ASSUME NEW n \in Nat, f[n] = g[n], n + 1 <= m PROVE f[n + 1] = g[n + 1]
    OBVIOUS
  <2>1. n + 1 \in 0 .. m /\ n + 1 \in 0 .. k /\ n + 1 \in 1 .. m /\ n + 1 # 0 /\ (n + 1) - 1 = n
    OBVIOUS
  <2>2. f[n + 1] = IF s[n + 1] \in S THEN Append(f[n], s[n + 1]) ELSE f[n]
    BY <2>1 DEF IsParts
  <2>3. g[n + 1] = IF t[n + 1] \in S THEN Append(g[n], t[n + 1]) ELSE g[n]
    BY <2>1 DEF IsParts
  <2> QED
    BY <2>1, <2>2, <2>3
<1>3. Nat \subseteq Good
  <2> HIDE DEF Good
  <2> QED
    BY <1>1, <1>2, NatSetInduction
<1> QED
  BY <1>3

\* What is selected is a sequence of the set.
LEMMA PartsType ==
  ASSUME NEW s, NEW S, NEW k \in Nat, NEW f, IsParts(f, s, S, k), NEW m \in 0 .. k
  PROVE  f[m] \in Seq(S)
<1> DEFINE Good == {n \in Nat : n <= k => f[n] \in Seq(S)}
<1>1. 0 \in Good
  BY DEF IsParts
<1>2. \A n \in Nat : n \in Good => n + 1 \in Good
  <2> SUFFICES ASSUME NEW n \in Nat, f[n] \in Seq(S), n + 1 <= k PROVE f[n + 1] \in Seq(S)
    OBVIOUS
  <2>1. n + 1 \in 0 .. k /\ n + 1 # 0 /\ (n + 1) - 1 = n
    OBVIOUS
  <2>2. f[n + 1] = IF s[n + 1] \in S THEN Append(f[n], s[n + 1]) ELSE f[n]
    BY <2>1 DEF IsParts
  <2> QED
    BY <2>2
<1>3. Nat \subseteq Good
  <2> HIDE DEF Good
  <2> QED
    BY <1>1, <1>2, NatSetInduction
<1> QED
  BY <1>3

\* Among of a sequence is a sequence of the set.
LEMMA AmongType ==
  ASSUME NEW s, NEW S, Len(s) \in Nat
  PROVE  Among(s, S) \in Seq(S)
<1>1. PICK f : IsParts(f, s, S, Len(s)) /\ Among(s, S) = f[Len(s)]
  BY AmongParts
<1>2. Len(s) \in 0 .. Len(s)
  OBVIOUS
<1> QED
  BY <1>1, <1>2, PartsType

\* Nothing is selected from nothing.
LEMMA AmongEmpty ==
  ASSUME NEW S
  PROVE  Among(<< >>, S) = << >>
<1>1. Len(<< >>) = 0
  OBVIOUS
<1>2. PICK f : IsParts(f, << >>, S, 0) /\ Among(<< >>, S) = f[0]
  BY <1>1, AmongParts
<1> QED
  BY <1>2 DEF IsParts

\* One more element at the end is one more selected, or none.
LEMMA AmongAppend ==
  ASSUME NEW D, NEW s \in Seq(D), NEW e \in D, NEW S
  PROVE  Among(Append(s, e), S) = IF e \in S THEN Append(Among(s, S), e) ELSE Among(s, S)
<1> DEFINE t == Append(s, e)
           k == Len(s)
           m == Len(t)
<1>1. k \in Nat /\ m \in Nat /\ m = k + 1 /\ t[m] = e /\ \A n \in 1 .. k : t[n] = s[n]
  OBVIOUS
<1> HIDE DEF t, k, m
<1>2. PICK f : IsParts(f, s, S, k) /\ Among(s, S) = f[k]
  BY <1>1, AmongParts DEF k
<1>3. PICK g : IsParts(g, t, S, m) /\ Among(t, S) = g[m]
  BY <1>1, AmongParts DEF m
<1>4. f[k] = g[k]
  <2>1. k \in Nat /\ m \in Nat /\ k <= m /\ \A n \in 1 .. k : s[n] = t[n]
    BY <1>1
  <2> QED
    BY <1>2, <1>3, <2>1, PartsAgree
<1>5. m \in 0 .. m /\ m # 0 /\ m - 1 = k
  BY <1>1
<1>6. g[m] = IF e \in S THEN Append(g[k], e) ELSE g[k]
  BY <1>1, <1>3, <1>5 DEF IsParts
<1>7. Among(t, S) = IF e \in S THEN Append(Among(s, S), e) ELSE Among(s, S)
  BY <1>2, <1>3, <1>4, <1>6
<1> QED
  BY <1>7 DEF t

\* The first element is the first that is selected, or is passed over.
LEMMA AmongHead ==
  ASSUME NEW D, NEW s \in Seq(D), s # << >>, NEW S
  PROVE  Among(s, S) = IF Head(s) \in S THEN <<Head(s)>> \o Among(Tail(s), S)
                                        ELSE Among(Tail(s), S)
<1> DEFINE t == Tail(s)
           k == Len(t)
           m == Len(s)
           pre == IF Head(s) \in S THEN <<Head(s)>> ELSE << >>
<1>1. /\ k \in Nat /\ m \in Nat /\ m = k + 1 /\ t \in Seq(D)
      /\ \A n \in 1 .. k : s[n + 1] = t[n]
      /\ Head(s) = s[1]
  OBVIOUS
<1>2. pre \in Seq(S) /\ pre \o << >> = pre
      /\ pre = IF s[1] \in S THEN Append(<< >>, s[1]) ELSE << >>
  OBVIOUS
<1> HIDE DEF t, k, m, pre
<1>3. PICK f : IsParts(f, s, S, m) /\ Among(s, S) = f[m]
  BY <1>1, AmongParts DEF m
<1>4. PICK g : IsParts(g, t, S, k) /\ Among(t, S) = g[k]
  BY <1>1, AmongParts DEF k
<1> DEFINE Good == {n \in Nat : n <= k => f[n + 1] = pre \o g[n]}
<1>5. 0 \in Good
  <2>1. 1 \in 0 .. m /\ 0 \in 0 .. m /\ 1 # 0 /\ 1 - 1 = 0 /\ 0 + 1 = 1
    BY <1>1
  <2>2. f[0] = << >>
    BY <1>3, <2>1 DEF IsParts
  <2>3. f[1] = IF s[1] \in S THEN Append(f[0], s[1]) ELSE f[0]
    BY <1>3, <2>1 DEF IsParts
  <2>4. f[1] = pre
    BY <1>2, <2>2, <2>3
  <2>5. g[0] = << >>
    BY <1>1, <1>4 DEF IsParts
  <2> QED
    BY <1>2, <2>1, <2>4, <2>5
<1>6. ASSUME NEW n \in Nat, n \in Good
      PROVE  n + 1 \in Good
  <2> SUFFICES ASSUME n + 1 <= k PROVE f[n + 1 + 1] = pre \o g[n + 1]
    OBVIOUS
  <2>1. /\ n + 1 + 1 \in 0 .. m /\ n + 1 \in 0 .. k /\ n + 1 # 0 /\ (n + 1) - 1 = n
        /\ n + 1 + 1 # 0 /\ (n + 1 + 1) - 1 = n + 1 /\ n \in 0 .. k /\ n <= k
    BY <1>1
  <2>2. f[n + 1] = pre \o g[n]
    BY <1>6, <2>1
  <2> HIDE DEF Good
  <2>3. f[n + 1 + 1] = IF t[n + 1] \in S THEN Append(f[n + 1], t[n + 1]) ELSE f[n + 1]
    <3> DEFINE j == n + 1 + 1
    <3>1. j \in 0 .. m /\ j # 0 /\ j - 1 = n + 1 /\ s[j] = t[n + 1]
      BY <1>1, <2>1
    <3> HIDE DEF j
    <3>2. f[j] = IF s[j] \in S THEN Append(f[j - 1], s[j]) ELSE f[j - 1]
      BY <1>3, <3>1 DEF IsParts
    <3> QED
      BY <3>1, <3>2 DEF j
  <2>4. g[n + 1] = IF t[n + 1] \in S THEN Append(g[n], t[n + 1]) ELSE g[n]
    BY <1>4, <2>1 DEF IsParts
  <2>5. g[n] \in Seq(S)
    BY <1>1, <1>4, <2>1, PartsType
  <2>6. ASSUME t[n + 1] \in S
        PROVE  Append(pre \o g[n], t[n + 1]) = pre \o Append(g[n], t[n + 1])
    <3>1. pre \in Seq(S) /\ g[n] \in Seq(S) /\ t[n + 1] \in S
      BY <1>2, <2>5, <2>6
    <3> DEFINE p == pre
               q == g[n]
               e == t[n + 1]
    <3> HIDE DEF p, q, e
    <3>2. p \in Seq(S) /\ q \in Seq(S) /\ e \in S
      BY <3>1 DEF p, q, e
    <3>3. Append(p \o q, e) = p \o Append(q, e)
      BY ONLY <3>2, SMTT(30)
    <3> QED
      BY <3>3 DEF p, q, e
  <2> QED
    BY <2>2, <2>3, <2>4, <2>6
<1>7. Nat \subseteq Good
  <2> HIDE DEF Good
  <2> QED
    BY <1>5, <1>6, NatSetInduction
<1>8. Among(s, S) = pre \o Among(t, S)
  <2>1. f[m] = pre \o g[k]
    BY <1>1, <1>7
  <2> QED
    BY <1>3, <1>4, <2>1
<1>9. Among(t, S) \in Seq(S) /\ << >> \o Among(t, S) = Among(t, S)
  <2>1. Among(t, S) \in Seq(S)
    BY <1>1, AmongType DEF k
  <2> QED
    BY <2>1
<1> QED
  BY <1>8, <1>9 DEF t, pre

-----------------------------------------------------------------------------
(***************************************************************************)
(* The fan-out.                                                            *)
(***************************************************************************)
Event == Finding \cup {[type |-> "observation"]}

\* The findings that Notify announces under the configuration.
ToAll == {f \in Finding : Announced(f)}

Places == [pc : {"off", "select", "module", "notify", "done"}, at : Nat]

\* The types behind EveryChannelIsGivenAll, and what the fan-out has in hand:
\* before the start nothing has been taken, and what is handed to the notifiers
\* is the finding taken last, which is one to be announced.
FanOut ==
  /\ queue \in Seq(Event) /\ taken \in Seq(Finding) /\ accepted \in Seq(Finding)
  /\ loop \in Places
  /\ notifiers \in Seq(Channels)
  /\ DOMAIN tried = DOMAIN notifiers
  /\ main = "init" => loop.pc = "off" /\ taken = << >>
  /\ loop.pc = "notify" => taken # << >> /\ Last(taken) \in ToAll

\* The invariant behind EveryChannelIsGivenAll.
Given == FanOut /\ EveryChannelIsGivenAll

\* A step that leaves the channels and what they were given alone, outside a
\* fan-out.
LEMMA FanFrame ==
  ASSUME Given, UNCHANGED <<config, notifiers, taken, tried>>,
         queue' \in Seq(Event), accepted' \in Seq(Finding),
         accepted' = taken \o Among(queue', Finding),
         loop' = loop \/ (loop.pc # "notify" /\ loop' \in Places /\ loop'.pc # "notify"),
         main' = "init" => main = "init" /\ loop' = loop
  PROVE  Given'
<1>1. FanOut'
  BY DEF Given, FanOut, Channels, ToAll, Announced, Last
<1>2. \A n \in DOMAIN notifiers : Due(n)' = Due(n)
  BY DEF Due, Announced
<1>3. EveryChannelIsGivenAll'
  BY <1>2 DEF Given, EveryChannelIsGivenAll
<1> QED
  BY <1>1, <1>3 DEF Given

\* A step that leaves the queue alone as well.
LEMMA FanRest ==
  ASSUME Given, UNCHANGED <<config, notifiers, taken, tried, queue, accepted>>,
         loop' = loop \/ (loop.pc # "notify" /\ loop' \in Places /\ loop'.pc # "notify"),
         main' = "init" => main = "init" /\ loop' = loop
  PROVE  Given'
<1>1. /\ queue' \in Seq(Event) /\ accepted' \in Seq(Finding)
      /\ accepted' = taken \o Among(queue', Finding)
  BY DEF Given, FanOut, EveryChannelIsGivenAll
<1> QED
  BY <1>1, FanFrame

\* While channels are added there is nothing to be given.
LEMMA FanAdd ==
  ASSUME Given, AddNotifier, notifiers' \in Seq(Channels')
  PROVE  Given'
<1>1. /\ UNCHANGED <<config, queue, accepted, taken, loop>> /\ main = "init"
      /\ tried' = [n \in DOMAIN notifiers' |-> << >>]
  BY DEF AddNotifier
<1>2. loop.pc = "off" /\ taken = << >>
  BY <1>1 DEF Given, FanOut
<1>3. FanOut'
  BY <1>1, <1>2 DEF Given, FanOut
<1>4. \A n : Due(n)' = << >>
  <2>1. Among(taken', {f \in Finding : Announced(f)'}) = << >>
    BY <1>1, <1>2, AmongEmpty
  <2> QED
    BY <1>1, <1>2, <2>1 DEF Due
<1>5. EveryChannelIsGivenAll'
  BY <1>1, <1>4 DEF Given, EveryChannelIsGivenAll
<1> QED
  BY <1>3, <1>5 DEF Given

\* An observation that comes in is no finding.
LEMMA FanIngest ==
  ASSUME Given, Ingest
  PROVE  Given'
<1> DEFINE o == [type |-> "observation"]
<1>1. /\ UNCHANGED <<config, notifiers, taken, tried, accepted, loop, main>>
      /\ queue' = Append(queue, o) \/ queue' = queue
  BY DEF Ingest, process
<1>2. o \in Event /\ o \notin Finding
  BY DEF Event, Finding
<1> HIDE DEF o
<1>3. queue \in Seq(Event)
  BY DEF Given, FanOut
<1>4. queue' \in Seq(Event) /\ Among(queue', Finding) = Among(queue, Finding)
  <2>1. CASE queue' = queue
    BY <1>3, <2>1
  <2>2. CASE queue' = Append(queue, o)
    BY <1>2, <1>3, <2>2, AmongAppend
  <2> QED
    BY <1>1, <2>1, <2>2
<1> QED
  BY <1>1, <1>4, FanFrame DEF Given, FanOut, EveryChannelIsGivenAll

\* Nor is one that is taken from the queue.
LEMMA FanTakeObservation ==
  ASSUME Given, TakeObservation
  PROVE  Given'
<1>1. /\ UNCHANGED <<config, notifiers, taken, tried, accepted, main>>
      /\ loop.pc = "select" /\ loop' = [loop EXCEPT !.pc = "module"]
      /\ queue # << >> /\ Head(queue).type = "observation" /\ queue' = Tail(queue)
  BY DEF TakeObservation, process
<1>2. queue \in Seq(Event) /\ loop \in Places
  BY DEF Given, FanOut
<1>3. Head(queue) \notin Finding /\ queue' \in Seq(Event)
  BY <1>1, <1>2 DEF Finding
<1>4. Among(queue', Finding) = Among(queue, Finding)
  BY <1>1, <1>2, <1>3, AmongHead
<1>5. loop' \in Places /\ loop'.pc = "module"
  BY <1>1, <1>2 DEF Places
<1>6. main # "init"
  BY <1>1 DEF Given, FanOut
<1> QED
  BY <1>1, <1>3, <1>4, <1>5, <1>6, FanFrame DEF Given, FanOut, EveryChannelIsGivenAll

\* A finding that is published is accepted and waits at the end of the queue.
LEMMA FanHandle ==
  ASSUME Given, Handle
  PROVE  Given'
<1>1. /\ UNCHANGED <<config, notifiers, taken, tried, main>>
      /\ loop.pc = "module" /\ loop' = [loop EXCEPT !.pc = "select"]
      /\ \/ queue' = queue /\ accepted' = accepted
         \/ \E f \in Finding : queue' = Append(queue, f) /\ accepted' = Append(accepted, f)
  BY DEF Handle, PublishFinding, process
<1>2. /\ queue \in Seq(Event) /\ loop \in Places /\ taken \in Seq(Finding)
      /\ accepted \in Seq(Finding) /\ accepted = taken \o Among(queue, Finding)
  BY DEF Given, FanOut, EveryChannelIsGivenAll
<1>3. loop' \in Places /\ loop'.pc = "select"
  BY <1>1, <1>2 DEF Places
<1>4. main # "init"
  BY <1>1 DEF Given, FanOut
<1>5. CASE queue' = queue /\ accepted' = accepted
  BY <1>1, <1>2, <1>3, <1>4, <1>5, FanFrame
<1>6. CASE \E f \in Finding : queue' = Append(queue, f) /\ accepted' = Append(accepted, f)
  <2>1. PICK f \in Finding : queue' = Append(queue, f) /\ accepted' = Append(accepted, f)
    BY <1>6
  <2>2. f \in Event
    BY DEF Event
  <2>3. queue' \in Seq(Event) /\ accepted' \in Seq(Finding)
    BY <1>2, <2>1, <2>2
  <2> DEFINE pending == Among(queue, Finding)
  <2>4. Among(queue', Finding) = Append(pending, f)
    BY <1>2, <2>1, <2>2, AmongAppend
  <2>5. pending \in Seq(Finding)
    BY <1>2, AmongType
  <2> HIDE DEF pending
  <2>6. Append(taken \o pending, f) = taken \o Append(pending, f)
    <3>1. taken \in Seq(Finding) /\ pending \in Seq(Finding) /\ f \in Finding
      BY <1>2, <2>5
    <3> QED
      BY ONLY <3>1
  <2>7. accepted' = taken \o Among(queue', Finding)
    BY <1>2, <2>1, <2>4, <2>6 DEF pending
  <2> QED
    BY <1>1, <1>3, <1>4, <2>3, <2>7, FanFrame
<1> QED
  BY <1>1, <1>5, <1>6

\* A finding that is taken from the queue is the first that waited, and is not yet due
\* at any channel.
LEMMA FanTake ==
  ASSUME Given, TakeFinding
  PROVE  Given'
<1> DEFINE f == Head(queue)
           rest == Among(Tail(queue), Finding)
<1>1. /\ UNCHANGED <<config, notifiers, tried, accepted, main>>
      /\ loop.pc = "select" /\ queue # << >> /\ f.type = "finding"
      /\ queue' = Tail(queue) /\ taken' = Append(taken, f)
      /\ loop' = IF Announced(f) THEN [pc |-> "notify", at |-> 1] ELSE loop
  BY DEF TakeFinding, process
<1>2. /\ queue \in Seq(Event) /\ loop \in Places /\ taken \in Seq(Finding)
      /\ accepted \in Seq(Finding) /\ accepted = taken \o Among(queue, Finding)
  BY DEF Given, FanOut, EveryChannelIsGivenAll
<1>3. f \in Finding /\ queue' \in Seq(Event)
  <2>1. f \in Event /\ queue' \in Seq(Event)
    BY <1>1, <1>2
  <2> HIDE DEF f
  <2> QED
    BY <1>1, <2>1 DEF Event
<1>4. Among(queue, Finding) = <<f>> \o rest
  BY <1>1, <1>2, <1>3, AmongHead
<1>5. rest \in Seq(Finding)
  BY <1>1, <1>3, AmongType
<1> HIDE DEF f, rest
<1>6. taken \o (<<f>> \o rest) = Append(taken, f) \o rest
  <2>1. taken \in Seq(Finding) /\ rest \in Seq(Finding) /\ f \in Finding
    BY <1>2, <1>3, <1>5
  <2> QED
    BY ONLY <2>1, SMTT(30)
<1>7. accepted' = taken' \o Among(queue', Finding)
  BY <1>1, <1>2, <1>4, <1>6 DEF rest
<1>8. taken' \in Seq(Finding) /\ taken' # << >> /\ Last(taken') = f
  <2>1. taken' = Append(taken, f) /\ taken \in Seq(Finding) /\ f \in Finding
    BY <1>1, <1>2, <1>3
  <2> QED
    BY ONLY <2>1 DEF Last
<1>9. main # "init"
  BY <1>1 DEF Given, FanOut
<1>10. ToAll' = ToAll /\ Channels' = Channels
  BY <1>1 DEF ToAll, Announced, Channels
<1>11. loop' \in Places /\ (loop'.pc = "notify" => f \in ToAll)
  BY <1>1, <1>2, <1>3 DEF Places, ToAll
<1>12. FanOut'
  BY <1>1, <1>2, <1>3, <1>8, <1>9, <1>10, <1>11 DEF Given, FanOut
<1>13. \A n \in DOMAIN notifiers : Due(n)' = Due(n)
  <2> DEFINE announced == Among(taken, ToAll)
  <2>1. Among(taken', ToAll) = IF f \in ToAll THEN Append(announced, f) ELSE announced
    BY <1>1, <1>2, <1>3, AmongAppend
  <2>2. announced \in Seq(ToAll)
    BY <1>2, AmongType
  <2>3. \A n : Due(n) = announced
    BY <1>1 DEF Due, ToAll
  <2> HIDE DEF announced
  <2>4. CASE Announced(f)
    <3>1. f \in ToAll
      BY <1>3, <2>4 DEF ToAll
    <3>2. Front(Append(announced, f)) = announced
      BY <2>2, <3>1 DEF Front
    <3>3. \A n \in DOMAIN notifiers : n >= 1
      BY DEF Given, FanOut
    <3>4. loop'.pc = "notify" /\ loop'.at = 1
      BY <1>1, <2>4
    <3>5. Among(taken', ToAll') = Append(announced, f)
      BY <1>10, <2>1, <3>1
    <3>6. \A n \in DOMAIN notifiers : Due(n)' = Front(Append(announced, f))
      BY <3>3, <3>4, <3>5 DEF Due, ToAll
    <3> QED
      BY <2>3, <3>2, <3>6
  <2>5. CASE ~ Announced(f)
    <3>1. f \notin ToAll
      BY <2>5 DEF ToAll
    <3>2. loop'.pc = "select"
      BY <1>1, <2>5
    <3>3. Among(taken', ToAll') = announced
      BY <1>10, <2>1, <3>1
    <3>4. \A n : Due(n)' = announced
      BY <3>2, <3>3 DEF Due, ToAll
    <3> QED
      BY <2>3, <3>4
  <2> QED
    BY <2>4, <2>5
<1>14. EveryChannelIsGivenAll'
  BY <1>1, <1>7, <1>13 DEF Given, EveryChannelIsGivenAll
<1> QED
  BY <1>12, <1>14 DEF Given

\* A notifier that is given the finding has been given all that is announced.
LEMMA FanSend ==
  ASSUME Given, NEW mail, SendNext(mail)
  PROVE  Given'
<1> DEFINE k == loop.at
<1>1. /\ UNCHANGED <<config, notifiers, queue, accepted, taken, main>>
      /\ loop.pc = "notify" /\ k \in DOMAIN notifiers
      /\ loop' = [loop EXCEPT !.at = @ + 1]
      /\ tried' = [tried EXCEPT ![k] = Append(@, Last(taken))]
  BY DEF SendNext, Send, process
<1>2. /\ loop \in Places /\ taken \in Seq(Finding) /\ taken # << >> /\ Last(taken) \in ToAll
      /\ DOMAIN tried = DOMAIN notifiers
      /\ \A n \in DOMAIN notifiers : tried[n] = Due(n)
      /\ notifiers \in Seq(Channels)
  BY <1>1 DEF Given, FanOut, EveryChannelIsGivenAll
<1>3. loop' \in Places /\ loop'.pc = "notify" /\ loop'.at = k + 1 /\ k \in Nat
  BY <1>1, <1>2 DEF Places
<1>4. ToAll' = ToAll /\ Channels' = Channels
  BY <1>1 DEF ToAll, Announced, Channels
<1>5. DOMAIN tried' = DOMAIN notifiers' /\ tried'[k] = Append(tried[k], Last(taken))
      /\ \A n \in DOMAIN notifiers \ {k} : tried'[n] = tried[n]
  BY <1>1, <1>2
<1>6. Last(taken') = Last(taken)
  BY <1>1
<1>7. FanOut'
  BY <1>1, <1>2, <1>3, <1>4, <1>5, <1>6 DEF Given, FanOut
<1> DEFINE announced == Among(taken, ToAll)
<1>8. announced = Append(Front(announced), Last(taken))
  <2> DEFINE s == Front(taken)
             e == Last(taken)
  <2>1. s \in Seq(Finding) /\ e \in Finding /\ taken = Append(s, e)
    BY <1>2 DEF Front, Last
  <2> HIDE DEF s, e
  <2>2. announced = Append(Among(s, ToAll), e)
    BY <1>2, <2>1, AmongAppend DEF e
  <2>3. Among(s, ToAll) \in Seq(ToAll) /\ e \in ToAll
    <3>1. Len(s) \in Nat
      BY <2>1
    <3> QED
      BY <1>2, <3>1, AmongType DEF e
  <2> DEFINE t == Among(s, ToAll)
  <2>4. t \in Seq(ToAll)
    BY <2>3
  <2> HIDE DEF t
  <2>5. Front(Append(t, e)) = t
    BY <2>3, <2>4 DEF Front
  <2> QED
    BY <2>2, <2>5 DEF t, e
<1> HIDE DEF announced
<1>9. \A n : Due(n) = IF n >= k THEN Front(announced) ELSE announced
  BY <1>1 DEF Due, ToAll, announced
<1>10. announced' = announced
  BY <1>1, <1>4 DEF announced
<1>11. \A n : Due(n)' = IF n >= k + 1 THEN Front(announced) ELSE announced
  <2>1. \A n : Due(n)' = IF loop'.pc = "notify" /\ n >= loop'.at THEN Front(announced') ELSE announced'
    BY DEF Due, ToAll, announced
  <2> QED
    BY <1>3, <1>10, <2>1
<1>12. \A n \in DOMAIN notifiers : tried'[n] = Due(n)'
  <2> SUFFICES ASSUME NEW n \in DOMAIN notifiers PROVE tried'[n] = Due(n)'
    OBVIOUS
  <2>1. n \in Nat /\ (n = k \/ (n # k /\ (n >= k <=> n >= k + 1)))
    BY <1>2, <1>3
  <2>2. CASE n = k
    <3>1. tried[k] = Front(announced)
      BY <1>1, <1>2, <1>3, <1>9
    <3>2. tried'[n] = announced
      BY <1>5, <1>8, <2>2, <3>1
    <3>3. ~ (n >= k + 1)
      BY <1>3, <2>2
    <3> QED
      BY <1>11, <3>2, <3>3
  <2>3. CASE n # k
    BY <1>2, <1>5, <1>9, <1>11, <2>1, <2>3
  <2> QED
    BY <2>2, <2>3
<1>13. EveryChannelIsGivenAll'
  BY <1>1, <1>12 DEF Given, EveryChannelIsGivenAll
<1> QED
  BY <1>7, <1>13 DEF Given

\* At the end of a fan-out every notifier has been passed.
LEMMA FanEnd ==
  ASSUME Given, EndNotify
  PROVE  Given'
<1>1. /\ UNCHANGED <<config, notifiers, queue, accepted, taken, tried, main>>
      /\ loop.pc = "notify" /\ loop.at > Len(notifiers)
      /\ loop' = [pc |-> "select", at |-> 0]
  BY DEF EndNotify, process
<1>2. loop \in Places /\ notifiers \in Seq(Channels) /\ main # "init"
  BY <1>1 DEF Given, FanOut
<1>3. loop' \in Places /\ loop'.pc = "select"
  BY <1>1 DEF Places
<1>4. ToAll' = ToAll /\ Channels' = Channels
  BY <1>1 DEF ToAll, Announced, Channels
<1>5. FanOut'
  BY <1>1, <1>2, <1>3, <1>4 DEF Given, FanOut
<1>6. loop.at \in Nat
  BY <1>2 DEF Places
<1>7. \A n \in DOMAIN notifiers : ~ (n >= loop.at)
  BY <1>1, <1>2, <1>6
<1> DEFINE announced == Among(taken, ToAll)
<1>8. \A n \in DOMAIN notifiers : Due(n) = announced
  BY <1>7 DEF Due, ToAll
<1>9. \A n : Due(n)' = announced
  <2>1. Among(taken', ToAll') = announced
    BY <1>1, <1>4
  <2> HIDE DEF announced
  <2> QED
    BY <1>3, <2>1 DEF Due, ToAll
<1>10. EveryChannelIsGivenAll'
  BY <1>1, <1>8, <1>9 DEF Given, EveryChannelIsGivenAll
<1> QED
  BY <1>5, <1>10 DEF Given

\* Every step keeps the invariant.
LEMMA FanStep ==
  ASSUME Given, Built', [Next]_vars
  PROVE  Given'
<1>1. CASE AddNotifier
  BY <1>1, FanAdd DEF Built
<1>2. CASE Start
  <2>1. /\ UNCHANGED <<config, notifiers, taken, tried, queue, accepted>>
        /\ loop' = [loop EXCEPT !.pc = "select"] /\ main = "init" /\ main' = "serve"
    BY <1>2 DEF Start
  <2>2. loop \in Places /\ loop.pc = "off"
    BY <2>1 DEF Given, FanOut
  <2>3. loop' \in Places /\ loop'.pc = "select"
    BY <2>1, <2>2 DEF Places
  <2> QED
    BY <2>1, <2>2, <2>3, FanRest
<1>3. CASE EndLoop
  <2>1. /\ UNCHANGED <<config, notifiers, taken, tried, queue, accepted, main>>
        /\ loop' = [loop EXCEPT !.pc = "done"] /\ loop.pc = "select"
    BY <1>3 DEF EndLoop, process
  <2>2. loop \in Places /\ main # "init"
    BY <2>1 DEF Given, FanOut
  <2>3. loop' \in Places /\ loop'.pc = "done"
    BY <2>1, <2>2 DEF Places
  <2> QED
    BY <2>1, <2>2, <2>3, FanRest
<1>4. CASE SendWithTimeout \/ SendMail
  BY <1>4, FanSend DEF SendWithTimeout, SendMail
<1>5. CASE Signal \/ ServerFails \/ Shutdown
  BY <1>5, FanRest DEF Signal, ServerFails, Shutdown, process, bus
<1>6. CASE StopFlusher \/ FinalFlush \/ Return \/ AutoFlush \/ UNCHANGED vars
  BY <1>6, FanRest DEF StopFlusher, FinalFlush, Return, AutoFlush, vars, process, bus
<1> QED
  BY <1>1, <1>2, <1>3, <1>4, <1>5, <1>6, FanIngest, FanTakeObservation, FanHandle, FanTake,
     FanEnd DEF Next, Main, Dispatcher

\* What the queue took is what the dispatcher took and what still waits, and
\* every channel is given each announced finding once and in order, whichever
\* of the others failed.
THEOREM ChannelsAreGivenAll == Spec => []EveryChannelIsGivenAll
<1>1. Init => Built /\ Given
  <2> SUFFICES ASSUME Init PROVE Built /\ Given
    OBVIOUS
  <2>1. Built
    BY DEF Init, Built
  <2>2. FanOut
    BY DEF Init, FanOut, Places
  <2>3. EveryChannelIsGivenAll
    BY AmongEmpty DEF Init, EveryChannelIsGivenAll
  <2> QED
    BY <2>1, <2>2, <2>3 DEF Given
<1>2. Built /\ Given /\ [Next]_vars => Built' /\ Given'
  BY BuiltStep, FanStep
<1>3. Given => EveryChannelIsGivenAll
  BY DEF Given
<1> QED
  BY <1>1, <1>2, <1>3, PTL DEF Spec

-----------------------------------------------------------------------------
(***************************************************************************)
(* The order of the channels, and the types.                               *)
(***************************************************************************)
\* What four sets that make up a whole select from a sequence is all of it.
LEMMA AmongFour ==
  ASSUME NEW D, NEW R, NEW S, NEW T, NEW U,
         \A e \in D : \/ e \in R /\ e \notin S /\ e \notin T /\ e \notin U
                      \/ e \notin R /\ e \in S /\ e \notin T /\ e \notin U
                      \/ e \notin R /\ e \notin S /\ e \in T /\ e \notin U
                      \/ e \notin R /\ e \notin S /\ e \notin T /\ e \in U,
         NEW s \in Seq(D)
  PROVE  Len(Among(s, R)) + Len(Among(s, S)) + Len(Among(s, T)) + Len(Among(s, U)) = Len(s)
<1> DEFINE Whole(t) == Len(Among(t, R)) + Len(Among(t, S)) + Len(Among(t, T)) + Len(Among(t, U)) = Len(t)
           All == Seq(D)
           Good == {n \in Nat : \A t \in All : Len(t) = n => Whole(t)}
<1>1. 0 \in Good
  <2> SUFFICES ASSUME NEW t \in All, Len(t) = 0 PROVE Whole(t)
    OBVIOUS
  <2>1. t = << >> /\ Len(<< >>) = 0
    OBVIOUS
  <2>2. \A V : Among(t, V) = << >>
    BY <2>1, AmongEmpty
  <2>3. Len(Among(t, R)) = 0 /\ Len(Among(t, S)) = 0 /\ Len(Among(t, T)) = 0 /\ Len(Among(t, U)) = 0
    BY <2>1, <2>2
  <2> QED
    BY <2>3
<1>2. ASSUME NEW n \in Nat, \A t \in All : Len(t) = n => Whole(t), NEW u \in All, Len(u) = n + 1
      PROVE  Whole(u)
  <2> DEFINE v == SubSeq(u, 1, n)
             e == u[n + 1]
  <2>1. v \in Seq(D) /\ Len(v) = n /\ e \in D /\ u = Append(v, e)
    BY <1>2, AllButLast
  <2>2. Whole(v)
    BY <1>2, <2>1
  <2> HIDE DEF v, e
  <2>3. ASSUME NEW V
        PROVE  /\ Len(Among(v, V)) \in Nat
               /\ Len(Among(u, V)) = Len(Among(v, V)) + (IF e \in V THEN 1 ELSE 0)
    <3> DEFINE a == Among(v, V)
    <3>1. a \in Seq(V)
      BY <2>1, AmongType
    <3>2. Among(u, V) = IF e \in V THEN Append(a, e) ELSE a
      BY <2>1, AmongAppend
    <3> HIDE DEF a
    <3>3. Len(a) \in Nat /\ (e \in V => Len(Append(a, e)) = Len(a) + 1)
      BY <3>1
    <3>4. Len(Among(u, V)) = Len(a) + (IF e \in V THEN 1 ELSE 0)
      BY <3>2, <3>3
    <3> QED
      BY <3>3, <3>4 DEF a
  <2> DEFINE r == Len(Among(v, R))
             t == Len(Among(v, S))
             x == Len(Among(v, T))
             y == Len(Among(v, U))
  <2>4. r \in Nat /\ t \in Nat /\ x \in Nat /\ y \in Nat /\ r + t + x + y = n
    BY <2>1, <2>2, <2>3
  <2>5. /\ Len(Among(u, R)) = r + (IF e \in R THEN 1 ELSE 0) /\ Len(Among(u, S)) = t + (IF e \in S THEN 1 ELSE 0)
        /\ Len(Among(u, T)) = x + (IF e \in T THEN 1 ELSE 0) /\ Len(Among(u, U)) = y + (IF e \in U THEN 1 ELSE 0)
    BY <2>3
  <2> HIDE DEF r, t, x, y
  <2>6. \/ e \in R /\ e \notin S /\ e \notin T /\ e \notin U
        \/ e \notin R /\ e \in S /\ e \notin T /\ e \notin U
        \/ e \notin R /\ e \notin S /\ e \in T /\ e \notin U
        \/ e \notin R /\ e \notin S /\ e \notin T /\ e \in U
    BY <2>1
  <2> QED
    BY <1>2, <2>4, <2>5, <2>6
<1>3. Nat \subseteq Good
  <2> HIDE DEF All, Whole
  <2>1. 0 \in Good /\ \A n \in Nat : n \in Good => n + 1 \in Good
    BY <1>1, <1>2
  <2> HIDE DEF Good
  <2> QED
    BY <2>1, NatSetInduction
<1>4. Len(s) \in Nat /\ s \in All
  OBVIOUS
<1>5. Whole(s)
  <2> HIDE DEF All, Whole
  <2> QED
    BY <1>3, <1>4
<1> QED
  BY <1>5

\* NewManager goes through all channels of the configuration and no others.
LEMMA AllInOrder ==
  ASSUME NEW c \in Configs
  PROVE  /\ InOrder(c.channels) \in Seq(ToSet(c.channels))
         /\ Len(InOrder(c.channels)) = Len(c.channels)
<1> DEFINE s == c.channels
           D == ToSet(s)
           OfKind(k) == {x \in D : x.kind = k}
           a == Among(s, OfKind("webhook"))
           b == Among(s, OfKind("syslog"))
           d == Among(s, OfKind("smtp"))
           e == Among(s, OfKind("telegram"))
<1>1. s \in Seq(D)
  BY ConfigAssumption
<1>2. ASSUME NEW x \in D PROVE x.kind \in {"webhook", "syslog", "smtp", "telegram"}
  <2>1. PICK i \in DOMAIN s : x = s[i]
    BY DEF ToSet
  <2>2. x.kind \in ToSet(Kinds)
    BY <2>1, ConfigAssumption
  <2> QED
    BY <2>2 DEF ToSet, Kinds
<1>3. InOrder(s) = FlattenSeq(<<a, b, d, e>>)
  <2>1. DOMAIN Kinds = 1 .. 4 /\ Kinds[1] = "webhook" /\ Kinds[2] = "syslog" /\ Kinds[3] = "smtp"
        /\ Kinds[4] = "telegram"
    BY DEF Kinds
  <2> HIDE DEF OfKind
  <2> DEFINE f == [k \in DOMAIN Kinds |-> Among(s, OfKind(Kinds[k]))]
  <2>2. f = <<a, b, d, e>>
    <3>1. f = [k \in 1 .. 4 |-> f[k]] /\ f[1] = a /\ f[2] = b /\ f[3] = d /\ f[4] = e
      BY <2>1
    <3> HIDE DEF f, a, b, d, e
    <3> QED
      BY <3>1
  <2>3. InOrder(s) = FlattenSeq(f)
    BY DEF InOrder, OfKind
  <2> QED
    BY <2>2, <2>3
<1> HIDE DEF s, D
<1>4. Len(s) \in Nat
  BY <1>1
<1>5. \A S : S \subseteq D => Among(s, S) \in Seq(D)
  <2> SUFFICES ASSUME NEW S, S \subseteq D PROVE Among(s, S) \in Seq(D)
    OBVIOUS
  <2>1. Among(s, S) \in Seq(S)
    BY <1>4, AmongType
  <2> QED
    BY <2>1
<1>6. a \in Seq(D) /\ b \in Seq(D) /\ d \in Seq(D) /\ e \in Seq(D)
  BY <1>5
<1>7. Len(a) + Len(b) + Len(d) + Len(e) = Len(s)
  BY <1>1, <1>2, AmongFour
<1> HIDE DEF a, b, d, e
<1>8. FlattenSeq(<<a, b, d, e>>) \in Seq(D) /\ Len(FlattenSeq(<<a, b, d, e>>)) = Len(a) + Len(b) + Len(d) + Len(e)
  BY <1>6, FlatFour
<1> QED
  BY <1>3, <1>7, <1>8 DEF s, D

Observation == [type |-> "observation"]

\* The observations that wait and the one at hand.
Pending == Len(Among(queue, {Observation})) + (IF loop.pc = "module" THEN 1 ELSE 0)

\* What has been applied, what is pending and what was dropped came in.
Counts ==
  /\ mem \in Nat /\ disk \in Nat /\ events \in Nat
  /\ disk <= mem /\ events <= MaxEvents
  /\ mem + Pending <= events
  /\ Len(queue) <= QueueCap

\* The process is at its places, and its channels are the first of the list.
Settled ==
  /\ config \in Configs
  /\ main \in {"init", "exit", "serve", "drain", "flushed", "ended", "unsaved"}
  /\ cancelled \in BOOLEAN
  /\ server \in {"off", "listening", "closed", "failed"}
  /\ flusher \in {"off", "on", "stopping"}
  /\ Len(notifiers) <= Len(config.channels)
  /\ \A n \in DOMAIN notifiers : notifiers[n] = InOrder(config.channels)[n] /\ notifiers[n].dest \in Dests
  /\ loop.at <= Len(notifiers) + 1

\* How many observations a queue holds.
LEMMA PendingType ==
  ASSUME NEW q \in Seq(Event)
  PROVE  Len(Among(q, {Observation})) \in Nat
<1>1. Len(q) \in Nat
  OBVIOUS
<1>2. Among(q, {Observation}) \in Seq({Observation})
  BY <1>1, AmongType
<1> QED
  BY <1>2

\* One more at its end.
LEMMA PendingMore ==
  ASSUME NEW q \in Seq(Event), NEW e \in Event
  PROVE  Len(Among(Append(q, e), {Observation}))
           = Len(Among(q, {Observation})) + (IF e = Observation THEN 1 ELSE 0)
<1> DEFINE a == Among(q, {Observation})
<1>1. a \in Seq({Observation})
  BY AmongType
<1>2. Among(Append(q, e), {Observation}) = IF e \in {Observation} THEN Append(a, e) ELSE a
  BY AmongAppend
<1> HIDE DEF a
<1>3. Len(a) \in Nat /\ (e = Observation => Len(Append(a, e)) = Len(a) + 1)
  BY <1>1
<1>4. Len(Among(Append(q, e), {Observation})) = Len(a) + (IF e = Observation THEN 1 ELSE 0)
  BY <1>2, <1>3
<1> QED
  BY <1>4 DEF a

\* One less at its head.
LEMMA PendingLess ==
  ASSUME NEW q \in Seq(Event), q # << >>
  PROVE  Len(Among(q, {Observation}))
           = Len(Among(Tail(q), {Observation})) + (IF Head(q) = Observation THEN 1 ELSE 0)
<1> DEFINE a == Among(Tail(q), {Observation})
           e == Head(q)
<1>1. a \in Seq({Observation})
  <2>1. Tail(q) \in Seq(Event)
    OBVIOUS
  <2>2. Len(Tail(q)) \in Nat
    BY <2>1
  <2> QED
    BY <2>2, AmongType
<1>2. Among(q, {Observation}) = IF e \in {Observation} THEN <<e>> \o a ELSE a
  BY AmongHead
<1> HIDE DEF a, e
<1>3. Len(a) \in Nat /\ (e = Observation => Len(<<e>> \o a) = Len(a) + 1)
  <2>1. ASSUME e = Observation PROVE Len(<<e>> \o a) = Len(a) + 1
    <3>1. e \in {Observation}
      BY <2>1
    <3>2. <<e>> \in Seq({Observation}) /\ Len(<<e>>) = 1
      BY <3>1
    <3>3. Len(<<e>> \o a) = Len(<<e>>) + Len(a)
      BY <1>1, <3>2, Longer
    <3>4. Len(a) \in Nat
      BY <1>1
    <3> QED
      BY <3>2, <3>3, <3>4
  <2>2. Len(a) \in Nat
    BY <1>1
  <2> QED
    BY <2>1, <2>2
<1>4. Len(Among(q, {Observation})) = Len(a) + (IF e = Observation THEN 1 ELSE 0)
  <2>1. CASE e = Observation
    <3>1. Among(q, {Observation}) = <<e>> \o a
      BY <1>2, <2>1
    <3>2. Len(Among(q, {Observation})) = Len(<<e>> \o a)
      BY <3>1
    <3> QED
      BY <1>3, <2>1, <3>2
  <2>2. CASE e # Observation
    <3>1. Among(q, {Observation}) = a
      BY <1>2, <2>2
    <3> QED
      BY <1>3, <2>2, <3>1
  <2> QED
    BY <2>1, <2>2
<1> QED
  BY <1>4 DEF a, e

\* The steps on the queue count what they move.
LEMMA CountsStep ==
  ASSUME BoundsAssumption, Given, Counts, [Next]_vars
  PROVE  Counts'
<1>1. /\ queue \in Seq(Event) /\ loop \in Places /\ mem \in Nat /\ disk \in Nat /\ events \in Nat
      /\ QueueCap \in Nat /\ MaxEvents \in Nat /\ Len(queue) \in Nat
  BY DEF Given, FanOut, Counts, BoundsAssumption
<1>2. Observation \in Event /\ (\A e \in Event : e.type = "observation" => e = Observation)
      /\ (\A f \in Finding : f \in Event /\ f # Observation /\ f.type # "observation")
  BY DEF Event, Observation, Finding
<1> DEFINE k == Len(Among(queue, {Observation}))
<1>3. k \in Nat
  BY <1>1, PendingType
<1>4. CASE Ingest
  <2>1. /\ events < MaxEvents /\ events' = events + 1 /\ loop' = loop /\ mem' = mem /\ disk' = disk
        /\ (queue' = Append(queue, Observation) /\ Len(queue) < QueueCap) \/ queue' = queue
    BY <1>4 DEF Ingest, saving, Room, Observation
  <2>2. Len(Among(queue', {Observation})) <= k + 1 /\ Len(Among(queue', {Observation})) \in Nat
        /\ Len(queue') <= QueueCap
    <3>1. CASE queue' = queue
      BY <1>1, <1>3, <3>1 DEF Counts
    <3>2. CASE queue' = Append(queue, Observation) /\ Len(queue) < QueueCap
      <4>1. Len(Among(queue', {Observation})) = k + 1
        BY <1>1, <1>2, <3>2, PendingMore
      <4>2. Len(queue') = Len(queue) + 1
        BY <1>1, <3>2
      <4> QED
        BY <1>1, <1>3, <3>2, <4>1, <4>2
    <3> QED
      BY <2>1, <3>1, <3>2
  <2> QED
    BY <1>1, <1>3, <2>1, <2>2 DEF Counts, Pending
<1>5. CASE TakeObservation
  <2>1. /\ loop.pc = "select" /\ queue # << >> /\ Head(queue).type = "observation" /\ queue' = Tail(queue)
        /\ loop' = [loop EXCEPT !.pc = "module"] /\ mem' = mem /\ disk' = disk /\ events' = events
    BY <1>5 DEF TakeObservation, saving
  <2>2. Head(queue) = Observation /\ Len(queue') <= Len(queue) /\ queue' \in Seq(Event) /\ Len(queue') \in Nat
    BY <1>1, <1>2, <2>1
  <2>3. k = Len(Among(queue', {Observation})) + 1
    BY <1>1, <2>1, <2>2, PendingLess
  <2>4. Len(Among(queue', {Observation})) \in Nat
    BY <2>2, PendingType
  <2>5. loop'.pc = "module"
    BY <1>1, <2>1 DEF Places
  <2>6. Pending = k /\ Pending' = k
    BY <1>3, <2>1, <2>3, <2>4, <2>5 DEF Pending
  <2> HIDE DEF k
  <2> QED
    BY <1>1, <2>1, <2>2, <2>6 DEF Counts
<1>6. CASE Handle
  <2>1. /\ loop.pc = "module" /\ mem' = mem + 1 /\ disk' = disk /\ events' = events
        /\ loop' = [loop EXCEPT !.pc = "select"]
        /\ queue' = queue \/ (\E f \in Finding : queue' = Append(queue, f) /\ Len(queue) < QueueCap)
    BY <1>6 DEF Handle, PublishFinding, Room
  <2>2. Len(Among(queue', {Observation})) = k /\ Len(queue') <= QueueCap
    <3>1. CASE queue' = queue
      BY <3>1 DEF Counts
    <3>2. CASE \E f \in Finding : queue' = Append(queue, f) /\ Len(queue) < QueueCap
      <4>1. PICK f \in Finding : queue' = Append(queue, f) /\ Len(queue) < QueueCap
        BY <3>2
      <4>2. Len(Among(queue', {Observation})) = k + 0
        BY <1>1, <1>2, <4>1, PendingMore
      <4>3. Len(queue') = Len(queue) + 1
        BY <1>1, <1>2, <4>1
      <4> QED
        BY <1>1, <1>3, <4>1, <4>2, <4>3
    <3> QED
      BY <2>1, <3>1, <3>2
  <2>3. loop'.pc = "select"
    BY <1>1, <2>1 DEF Places
  <2> QED
    BY <1>1, <1>3, <2>1, <2>2, <2>3 DEF Counts, Pending
<1>7. CASE TakeFinding
  <2>1. /\ loop.pc = "select" /\ queue # << >> /\ Head(queue).type = "finding" /\ queue' = Tail(queue)
        /\ loop'.pc # "module" /\ mem' = mem /\ disk' = disk /\ events' = events
    BY <1>7 DEF TakeFinding, saving
  <2>2. Head(queue) # Observation /\ Len(queue') <= Len(queue) /\ queue' \in Seq(Event) /\ Len(queue') \in Nat
    BY <1>1, <2>1 DEF Observation
  <2>3. k = Len(Among(queue', {Observation})) + 0
    BY <1>1, <2>1, <2>2, PendingLess
  <2>4. Len(Among(queue', {Observation})) \in Nat
    BY <2>2, PendingType
  <2> QED
    BY <1>1, <1>3, <2>1, <2>2, <2>3, <2>4 DEF Counts, Pending
<1>8. ASSUME queue' = queue, mem' = mem, events' = events, disk' = disk \/ disk' = mem,
             loop' = loop \/ loop'.pc # "module"
      PROVE  Counts'
  BY <1>1, <1>3, <1>8 DEF Counts, Pending
<1>9. CASE Main
  <2>1. CASE Start
    <3>1. queue' = queue /\ mem' = mem /\ events' = events /\ disk' = disk /\ loop' = [loop EXCEPT !.pc = "select"]
      BY <2>1 DEF Start
    <3>2. loop'.pc = "select"
      BY <1>1, <3>1 DEF Places
    <3> QED
      BY <1>8, <3>1, <3>2
  <2>2. CASE AddNotifier \/ Shutdown \/ StopFlusher \/ FinalFlush \/ Return
    BY <1>8, <2>2 DEF AddNotifier, Shutdown, StopFlusher, FinalFlush, Return, saving, bus
  <2> QED
    BY <1>9, <2>1, <2>2 DEF Main
<1>10. CASE Signal \/ ServerFails \/ AutoFlush \/ UNCHANGED vars
  BY <1>8, <1>10 DEF Signal, ServerFails, AutoFlush, saving, bus, vars
<1>11. CASE SendWithTimeout \/ SendMail \/ EndNotify \/ EndLoop
  <2>1. ASSUME NEW mail, SendNext(mail) PROVE Counts'
    <3>1. /\ queue' = queue /\ mem' = mem /\ events' = events /\ disk' = disk
          /\ loop.pc = "notify" /\ loop' = [loop EXCEPT !.at = @ + 1]
      BY <2>1 DEF SendNext, Send, saving
    <3>2. loop'.pc = "notify"
      BY <1>1, <3>1 DEF Places
    <3> QED
      BY <1>8, <3>1, <3>2
  <2>2. CASE EndNotify
    BY <1>8, <2>2 DEF EndNotify, saving
  <2>3. CASE EndLoop
    <3>1. queue' = queue /\ mem' = mem /\ events' = events /\ disk' = disk /\ loop' = [loop EXCEPT !.pc = "done"]
      BY <2>3 DEF EndLoop, saving
    <3>2. loop'.pc = "done"
      BY <1>1, <3>1 DEF Places
    <3> QED
      BY <1>8, <3>1, <3>2
  <2> QED
    BY <1>11, <2>1, <2>2, <2>3 DEF SendWithTimeout, SendMail
<1> QED
  BY <1>4, <1>5, <1>6, <1>7, <1>9, <1>10, <1>11 DEF Next, Dispatcher

\* The steps keep the process at its places.
LEMMA SettledStep ==
  ASSUME ConfigAssumption, DestAssumption, Built, Given, Settled, [Next]_vars
  PROVE  Settled'
<1>1. /\ loop \in Places /\ notifiers \in Seq(Channels) /\ loop.at \in Nat /\ Len(notifiers) \in Nat
  BY DEF Given, FanOut, Built, Places
<1>2. CASE AddNotifier
  <2> DEFINE c == InOrder(config.channels)[Len(notifiers) + 1]
             s == config.channels
  <2>1. /\ UNCHANGED <<config, cancelled, server, flusher, loop>>
        /\ Len(notifiers) < Len(config.channels)
        /\ \/ notifiers' = Append(notifiers, c) /\ c.dest # "malformed" /\ main' = main
           \/ notifiers' = notifiers /\ main' = "exit"
    BY <1>2 DEF AddNotifier, saving
  <2>2. InOrder(s) \in Seq(ToSet(s)) /\ Len(InOrder(s)) = Len(s) /\ s \in Seq(ToSet(s))
    BY AllInOrder, ConfigAssumption DEF Settled
  <2>3. c \in ToSet(s)
    <3> DEFINE r == InOrder(s)
               D == ToSet(s)
               n == Len(notifiers) + 1
    <3>1. r \in Seq(D) /\ n \in 1 .. Len(r)
      <4>1. Len(s) \in Nat
        BY <2>2
      <4> QED
        BY <1>1, <2>1, <2>2, <4>1
    <3> HIDE DEF r, D, n
    <3>2. r[n] \in D
      BY <3>1
    <3> QED
      BY <3>2 DEF r, D, n
  <2>4. c.dest \in Dests \/ c.dest = "malformed"
    <3>1. PICK i \in DOMAIN s : c = s[i]
      BY <2>3 DEF ToSet
    <3>2. s[i].dest \in Dests \/ s[i] \in [kind : {"webhook", "telegram"}, dest : {"malformed"}]
      BY ConfigAssumption DEF Settled
    <3> QED
      BY <3>1, <3>2
  <2> HIDE DEF c, s
  <2>5. CASE notifiers' = notifiers /\ main' = "exit"
    BY <2>1, <2>5 DEF Settled
  <2>6. CASE notifiers' = Append(notifiers, c) /\ c.dest # "malformed" /\ main' = main
    <3>1. /\ Len(notifiers') = Len(notifiers) + 1
          /\ \A n \in DOMAIN notifiers' : (n \in DOMAIN notifiers /\ notifiers'[n] = notifiers[n])
                                       \/ (n = Len(notifiers) + 1 /\ notifiers'[n] = c)
      BY <1>1, <2>6
    <3>2. Len(s) \in Nat /\ s = config.channels
      BY <2>2 DEF s
    <3>3. \A n \in DOMAIN notifiers' : notifiers'[n] = InOrder(config.channels)[n] /\ notifiers'[n].dest \in Dests
      BY <2>4, <2>6, <3>1 DEF Settled, c
    <3>4. Len(notifiers') <= Len(config.channels) /\ loop.at <= Len(notifiers') + 1
      BY <1>1, <2>1, <3>1, <3>2 DEF Settled
    <3> QED
      BY <2>1, <2>6, <3>3, <3>4 DEF Settled
  <2> QED
    BY <2>1, <2>5, <2>6
<1>3. ASSUME NEW mail, SendNext(mail) PROVE Settled'
  <2>1. /\ UNCHANGED <<config, main, cancelled, server, flusher, notifiers>>
        /\ loop.at \in DOMAIN notifiers /\ loop' = [loop EXCEPT !.at = @ + 1]
    BY <1>3 DEF SendNext, Send, process, saving
  <2>4. loop'.at <= Len(notifiers) + 1
    <3>1. loop'.at = loop.at + 1
      BY <1>1, <2>1 DEF Places
    <3>2. loop.at <= Len(notifiers)
      BY <1>1, <2>1
    <3> QED
      BY <1>1, <3>1, <3>2
  <2> QED
    BY <2>1, <2>4 DEF Settled
<1>4. ASSUME UNCHANGED <<config, notifiers>>,
             main' \in {"init", "exit", "serve", "drain", "flushed", "ended", "unsaved"},
             cancelled' \in BOOLEAN, server' \in {"off", "listening", "closed", "failed"},
             flusher' \in {"off", "on", "stopping"},
             loop'.at = loop.at \/ loop'.at = 0 \/ loop'.at = 1
      PROVE  Settled'
  <2>1. loop'.at <= Len(notifiers) + 1
    BY <1>1, <1>4 DEF Settled
  <2> QED
    BY <1>4, <2>1 DEF Settled
<1>6. CASE Start
  BY <1>1, <1>4, <1>6 DEF Start, Settled, Places
<1>7. CASE Shutdown \/ StopFlusher \/ FinalFlush \/ Return
  BY <1>4, <1>7 DEF Shutdown, StopFlusher, FinalFlush, Return, Settled, bus, saving
<1>8. CASE Signal \/ ServerFails \/ AutoFlush \/ UNCHANGED vars
  <2>1. CASE Signal \/ ServerFails
    BY <1>4, <2>1 DEF Signal, ServerFails, Settled, bus, saving
  <2>2. CASE AutoFlush
    BY <1>4, <2>2 DEF AutoFlush, Settled, process, bus
  <2>3. CASE UNCHANGED vars
    BY <1>4, <2>3 DEF vars, Settled, process, bus, saving
  <2> QED
    BY <1>8, <2>1, <2>2, <2>3
<1>9. CASE Ingest \/ TakeObservation \/ Handle \/ EndLoop
  <2>1. UNCHANGED <<config, main, cancelled, server, notifiers, flusher>>
    BY <1>9 DEF Ingest, TakeObservation, Handle, EndLoop, process, saving
  <2>2. loop' = loop \/ \E p : loop' = [loop EXCEPT !.pc = p]
    BY <1>9 DEF Ingest, TakeObservation, Handle, EndLoop
  <2>3. loop'.at = loop.at
    BY <1>1, <2>2 DEF Places
  <2> QED
    BY <1>4, <2>1, <2>3 DEF Settled
<1>10. CASE TakeFinding \/ EndNotify
  <2>1. UNCHANGED <<config, main, cancelled, server, notifiers, flusher>>
    BY <1>10 DEF TakeFinding, EndNotify, process, saving
  <2>2. loop' = loop \/ loop'.at = 0 \/ loop'.at = 1
    BY <1>10 DEF TakeFinding, EndNotify
  <2> QED
    BY <1>4, <2>1, <2>2 DEF Settled
<1> QED
  BY <1>2, <1>3, <1>6, <1>7, <1>8, <1>9, <1>10
     DEF Next, Main, Dispatcher, SendWithTimeout, SendMail

\* What holds of the whole process at any time.
ProcessInv == Built /\ Given /\ Settled /\ Counts

LEMMA ProcessStart ==
  ASSUME Init
  PROVE  ProcessInv
<1> USE ConfigAssumption, DestAssumption, BoundsAssumption
<1>1. Built
  BY DEF Init, Built
<1>2. FanOut
  BY DEF Init, FanOut, Places
<1>3. EveryChannelIsGivenAll
  BY AmongEmpty DEF Init, EveryChannelIsGivenAll
<1>4. Settled
  <2>1. config \in Configs /\ notifiers = << >> /\ loop = [pc |-> "off", at |-> 0]
    BY DEF Init
  <2>2. Len(config.channels) \in Nat
    BY <2>1
  <2>3. Len(notifiers) = 0 /\ DOMAIN notifiers = {} /\ loop.at = 0
    BY <2>1
  <2>4. /\ main = "init" /\ cancelled = FALSE /\ server = "off" /\ flusher = "off"
    BY DEF Init
  <2>5. Len(notifiers) <= Len(config.channels) /\ loop.at <= Len(notifiers) + 1
    BY <2>2, <2>3
  <2> QED
    BY <2>1, <2>3, <2>4, <2>5 DEF Settled
<1>5. Counts
  <2>1. queue = << >> /\ loop.pc = "off" /\ mem = 0 /\ disk = 0 /\ events = 0
    BY DEF Init
  <2>2. Pending = 0
    BY <2>1, AmongEmpty DEF Pending
  <2> QED
    BY <2>1, <2>2 DEF Counts
<1> QED
  BY <1>1, <1>2, <1>3, <1>4, <1>5 DEF Given, ProcessInv

LEMMA ProcessStep ==
  ASSUME ProcessInv, [Next]_vars
  PROVE  ProcessInv'
BY ConfigAssumption, DestAssumption, BoundsAssumption, BuiltStep, FanStep, SettledStep,
   CountsStep DEF ProcessInv

LEMMA ProcessTypes ==
  ASSUME ProcessInv
  PROVE  TypeOK
<1> USE ConfigAssumption, DestAssumption, BoundsAssumption DEF ProcessInv
<1>1. /\ queue \in Seq(Event) /\ loop \in Places /\ notifiers \in Seq(Channels)
  BY DEF Given, FanOut, Built
<1>2. IsPrefix(notifiers, InOrder(config.channels))
  <2> DEFINE r == InOrder(config.channels)
  <2>1. r \in Seq(ToSet(config.channels)) /\ Len(r) = Len(config.channels)
    BY AllInOrder DEF Settled
  <2>2. Len(notifiers) <= Len(r) /\ \A n \in DOMAIN notifiers : notifiers[n] = r[n]
    BY <2>1 DEF Settled
  <2>3. DOMAIN notifiers = 1 .. Len(notifiers)
    BY <1>1
  <2> HIDE DEF r
  <2>4. SubSeq(r, 1, Len(notifiers)) = notifiers
    BY <1>1, <2>1, <2>2, <2>3
  <2> QED
    BY <1>1, <2>2, <2>4 DEF IsPrefix, r
<1>3. loop \in [pc : {"off", "select", "module", "notify", "done"}, at : 0 .. Len(notifiers) + 1]
  BY <1>1 DEF Places, Settled
<1>4. \A e \in ToSet(queue) : e = [type |-> "observation"] \/ e \in Finding
  <2>1. ToSet(queue) \subseteq Event
    BY <1>1 DEF ToSet
  <2> QED
    BY <2>1 DEF Event
<1>5. disk <= mem /\ mem <= events /\ events <= MaxEvents /\ Len(queue) <= QueueCap
  <2>1. Len(Among(queue, {Observation})) \in Nat
    BY <1>1, PendingType
  <2> DEFINE k == Len(Among(queue, {Observation}))
  <2>2. k \in Nat
    BY <2>1
  <2> HIDE DEF k
  <2>3. Pending \in Nat
    BY <2>2 DEF Pending, k
  <2> QED
    BY <2>3 DEF Counts
<1> QED
  BY <1>1, <1>2, <1>3, <1>4, <1>5 DEF TypeOK, Settled

\* The variables keep their types: the notifiers are the first of the list in
\* the order NewManager goes through it, the queue stays within its capacity,
\* and no more is saved than was applied, nor applied than came in.
THEOREM TypeCorrect == Spec => []TypeOK
BY ProcessStart, ProcessStep, ProcessTypes, PTL DEF Spec

-----------------------------------------------------------------------------
(***************************************************************************)
(* The module runtime, for any modules and subscriptions.                  *)
(***************************************************************************)
\* What the elements of a sequence stand for, in a row.
Map(F, s) == [n \in DOMAIN s |-> F[s[n]]]

Chosen(F, s) == FlattenSeq(Map(F, s))

\* What elements stand for is a sequence of sequences.
LEMMA MapType ==
  ASSUME NEW E, NEW X, NEW F \in [E -> X], NEW s \in Seq(E)
  PROVE  Map(F, s) \in Seq(X)
BY DEF Map

\* The elements of two sequences in a row.
LEMMA InARow ==
  ASSUME NEW X, NEW p \in Seq(X), NEW q \in Seq(X)
  PROVE  /\ p \o q = [n \in 1 .. Len(p) + Len(q) |-> (p \o q)[n]]
         /\ \A n \in 1 .. Len(p) + Len(q) :
              (p \o q)[n] = IF n <= Len(p) THEN p[n] ELSE q[n - Len(p)]
<1>1. p \o q \in Seq(X) /\ Len(p \o q) = Len(p) + Len(q)
  OBVIOUS
<1>2. DOMAIN (p \o q) = 1 .. Len(p) + Len(q)
  BY <1>1
<1>3. p \o q = [n \in DOMAIN (p \o q) |-> (p \o q)[n]]
  <2> DEFINE r == p \o q
  <2>1. r \in Seq(X)
    BY <1>1
  <2> HIDE DEF r
  <2>2. r = [n \in DOMAIN r |-> r[n]]
    BY <2>1
  <2> QED
    BY <2>2 DEF r
<1> QED
  BY <1>2, <1>3, SMTT(30)

\* It is taken element by element.
LEMMA MapConcat ==
  ASSUME NEW E, NEW F, NEW s \in Seq(E), NEW t \in Seq(E)
  PROVE  Map(F, s \o t) = Map(F, s) \o Map(F, t)
<1> DEFINE X == {F[e] : e \in E}
           p == [n \in DOMAIN s |-> F[s[n]]]
           q == [n \in DOMAIN t |-> F[t[n]]]
           k == Len(s)
           l == Len(t)
<1>1. p \in Seq(X) /\ q \in Seq(X) /\ Len(p) = k /\ Len(q) = l /\ k \in Nat /\ l \in Nat
  OBVIOUS
<1>2. (\A n \in 1 .. k : p[n] = F[s[n]]) /\ (\A n \in 1 .. l : q[n] = F[t[n]])
  OBVIOUS
<1> HIDE DEF p, q, k, l, X
<1>3. /\ p \o q = [n \in 1 .. k + l |-> (p \o q)[n]]
      /\ \A n \in 1 .. k + l : (p \o q)[n] = IF n <= k THEN p[n] ELSE q[n - k]
  <2>1. /\ p \o q = [n \in 1 .. Len(p) + Len(q) |-> (p \o q)[n]]
        /\ \A n \in 1 .. Len(p) + Len(q) : (p \o q)[n] = IF n <= Len(p) THEN p[n] ELSE q[n - Len(p)]
    BY <1>1, InARow, Zenon
  <2>2. Len(p) = k /\ Len(q) = l
    BY <1>1
  <2> QED
    BY <2>1, <2>2, Zenon
<1>4. \A n \in 1 .. k + l : (s \o t)[n] = IF n <= k THEN s[n] ELSE t[n - k]
  BY InARow DEF k, l
<1>5. DOMAIN (s \o t) = 1 .. k + l
  BY InARow DEF k, l
<1>6. ASSUME NEW n \in 1 .. k + l PROVE F[(s \o t)[n]] = (p \o q)[n]
  <2>1. CASE n <= k
    <3>1. n \in 1 .. k
      BY <1>1, <2>1
    <3> QED
      BY <1>2, <1>3, <1>4, <2>1, <3>1
  <2>2. CASE ~ (n <= k)
    <3>1. n - k \in 1 .. l
      BY <1>1, <2>2
    <3> QED
      BY <1>2, <1>3, <1>4, <2>2, <3>1
  <2> QED
    BY <2>1, <2>2
<1>7. [n \in DOMAIN (s \o t) |-> F[(s \o t)[n]]] = [n \in 1 .. k + l |-> (p \o q)[n]]
  BY <1>5, <1>6
<1> QED
  BY <1>3, <1>7 DEF p, q, Map

\* F stands for sequences of D.
IsChooser(F, E, D) == F \in [E -> Seq(D)]

\* What elements stand for, in a row, is a sequence.
LEMMA ChosenType ==
  ASSUME NEW E, NEW D, NEW F, IsChooser(F, E, D), NEW s \in Seq(E)
  PROVE  Chosen(F, s) \in Seq(D)
<1>1. Map(F, s) \in Seq(Seq(D))
  BY MapType, Zenon DEF IsChooser
<1> QED
  BY <1>1, FlatType, Zenon DEF Chosen

\* It is what the two halves stand for, in a row.
LEMMA ChosenConcat ==
  ASSUME NEW E, NEW D, NEW F, IsChooser(F, E, D), NEW s \in Seq(E), NEW t \in Seq(E)
  PROVE  Chosen(F, s \o t) = Chosen(F, s) \o Chosen(F, t)
<1>1. Map(F, s) \in Seq(Seq(D)) /\ Map(F, t) \in Seq(Seq(D))
  BY MapType, Zenon DEF IsChooser
<1>2. Map(F, s \o t) = Map(F, s) \o Map(F, t)
  BY MapConcat
<1>3. FlattenSeq(Map(F, s) \o Map(F, t)) = FlattenSeq(Map(F, s)) \o FlattenSeq(Map(F, t))
  BY <1>1, FlatConcat, Zenon
<1> QED
  BY <1>2, <1>3, Zenon DEF Chosen

\* What one element stands for.
LEMMA ChosenOne ==
  ASSUME NEW E, NEW D, NEW F, IsChooser(F, E, D), NEW e \in E
  PROVE  Chosen(F, <<e>>) = F[e]
<1> DEFINE x == F[e]
<1>1. Map(F, <<e>>) = <<x>>
  BY DEF Map
<1>2. x \in Seq(D)
  BY DEF IsChooser
<1> HIDE DEF x
<1>3. << >> \in Seq(Seq(D)) /\ <<x>> = <<x>> \o << >> /\ x \o << >> = x
  BY <1>2
<1>4. FlattenSeq(<<x>> \o << >>) = x \o FlattenSeq(<< >>)
  BY <1>2, <1>3, FlatCons, Zenon
<1>5. FlattenSeq(<<x>>) = x
  BY <1>3, <1>4, FlatEmpty, Zenon
<1> QED
  BY <1>1, <1>5 DEF Chosen, x

\* The subscriptions there can be, the events and what handled shows of them.
PatternsOf    == {menu[n].patterns[k] : menu \in Menus, n \in Nat, k \in Nat}
ModuleNames   == {menu[n].name : menu \in Menus, n \in Nat}
Subscriptions == PatternsOf \X ModuleNames
Posted        == [type : Outside \cup {PL!Announcement}, obj : Objects, bad : BOOLEAN, id : Nat]
Handlings     == Nat \X ModuleNames \X BOOLEAN

\* The name a subscription gives to those served, if it matches; the name an
\* entry of the history gives to those that handled an event.
Fits(type) == [x \in Subscriptions |-> IF PL!Match(x[1], type) THEN <<x[2]>> ELSE << >>]
By(id)     == [h \in Handlings |-> IF h[1] = id THEN <<h[2]>> ELSE << >>]

Served(list, type) == Chosen(Fits(type), list)

\* Subscriptions and the entries of the history stand for names.
LEMMA Choosers ==
  ASSUME NEW type, NEW id
  PROVE  /\ IsChooser(Fits(type), Subscriptions, ModuleNames)
         /\ IsChooser(By(id), Handlings, ModuleNames)
<1>1. ASSUME NEW m \in ModuleNames PROVE <<m>> \in Seq(ModuleNames)
  OBVIOUS
<1>2. << >> \in Seq(ModuleNames)
  OBVIOUS
<1>3. \A x \in Subscriptions : x[2] \in ModuleNames
  BY DEF Subscriptions
<1>4. \A h \in Handlings : h[2] \in ModuleNames
  BY DEF Handlings
<1>5. Fits(type) \in [Subscriptions -> Seq(ModuleNames)]
  BY <1>1, <1>2, <1>3 DEF Fits
<1>6. By(id) \in [Handlings -> Seq(ModuleNames)]
  BY <1>1, <1>2, <1>4 DEF By
<1> QED
  BY <1>5, <1>6 DEF IsChooser

\* Whom the subscriptions of a module serve.
OfModule(m, type) ==
  FlattenSeq([k \in DOMAIN m.patterns |-> IF PL!Match(m.patterns[k], type) THEN <<m.name>> ELSE << >>])

ModuleSubs(m) == [n \in 1 .. Len(m.patterns) |-> <<m.patterns[n], m.name>>]

\* Modules of a menu have such subscriptions.
LEMMA MenuTypes ==
  ASSUME PL!MenusAssumption, NEW menu \in Menus, NEW n \in DOMAIN menu
  PROVE  /\ menu[n].name \in ModuleNames
         /\ ModuleSubs(menu[n]) \in Seq(Subscriptions)
         /\ \A type : Served(ModuleSubs(menu[n]), type) = OfModule(menu[n], type)
         /\ \A type : OfModule(menu[n], type) \in Seq(ModuleNames)
<1> DEFINE m == menu[n]
           P == PL!Range(m.patterns)
<1>1. menu \in Seq(PL!Range(menu)) /\ m.patterns \in Seq(P)
  BY DEF PL!MenusAssumption
<1>2. n \in Nat
  BY <1>1
<1>3. m.name \in ModuleNames
  BY <1>2 DEF ModuleNames
<1>4. Len(m.patterns) \in Nat /\ DOMAIN m.patterns = 1 .. Len(m.patterns)
  <2> HIDE DEF P, m
  <2> QED
    BY <1>1
<1>5. \A k \in 1 .. Len(m.patterns) : m.patterns[k] \in PatternsOf
  BY <1>2 DEF PatternsOf
<1> HIDE DEF m, P
<1>6. ModuleSubs(m) \in Seq(Subscriptions)
  BY <1>3, <1>4, <1>5 DEF ModuleSubs, Subscriptions
<1>7. ASSUME NEW type PROVE Served(ModuleSubs(m), type) = OfModule(m, type)
  <2>1. DOMAIN ModuleSubs(m) = DOMAIN m.patterns
    BY <1>4 DEF ModuleSubs
  <2>2. ASSUME NEW k \in DOMAIN m.patterns
        PROVE  Fits(type)[ModuleSubs(m)[k]] = IF PL!Match(m.patterns[k], type) THEN <<m.name>> ELSE << >>
    <3>1. ModuleSubs(m)[k] = <<m.patterns[k], m.name>>
      BY <1>4 DEF ModuleSubs
    <3>2. <<m.patterns[k], m.name>> \in Subscriptions
      BY <1>3, <1>4, <1>5 DEF Subscriptions
    <3> QED
      BY <3>1, <3>2 DEF Fits
  <2>3. Map(Fits(type), ModuleSubs(m))
          = [k \in DOMAIN m.patterns |-> IF PL!Match(m.patterns[k], type) THEN <<m.name>> ELSE << >>]
    BY <2>1, <2>2 DEF Map
  <2> QED
    BY <2>3 DEF Served, Chosen, OfModule
<1>8. ASSUME NEW type PROVE OfModule(m, type) \in Seq(ModuleNames)
  <2>1. IsChooser(Fits(type), Subscriptions, ModuleNames)
    BY Choosers, Zenon
  <2>2. Chosen(Fits(type), ModuleSubs(m)) \in Seq(ModuleNames)
    BY <1>6, <2>1, ChosenType, Zenon
  <2> QED
    BY <1>7, <2>2, Zenon DEF Served
<1> QED
  BY <1>3, <1>6, <1>7, <1>8 DEF m

\* Where the runtime is: what has been registered is subscribed, and nothing is
\* published before all are.
Registered ==
  /\ offered \in Menus
  /\ registered \in Seq(ModuleNames) /\ Len(registered) <= Len(offered)
  /\ \A n \in DOMAIN registered : registered[n] \in PL!Offered
  /\ \A n, k \in DOMAIN registered : registered[n] = registered[k] => n = k
  /\ subs \in Seq(Subscriptions)
  /\ \A n \in DOMAIN subs : subs[n][2] \in PL!Range(registered)
  /\ \A type : Served(subs, type) = FlattenSeq([n \in 1 .. Len(registered) |-> OfModule(offered[n], type)])
  /\ runtime \in {"starting", "running", "exited"}
  /\ runtime = "running" => Len(registered) = Len(offered)
  /\ runtime # "running" => waiting = << >> /\ at = PL!Idle

\* The event that is dispatched and the subscriptions that are left.
Dispatching(e, rest) == at = [ev |-> <<e>>, rest |-> rest]

\* Events are told apart: what waits has been handled by nobody, and is none of
\* those at hand.
Apart ==
  /\ waiting \in Seq(Posted) /\ Len(waiting) <= Capacity
  /\ handled \in Seq(Handlings)
  /\ sent \in 0 .. Sendings
  /\ \A n \in DOMAIN waiting : waiting[n].id <= sent
  /\ \A n \in DOMAIN handled : handled[n][1] <= sent
  /\ \A n, k \in DOMAIN waiting : waiting[n].id = waiting[k].id /\ waiting[n].id # 0 => n = k
  /\ \A n \in DOMAIN waiting, k \in DOMAIN handled :
       waiting[n].id = handled[k][1] => waiting[n].id = 0

\* Who has handled the event at hand, and who is left to be served, are all
\* who are to be served.
AtHand ==
  at # PL!Idle =>
    \E e \in Posted, j \in 0 .. Len(subs) :
      LET rest == SubSeq(subs, j + 1, Len(subs))
      IN  /\ Dispatching(e, rest)
          /\ e.id <= sent
          /\ \A n \in DOMAIN waiting : waiting[n].id = e.id => e.id = 0
          /\ e.id # 0 => Chosen(By(e.id), handled) \o Served(rest, e.type) = Served(subs, e.type)

PluginInv == Registered /\ Apart /\ AtHand /\ clock \in 0 .. MaxTime

\* What is handled and what is meant, as the specification says it.
LEMMA HandlersAre ==
  ASSUME handled \in Seq(Handlings), NEW id
  PROVE  PL!HandlersOf(id) = Chosen(By(id), handled)
<1>1. \A n \in DOMAIN handled : handled[n] \in Handlings
  OBVIOUS
<1>2. Map(By(id), handled) = [n \in DOMAIN handled |-> IF handled[n][1] = id THEN <<handled[n][2]>> ELSE << >>]
  BY <1>1 DEF Map, By
<1>3. PL!HandlersOf(id)
        = FlattenSeq([n \in DOMAIN handled |-> IF handled[n][1] = id THEN <<handled[n][2]>> ELSE << >>])
  BY DEF PL!HandlersOf, PL!FlattenSeq, FlattenSeq
<1> QED
  BY <1>2, <1>3 DEF Chosen

\* What an event is meant for, module by module.
LEMMA MeantIs ==
  ASSUME NEW type
  PROVE  PL!Meant(type) = FlattenSeq([n \in DOMAIN offered |-> OfModule(offered[n], type)])
BY DEF PL!Meant, PL!FlattenSeq, FlattenSeq, OfModule

\* A module that is registered subscribes after those before it.
LEMMA RegisterStep ==
  ASSUME PL!MenusAssumption, PluginInv, PL!Register
  PROVE  PluginInv'
<1> DEFINE k == Len(registered)
           m == offered[k + 1]
<1>1. /\ runtime = "starting" /\ k < Len(offered)
      /\ UNCHANGED <<offered, waiting, at, findings, clock, sent, handled>>
  BY DEF PL!Register
<1>2. Registered /\ waiting = << >> /\ at = PL!Idle
  BY <1>1 DEF PluginInv, Registered
<1>3. Apart' /\ AtHand' /\ clock' \in 0 .. MaxTime
  BY <1>1, <1>2 DEF PluginInv, Apart, AtHand, Posted
<1>4. CASE m.name \in PL!Range(registered)
  <2>1. runtime' = "exited" /\ registered' = registered /\ subs' = subs
    BY <1>4 DEF PL!Register
  <2>2. Registered'
    BY <1>1, <1>2, <2>1 DEF Registered, PL!Offered
  <2> QED
    BY <1>3, <2>2 DEF PluginInv
<1>5. CASE m.name \notin PL!Range(registered)
  <2>1. runtime' = runtime /\ registered' = Append(registered, m.name) /\ subs' = subs \o ModuleSubs(m)
    BY <1>5 DEF PL!Register, ModuleSubs
  <2>2. offered \in Menus /\ registered \in Seq(ModuleNames) /\ subs \in Seq(Subscriptions) /\ k \in Nat
    BY <1>2 DEF Registered
  <2>3. offered \in Seq(PL!Range(offered))
    BY <2>2 DEF PL!MenusAssumption
  <2>4. k + 1 \in DOMAIN offered /\ k + 1 <= Len(offered) /\ DOMAIN offered = 1 .. Len(offered)
    BY <1>1, <2>2, <2>3
  <2>5. m.name \in PL!Offered
    BY <2>4 DEF PL!Offered
  <2> DEFINE new == ModuleSubs(m)
  <2>6. /\ m.name \in ModuleNames /\ new \in Seq(Subscriptions)
        /\ \A type : Served(new, type) = OfModule(m, type)
        /\ \A n \in 1 .. k + 1 : \A type : OfModule(offered[n], type) \in Seq(ModuleNames)
    <3>1. \A n \in 1 .. k + 1 : n \in DOMAIN offered
      BY <2>2, <2>4
    <3> QED
      BY <2>2, <2>4, <3>1, MenuTypes
  <2>7. \A n \in DOMAIN new : new[n][2] = m.name
    BY DEF ModuleSubs
  <2> HIDE DEF new
  <2>8. /\ registered' \in Seq(ModuleNames) /\ Len(registered') = k + 1
        /\ \A n \in 1 .. k : registered'[n] = registered[n]
        /\ registered'[k + 1] = m.name
    <3> HIDE DEF m
    <3> QED
      BY <2>1, <2>2, <2>6
  <2>9. DOMAIN registered' = 1 .. k + 1 /\ DOMAIN registered = 1 .. k
    BY <2>2, <2>8
  <2> HIDE DEF m
  <2>10. \A n \in 1 .. k + 1 : registered'[n] \in PL!Offered
    <3>1. \A n \in 1 .. k : registered[n] \in PL!Offered
      BY <1>2, <2>9 DEF Registered
    <3>2. \A n \in 1 .. k + 1 : n \in 1 .. k \/ n = k + 1
      BY <2>2
    <3> QED
      BY <2>5, <2>8, <3>1, <3>2
  <2>11. \A n, i \in DOMAIN registered' : registered'[n] = registered'[i] => n = i
    <3>1. \A n \in 1 .. k : registered'[n] # m.name
      BY <1>5, <2>8, <2>9 DEF PL!Range
    <3>2. \A n, i \in 1 .. k : registered'[n] = registered'[i] => n = i
      BY <1>2, <2>8, <2>9 DEF Registered
    <3>3. \A n \in 1 .. k + 1 : n \in 1 .. k \/ n = k + 1
      BY <2>2
    <3> QED
      BY <2>8, <2>9, <3>1, <3>2, <3>3
  <2>12. subs' \in Seq(Subscriptions) /\ \A n \in DOMAIN subs' : subs'[n][2] \in PL!Range(registered')
    <3>1. \A n \in DOMAIN subs' : n \in 1 .. Len(subs) + Len(new) /\ subs' = subs \o new
      BY <2>1, <2>2, <2>6 DEF new
    <3>2. \A n \in 1 .. Len(subs) + Len(new) :
            (subs \o new)[n] = IF n <= Len(subs) THEN subs[n] ELSE new[n - Len(subs)]
      BY <2>2, <2>6, InARow
    <3>3. \A n \in 1 .. Len(subs) + Len(new) : n <= Len(subs) => n \in DOMAIN subs
      BY <2>2, <2>6
    <3>4. \A n \in 1 .. Len(subs) + Len(new) : ~ (n <= Len(subs)) => n - Len(subs) \in DOMAIN new
      BY <2>2, <2>6
    <3>5. \A x \in PL!Range(registered) : x \in PL!Range(registered')
      BY <2>2, <2>8, <2>9 DEF PL!Range
    <3>6. m.name \in PL!Range(registered')
      <4>1. k + 1 \in DOMAIN registered'
        BY <2>2, <2>9
      <4> QED
        BY <2>8, <4>1 DEF PL!Range
    <3>7. \A n \in DOMAIN subs : subs[n][2] \in PL!Range(registered)
      BY <1>2 DEF Registered
    <3>8. subs' \in Seq(Subscriptions)
      BY <2>1, <2>2, <2>6 DEF new
    <3>9. ASSUME NEW n \in DOMAIN subs' PROVE subs'[n][2] \in PL!Range(registered')
      <4>1. CASE n <= Len(subs)
        <5>1. n \in DOMAIN subs /\ subs'[n] = subs[n]
          BY <3>1, <3>2, <3>3, <4>1
        <5> QED
          BY <3>5, <3>7, <5>1
      <4>2. CASE ~ (n <= Len(subs))
        <5>1. n - Len(subs) \in DOMAIN new /\ subs'[n] = new[n - Len(subs)]
          BY <3>1, <3>2, <3>4, <4>2
        <5> QED
          BY <2>7, <3>6, <5>1
      <4> QED
        BY <4>1, <4>2
    <3> QED
      BY <3>8, <3>9
  <2>13. ASSUME NEW type
         PROVE  Served(subs', type) = FlattenSeq([n \in 1 .. k + 1 |-> OfModule(offered[n], type)])
    <3> DEFINE g(n) == OfModule(offered[n], type)
               s == [n \in 1 .. k |-> g(n)]
               t == [n \in 1 .. k + 1 |-> g(n)]
    <3>1. IsChooser(Fits(type), Subscriptions, ModuleNames)
      BY Choosers, Zenon
    <3>2. Chosen(Fits(type), subs \o new) = Chosen(Fits(type), subs) \o Chosen(Fits(type), new)
      BY <2>2, <2>6, <3>1, ChosenConcat
    <3>3. Chosen(Fits(type), subs) = FlattenSeq(s)
      BY <1>2 DEF Registered, Served
    <3>4. Chosen(Fits(type), new) = g(k + 1)
      BY <2>6 DEF Served, m
    <3>5. \A n \in 1 .. k + 1 : g(n) \in Seq(ModuleNames)
      BY <2>6
    <3> HIDE DEF g
    <3>6. t = Append(s, g(k + 1)) /\ k + 1 \in 1 .. k + 1
      BY <2>2
    <3>7. s \in Seq(Seq(ModuleNames)) /\ g(k + 1) \in Seq(ModuleNames)
      <4> DEFINE X == Seq(ModuleNames)
      <4>1. \A n \in 1 .. k + 1 : g(n) \in X
        BY <3>5
      <4> HIDE DEF X
      <4>2. s \in Seq(X) /\ g(k + 1) \in X
        BY <2>2, <4>1
      <4> QED
        BY <4>2 DEF X
    <3> HIDE DEF s, t
    <3>8. FlattenSeq(t) = FlattenSeq(s) \o g(k + 1)
      BY <3>6, <3>7, FlatAppend
    <3> QED
      BY <2>1, <3>2, <3>3, <3>4, <3>8 DEF Served, new, t, g
  <2>14. Registered'
    BY <1>1, <1>2, <2>1, <2>4, <2>8, <2>9, <2>10, <2>11, <2>12, <2>13 DEF Registered, PL!Offered
  <2> QED
    BY <1>3, <2>14 DEF PluginInv
<1> QED
  BY <1>4, <1>5

\* What is left of a sequence.
LEMMA RestTail ==
  ASSUME NEW E, NEW s \in Seq(E), NEW j \in 0 .. Len(s)
  PROVE  LET r == SubSeq(s, j + 1, Len(s))
         IN  /\ r \in Seq(E)
             /\ r # << >> => /\ j + 1 \in 0 .. Len(s) /\ r[1] \in E /\ r = <<r[1]>> \o Tail(r)
                             /\ Tail(r) = SubSeq(s, j + 1 + 1, Len(s)) /\ <<r[1]>> \in Seq(E)
<1> DEFINE r == SubSeq(s, j + 1, Len(s))
<1>1. r \in Seq(E) /\ Len(r) = Len(s) - j
  OBVIOUS
<1>2. ASSUME r # << >>
      PROVE  j + 1 \in 0 .. Len(s) /\ Tail(r) = SubSeq(s, j + 1 + 1, Len(s))
  <2>1. Len(r) # 0
    BY <1>1, <1>2
  <2>2. j + 1 \in 0 .. Len(s)
    BY <1>1, <2>1
  <2>3. Tail(r) = SubSeq(s, j + 1 + 1, Len(s))
    BY <1>1, <2>2
  <2> QED
    BY <2>2, <2>3
<1> HIDE DEF r
<1>3. ASSUME r # << >> PROVE r[1] \in E /\ r = <<r[1]>> \o Tail(r) /\ <<r[1]>> \in Seq(E)
  BY <1>1, <1>3
<1> QED
  BY <1>1, <1>2, <1>3 DEF r

\* The first subscription that is left, and those after it.
LEMMA NextServed ==
  ASSUME NEW type, NEW r \in Seq(Subscriptions), r # << >>, r[1] \in Subscriptions,
         r = <<r[1]>> \o Tail(r)
  PROVE  Served(r, type) = (IF PL!Match(r[1][1], type) THEN <<r[1][2]>> ELSE << >>) \o Served(Tail(r), type)
<1> DEFINE x == r[1]
           t == Tail(r)
<1>1. x \in Subscriptions /\ <<x>> \in Seq(Subscriptions) /\ t \in Seq(Subscriptions) /\ r = <<x>> \o t
  OBVIOUS
<1> HIDE DEF x, t
<1>2. IsChooser(Fits(type), Subscriptions, ModuleNames)
  BY Choosers, Zenon
<1>3. Chosen(Fits(type), <<x>> \o t) = Chosen(Fits(type), <<x>>) \o Chosen(Fits(type), t)
  <2> DEFINE y == <<x>>
  <2>1. y \in Seq(Subscriptions) /\ t \in Seq(Subscriptions)
    BY <1>1
  <2> HIDE DEF y
  <2>2. Chosen(Fits(type), y \o t) = Chosen(Fits(type), y) \o Chosen(Fits(type), t)
    BY <1>2, <2>1, ChosenConcat
  <2> QED
    BY <2>2 DEF y
<1>4. Chosen(Fits(type), <<x>>) = Fits(type)[x]
  BY <1>1, <1>2, ChosenOne
<1>5. Fits(type)[x] = IF PL!Match(x[1], type) THEN <<x[2]>> ELSE << >>
  BY <1>1 DEF Fits
<1>6. Served(<<x>> \o t, type) = Fits(type)[x] \o Served(t, type)
  BY <1>3, <1>4 DEF Served
<1> QED
  BY <1>1, <1>5, <1>6 DEF x, t

\* The clock ticks, the start is over, or nothing happens.
LEMMA QuietStep ==
  ASSUME PluginInv, UNCHANGED <<offered, registered, subs, waiting, at, sent, handled>>,
         clock' \in 0 .. MaxTime,
         runtime' = runtime \/ (runtime = "starting" /\ runtime' = "running" /\ Len(registered) = Len(offered))
  PROVE  PluginInv'
<1>1. Registered'
  BY DEF PluginInv, Registered, PL!Offered
<1>2. Apart' /\ AtHand'
  BY DEF PluginInv, Apart, AtHand, Posted, Dispatching
<1> QED
  BY <1>1, <1>2 DEF PluginInv

\* One more event waits: what is told apart stays so if its number is new or none.
LEMMA ApartMore ==
  ASSUME Apart, NEW e \in Posted, Len(waiting) < Capacity, waiting' = Append(waiting, e),
         handled' = handled, sent' \in 0 .. Sendings, sent <= sent', Capacity \in Nat,
         e.id = 0 \/ (e.id = sent + 1 /\ sent' = sent + 1)
  PROVE  Apart'
<1>1. /\ waiting \in Seq(Posted) /\ handled \in Seq(Handlings) /\ sent \in Int /\ sent' \in Int
      /\ \A n \in DOMAIN waiting : waiting[n].id <= sent /\ waiting[n] \in Posted
      /\ \A n \in DOMAIN handled : handled[n][1] <= sent /\ handled[n] \in Handlings
  BY DEF Apart
<1>2. \A x \in Posted : x.id \in Nat
  BY DEF Posted
<1>3. \A h \in Handlings : h[1] \in Nat
  BY DEF Handlings
<1> DEFINE k == Len(waiting)
<1>4. /\ waiting' \in Seq(Posted) /\ Len(waiting') = k + 1 /\ k \in Nat
      /\ DOMAIN waiting' = 1 .. k + 1 /\ DOMAIN waiting = 1 .. k
      /\ waiting'[k + 1] = e /\ \A n \in 1 .. k : waiting'[n] = waiting[n]
  BY <1>1
<1> HIDE DEF k
<1>5. \A n \in 1 .. k + 1 : n \in 1 .. k \/ n = k + 1
  BY <1>4
<1>6. \A n \in 1 .. k + 1 : waiting'[n].id <= sent'
  BY <1>1, <1>2, <1>4, <1>5, SMTT(30)
<1>7. \A n \in DOMAIN handled' : handled'[n][1] <= sent'
  BY <1>1, <1>3
<1>8. ASSUME NEW n \in 1 .. k + 1, NEW i \in 1 .. k + 1, waiting'[n].id = waiting'[i].id, waiting'[n].id # 0
      PROVE  n = i
  <2>1. CASE n \in 1 .. k /\ i \in 1 .. k
    BY <1>4, <1>8, <2>1 DEF Apart
  <2>2. \A l \in 1 .. k : waiting'[l].id # sent + 1
    <3> SUFFICES ASSUME NEW l \in 1 .. k PROVE waiting'[l].id # sent + 1
      OBVIOUS
    <3>1. waiting'[l] = waiting[l] /\ waiting[l] \in Posted /\ l \in DOMAIN waiting
      BY <1>1, <1>4
    <3>2. waiting[l].id <= sent /\ waiting[l].id \in Nat
      BY <1>1, <1>2, <3>1
    <3> QED
      BY <1>1, <3>1, <3>2
  <2>3. CASE n = k + 1 \/ i = k + 1
    BY <1>4, <1>5, <1>8, <2>2, <2>3
  <2> QED
    BY <1>5, <2>1, <2>3
<1>9. ASSUME NEW n \in 1 .. k + 1, NEW i \in DOMAIN handled', waiting'[n].id = handled'[i][1]
      PROVE  waiting'[n].id = 0
  <2>1. CASE n \in 1 .. k
    BY <1>4, <1>9, <2>1 DEF Apart
  <2>2. handled'[i][1] # sent + 1
    BY <1>1, <1>3
  <2> QED
    BY <1>4, <1>5, <1>9, <2>1, <2>2
<1>10. Len(waiting') <= Capacity /\ handled' \in Seq(Handlings)
  BY <1>1, <1>4 DEF k
<1> QED
  BY <1>4, <1>6, <1>7, <1>8, <1>9, <1>10 DEF Apart

\* An event that comes from outside has a number of its own.
LEMMA PublishStep ==
  ASSUME PluginInv, Capacity \in Nat, Sendings \in Nat, NEW type \in Outside, NEW o \in Objects, NEW bad \in BOOLEAN,
         PL!Publish(type, o, bad)
  PROVE  PluginInv'
<1> DEFINE e == [type |-> type, obj |-> o, bad |-> bad, id |-> sent']
<1>1. /\ runtime = "running" /\ sent < Sendings /\ sent' = sent + 1
      /\ \/ waiting' = Append(waiting, e) /\ Len(waiting) < Capacity
         \/ waiting' = waiting
      /\ UNCHANGED <<offered, registered, subs, runtime, at, findings, clock, handled>>
  BY DEF PL!Publish, PL!Room
<1>2. sent \in 0 .. Sendings /\ sent' \in 0 .. Sendings /\ sent <= sent' /\ sent' \in Nat /\ sent' = sent + 1
  BY <1>1 DEF PluginInv, Apart
<1>3. e \in Posted /\ e.id = sent'
  BY <1>2 DEF Posted
<1> HIDE DEF e
<1>4. Registered'
  BY <1>1 DEF PluginInv, Registered, PL!Offered
<1>5. Apart'
  <2>1. CASE waiting' = Append(waiting, e) /\ Len(waiting) < Capacity
    BY <1>1, <1>2, <1>3, <2>1, ApartMore DEF PluginInv
  <2>2. CASE waiting' = waiting
    <3>1. /\ \A n \in DOMAIN waiting : waiting[n].id <= sent /\ waiting[n].id \in Nat
          /\ \A n \in DOMAIN handled : handled[n][1] <= sent /\ handled[n][1] \in Nat
      <4>1. /\ \A n \in DOMAIN waiting : waiting[n].id <= sent /\ waiting[n] \in Posted
            /\ \A n \in DOMAIN handled : handled[n][1] <= sent /\ handled[n] \in Handlings
        BY DEF PluginInv, Apart
      <4>2. (\A x \in Posted : x.id \in Nat) /\ (\A h \in Handlings : h[1] \in Nat)
        BY DEF Posted, Handlings
      <4> QED
        BY <4>1, <4>2
    <3>2. /\ \A n \in DOMAIN waiting : waiting[n].id <= sent'
          /\ \A n \in DOMAIN handled : handled[n][1] <= sent'
      BY <1>2, <3>1
    <3>3. Apart
      BY DEF PluginInv
    <3> QED
      BY <1>1, <1>2, <2>2, <3>2, <3>3 DEF Apart
  <2> QED
    BY <1>1, <2>1, <2>2
<1>6. AtHand'
  <2> SUFFICES ASSUME at # PL!Idle PROVE AtHand'
    BY <1>1 DEF AtHand
  <2>1. PICK x \in Posted, j \in 0 .. Len(subs) :
          LET rest == SubSeq(subs, j + 1, Len(subs))
          IN  /\ Dispatching(x, rest)
              /\ x.id <= sent
              /\ \A n \in DOMAIN waiting : waiting[n].id = x.id => x.id = 0
              /\ x.id # 0 => Chosen(By(x.id), handled) \o Served(rest, x.type) = Served(subs, x.type)
    BY DEF PluginInv, AtHand
  <2>2. x.id \in Nat /\ x.id <= sent' /\ x.id # sent'
    BY <1>2, <2>1 DEF Posted
  <2>3. \A n \in DOMAIN waiting' : waiting'[n].id = x.id => x.id = 0
    <3>1. CASE waiting' = waiting
      BY <2>1, <3>1
    <3>2. CASE waiting' = Append(waiting, e)
      <4>1. waiting \in Seq(Posted)
        BY DEF PluginInv, Apart
      <4>2. \A n \in DOMAIN waiting' : (n \in DOMAIN waiting /\ waiting'[n] = waiting[n]) \/ waiting'[n] = e
        BY <1>3, <3>2, <4>1
      <4> QED
        BY <1>3, <2>1, <2>2, <4>2
    <3> QED
      BY <1>1, <3>1, <3>2
  <2> QED
    BY <1>1, <2>1, <2>2, <2>3 DEF AtHand, Dispatching
<1> QED
  BY <1>1, <1>4, <1>5, <1>6 DEF PluginInv

\* An event that is taken has been handled by nobody yet.
LEMMA TakeStep ==
  ASSUME PluginInv, Capacity \in Nat, PL!Take
  PROVE  PluginInv'
<1> DEFINE e == Head(waiting)
<1>1. /\ at = PL!Idle /\ waiting # << >> /\ at' = [ev |-> <<e>>, rest |-> subs]
      /\ waiting' = Tail(waiting)
      /\ UNCHANGED <<offered, registered, subs, runtime, findings, clock, sent, handled>>
  BY DEF PL!Take
<1>2. /\ waiting \in Seq(Posted) /\ handled \in Seq(Handlings) /\ sent \in Int /\ Len(waiting) <= Capacity
      /\ subs \in Seq(Subscriptions)
  BY DEF PluginInv, Apart, Registered
<1>3. e \in Posted /\ e = waiting[1] /\ 1 \in DOMAIN waiting
  BY <1>1, <1>2
<1>4. /\ waiting' \in Seq(Posted) /\ Len(waiting') <= Capacity
      /\ \A n \in DOMAIN waiting' : n + 1 \in DOMAIN waiting /\ waiting'[n] = waiting[n + 1] /\ n \in Nat /\ n # 0
  BY <1>1, <1>2
<1> HIDE DEF e
<1>5. Registered'
  BY <1>1 DEF PluginInv, Registered, PL!Offered
<1>6. Apart'
  <2>1. ASSUME NEW n \in DOMAIN waiting', NEW i \in DOMAIN waiting',
               waiting'[n].id = waiting'[i].id, waiting'[n].id # 0
        PROVE  n = i
    <3>1. n + 1 = i + 1
      BY <1>4, <2>1 DEF PluginInv, Apart
    <3> QED
      BY <1>4, <3>1
  <2> QED
    BY <1>1, <1>4, <2>1 DEF PluginInv, Apart
<1>7. AtHand'
  <2>1. 0 \in 0 .. Len(subs) /\ SubSeq(subs, 0 + 1, Len(subs)) = subs
    BY <1>2
  <2>2. e.id <= sent' /\ \A n \in DOMAIN waiting' : waiting'[n].id = e.id => e.id = 0
    <3>1. ASSUME NEW n \in DOMAIN waiting', waiting'[n].id = e.id, e.id # 0 PROVE FALSE
      <4>1. n + 1 = 1
        BY <1>3, <1>4, <3>1 DEF PluginInv, Apart
      <4> QED
        BY <1>4, <4>1
    <3>2. e.id <= sent'
      BY <1>1, <1>3 DEF PluginInv, Apart
    <3> QED
      BY <3>1, <3>2
  <2>3. ASSUME e.id # 0 PROVE Chosen(By(e.id), handled) = << >>
    <3>1. \A n \in DOMAIN handled : handled[n][1] # e.id /\ handled[n] \in Handlings
      BY <1>2, <1>3, <2>3 DEF PluginInv, Apart
    <3> DEFINE s == Map(By(e.id), handled)
    <3>2. \A n \in DOMAIN handled : s[n] = << >>
      BY <3>1 DEF Map, By
    <3>3. DOMAIN s = 1 .. Len(handled) /\ Len(handled) \in Nat /\ s = [n \in DOMAIN s |-> s[n]]
      BY <1>2 DEF Map
    <3>4. DOMAIN s = DOMAIN handled
      BY DEF Map
    <3> HIDE DEF s
    <3>5. Len(s) = Len(handled)
      BY <3>3
    <3>6. FlattenSeq(s) = << >>
      BY <3>2, <3>3, <3>4, <3>5, FlatNone
    <3> QED
      BY <3>6 DEF Chosen, s
  <2>4. << >> \o Served(subs, e.type) = Served(subs, e.type)
    <3> DEFINE all == Served(subs, e.type)
    <3>1. IsChooser(Fits(e.type), Subscriptions, ModuleNames)
      BY Choosers, Zenon
    <3>2. all \in Seq(ModuleNames)
      BY <1>2, <3>1, ChosenType DEF Served
    <3> HIDE DEF all
    <3>3. << >> \o all = all
      BY <3>2
    <3> QED
      BY <3>3 DEF all
  <2>5. e.id # 0 => Chosen(By(e.id), handled') \o Served(subs', e.type) = Served(subs', e.type)
    BY <1>1, <2>3, <2>4
  <2> QED
    BY <1>1, <1>3, <2>1, <2>2, <2>5 DEF AtHand, Dispatching
<1> QED
  BY <1>1, <1>5, <1>6, <1>7 DEF PluginInv

\* A subscription is passed over or its module is called.
LEMMA ServeStep ==
  ASSUME PluginInv, Capacity \in Nat, at # PL!Idle, at.rest # << >>,
         UNCHANGED <<offered, registered, subs, runtime, clock, sent>>,
         at' = [at EXCEPT !.rest = Tail(at.rest)],
         \/ waiting' = waiting
         \/ /\ Len(waiting) < Capacity
            /\ \E o \in Objects :
                 waiting' = Append(waiting, [type |-> PL!Announcement, obj |-> o, bad |-> FALSE, id |-> 0]),
         \/ ~ PL!Match(at.rest[1][1], at.ev[1].type) /\ handled' = handled
         \/ /\ PL!Match(at.rest[1][1], at.ev[1].type)
            /\ handled' = Append(handled, <<at.ev[1].id, at.rest[1][2], at.ev[1].bad>>)
         \/ at.ev[1].id = 0 /\ handled' = handled
  PROVE  PluginInv'
<1>1. PICK e \in Posted, j \in 0 .. Len(subs) :
        LET rest == SubSeq(subs, j + 1, Len(subs))
        IN  /\ Dispatching(e, rest)
            /\ e.id <= sent
            /\ \A n \in DOMAIN waiting : waiting[n].id = e.id => e.id = 0
            /\ e.id # 0 => Chosen(By(e.id), handled) \o Served(rest, e.type) = Served(subs, e.type)
  BY DEF PluginInv, AtHand
<1> DEFINE r == SubSeq(subs, j + 1, Len(subs))
           x == r[1]
           t == Tail(r)
           h == <<e.id, x[2], e.bad>>
<1>2. /\ at = [ev |-> <<e>>, rest |-> r] /\ at.ev[1] = e /\ at.rest = r
      /\ at' = [ev |-> <<e>>, rest |-> t]
  BY <1>1 DEF Dispatching
<1>3. subs \in Seq(Subscriptions) /\ waiting \in Seq(Posted) /\ handled \in Seq(Handlings) /\ sent \in 0 .. Sendings
  BY DEF PluginInv, Registered, Apart
<1>4. /\ r \in Seq(Subscriptions) /\ r # << >>
      /\ j + 1 \in 0 .. Len(subs) /\ x \in Subscriptions /\ r = <<x>> \o t
      /\ t = SubSeq(subs, j + 1 + 1, Len(subs))
  <2>1. r # << >>
    BY <1>2
  <2>2. j \in 0 .. Len(subs)
    OBVIOUS
  <2>3. /\ r \in Seq(Subscriptions)
        /\ r # << >> => /\ j + 1 \in 0 .. Len(subs) /\ r[1] \in Subscriptions /\ r = <<r[1]>> \o Tail(r)
                        /\ Tail(r) = SubSeq(subs, j + 1 + 1, Len(subs)) /\ <<r[1]>> \in Seq(Subscriptions)
    BY <1>3, <2>2, RestTail, Zenon
  <2> QED
    BY <2>1, <2>3
<1>5. h \in Handlings /\ h[1] = e.id /\ h[2] = x[2] /\ e.id \in Nat
  <2>1. x[2] \in ModuleNames
    BY <1>4 DEF Subscriptions
  <2> HIDE DEF x
  <2> QED
    BY <2>1 DEF Handlings, Posted
<1>6. Served(r, e.type) = (IF PL!Match(x[1], e.type) THEN <<x[2]>> ELSE << >>) \o Served(t, e.type)
  BY <1>4, NextServed
<1> HIDE DEF h, x, t, r
<1>7. \/ ~ PL!Match(x[1], e.type) /\ handled' = handled
      \/ PL!Match(x[1], e.type) /\ handled' = Append(handled, h)
      \/ e.id = 0 /\ handled' = handled
  BY <1>2 DEF h, x
<1>8. runtime = "running" /\ Registered
  BY DEF PluginInv, Registered
<1>9. Registered'
  BY <1>8 DEF Registered, PL!Offered
<1>10. /\ waiting' \in Seq(Posted) /\ Len(waiting') <= Capacity
       /\ \A n \in DOMAIN waiting' :
            \/ n \in DOMAIN waiting /\ waiting'[n] = waiting[n]
            \/ waiting'[n].id = 0
  <2>1. CASE waiting' = waiting
    BY <1>3, <2>1 DEF PluginInv, Apart
  <2>2. CASE Len(waiting) < Capacity
             /\ \E o \in Objects :
                  waiting' = Append(waiting, [type |-> PL!Announcement, obj |-> o, bad |-> FALSE, id |-> 0])
    <3>1. PICK o \in Objects :
            waiting' = Append(waiting, [type |-> PL!Announcement, obj |-> o, bad |-> FALSE, id |-> 0])
      BY <2>2
    <3> DEFINE a == [type |-> PL!Announcement, obj |-> o, bad |-> FALSE, id |-> 0]
    <3>2. a \in Posted /\ a.id = 0
      BY DEF Posted
    <3> HIDE DEF a
    <3>3. waiting' = Append(waiting, a)
      BY <3>1 DEF a
    <3> QED
      BY <1>3, <2>2, <3>2, <3>3
  <2> QED
    BY <2>1, <2>2
<1>11. /\ handled' \in Seq(Handlings)
       /\ \A n \in DOMAIN handled' : (n \in DOMAIN handled /\ handled'[n] = handled[n]) \/ handled'[n] = h
  <2>1. CASE handled' = handled
    BY <1>3, <2>1
  <2>2. CASE handled' = Append(handled, h)
    BY <1>3, <1>5, <2>2
  <2> QED
    BY <1>7, <2>1, <2>2
<1>12. Apart'
  <2>1. \A n \in DOMAIN waiting' : waiting'[n].id <= sent'
    <3>1. sent \in Int /\ 0 <= sent /\ sent' = sent /\ \A n \in DOMAIN waiting : waiting[n].id <= sent
      BY <1>3 DEF PluginInv, Apart
    <3> QED
      BY <1>10, <3>1
  <2>2. \A n \in DOMAIN handled' : handled'[n][1] <= sent'
    BY <1>1, <1>3, <1>5, <1>11 DEF PluginInv, Apart
  <2>3. \A n, k \in DOMAIN waiting' : waiting'[n].id = waiting'[k].id /\ waiting'[n].id # 0 => n = k
    BY <1>10 DEF PluginInv, Apart
  <2>4. \A n \in DOMAIN waiting', k \in DOMAIN handled' :
          waiting'[n].id = handled'[k][1] => waiting'[n].id = 0
    BY <1>1, <1>5, <1>10, <1>11 DEF PluginInv, Apart
  <2> QED
    BY <1>3, <1>10, <1>11, <2>1, <2>2, <2>3, <2>4 DEF Apart
<1>13. ASSUME e.id # 0
       PROVE  Chosen(By(e.id), handled') \o Served(t, e.type) = Served(subs, e.type)
  <2> DEFINE a == Chosen(By(e.id), handled)
             b == Served(t, e.type)
             m == IF PL!Match(x[1], e.type) THEN <<x[2]>> ELSE << >>
  <2>1. IsChooser(Fits(e.type), Subscriptions, ModuleNames) /\ IsChooser(By(e.id), Handlings, ModuleNames)
    BY Choosers, Zenon
  <2>2. t \in Seq(Subscriptions)
    BY <1>3, <1>4, RestTail
  <2>3. a \in Seq(ModuleNames) /\ b \in Seq(ModuleNames)
    BY <1>3, <2>1, <2>2, ChosenType DEF Served
  <2>4. m \in Seq(ModuleNames)
    <3>1. x[2] \in ModuleNames
      BY <1>4 DEF Subscriptions
    <3> QED
      BY <3>1
  <2>5. Chosen(By(e.id), handled') = a \o m
    <3>1. CASE ~ PL!Match(x[1], e.type)
      <4>1. a \o << >> = a
        <5> HIDE DEF a
        <5> QED
          BY <2>3
      <4> QED
        BY <1>7, <1>13, <3>1, <4>1
    <3>2. CASE PL!Match(x[1], e.type)
      <4>1. handled' = handled \o <<h>> /\ <<h>> \in Seq(Handlings)
        <5>1. handled' = Append(handled, h)
          BY <1>7, <1>13, <3>2
        <5>2. handled \in Seq(Handlings) /\ h \in Handlings
          BY <1>3, <1>5
        <5>3. Append(handled, h) = handled \o <<h>> /\ <<h>> \in Seq(Handlings)
          BY ONLY <5>2
        <5> QED
          BY <5>1, <5>3
      <4> DEFINE one == <<h>>
      <4>2. Chosen(By(e.id), one) = <<x[2]>>
        <5>1. Chosen(By(e.id), <<h>>) = By(e.id)[h]
          BY <1>5, <2>1, ChosenOne
        <5> QED
          BY <1>5, <5>1 DEF By
      <4>3. one \in Seq(Handlings)
        BY <4>1
      <4> HIDE DEF one
      <4>4. Chosen(By(e.id), handled \o one) = a \o Chosen(By(e.id), one)
        <5>1. handled \in Seq(Handlings)
          BY <1>3
        <5> DEFINE F == By(e.id)
        <5>2. IsChooser(F, Handlings, ModuleNames)
          BY <2>1
        <5> HIDE DEF F
        <5>3. Chosen(F, handled \o one) = Chosen(F, handled) \o Chosen(F, one)
          BY ONLY <4>3, <5>1, <5>2, ChosenConcat
        <5> QED
          BY <5>3 DEF F
      <4> QED
        BY <3>2, <4>1, <4>2, <4>4 DEF one
    <3> QED
      BY <3>1, <3>2
  <2>6. a \o (m \o b) = Served(subs, e.type)
    BY <1>1, <1>6, <1>13 DEF r
  <2> HIDE DEF a, b, m
  <2>7. (a \o m) \o b = a \o (m \o b)
    BY ONLY <2>3, <2>4
  <2> QED
    BY <2>5, <2>6, <2>7 DEF b
<1>14. AtHand'
  <2>1. \A n \in DOMAIN waiting' : waiting'[n].id = e.id => e.id = 0
    BY <1>1, <1>10
  <2>2. at' = [ev |-> <<e>>, rest |-> SubSeq(subs, j + 1 + 1, Len(subs))]
    BY <1>2, <1>4
  <2>3. e.id # 0 => Chosen(By(e.id), handled') \o Served(SubSeq(subs, j + 1 + 1, Len(subs)), e.type)
                      = Served(subs, e.type)
    BY <1>4, <1>13
  <2> DEFINE i == j + 1
  <2>4. i \in 0 .. Len(subs)
    BY <1>4
  <2> HIDE DEF i
  <2> QED
    BY <1>1, <2>1, <2>2, <2>3, <2>4 DEF AtHand, Dispatching, i
<1> QED
  BY <1>9, <1>12, <1>14 DEF PluginInv

\* Every step of the runtime keeps the invariant.
LEMMA PluginStep ==
  ASSUME PL!MenusAssumption, PL!CapacityAssumption, PL!BoundAssumption, PluginInv, [PL!Next]_(PL!vars)
  PROVE  PluginInv'
<1> Capacity \in Nat /\ Sendings \in Nat /\ MaxTime \in Nat
  BY DEF PL!CapacityAssumption, PL!BoundAssumption
<1>1. CASE PL!Register
  BY <1>1, RegisterStep
<1>2. CASE PL!Start \/ PL!Tick \/ UNCHANGED PL!vars
  <2>1. clock \in 0 .. MaxTime
    BY DEF PluginInv
  <2>2. clock' \in 0 .. MaxTime
    BY <1>2, <2>1 DEF PL!Start, PL!Tick, PL!vars
  <2> QED
    BY <1>2, <2>2, QuietStep DEF PL!Start, PL!Tick, PL!vars
<1>3. CASE \E t \in Outside, o \in Objects, bad \in BOOLEAN : PL!Publish(t, o, bad)
  BY <1>3, PublishStep
<1>4. CASE PL!Take
  BY <1>4, TakeStep
<1>5. CASE PL!Skip
  BY <1>5, ServeStep DEF PL!Skip
<1>6. CASE PL!Dispatched
  <2>1. /\ at' = PL!Idle
        /\ UNCHANGED <<offered, registered, subs, runtime, waiting, findings, clock, sent, handled>>
    BY <1>6 DEF PL!Dispatched
  <2>2. Registered'
    BY <2>1 DEF PluginInv, Registered, PL!Offered
  <2>3. Apart' /\ AtHand'
    BY <2>1 DEF PluginInv, Apart, AtHand, Posted
  <2> QED
    BY <2>1, <2>2, <2>3 DEF PluginInv
<1>7. CASE PL!HandlerFails
  BY <1>7, ServeStep DEF PL!HandlerFails, PL!Matching, PL!Handling
<1>8. CASE PL!Handle
  <2>1. at # PL!Idle /\ at.rest # << >> /\ PL!Match(at.rest[1][1], at.ev[1].type)
    BY <1>8 DEF PL!Handle, PL!Matching
  <2>2. /\ UNCHANGED <<offered, registered, subs, runtime, clock, sent>>
        /\ at' = [at EXCEPT !.rest = Tail(at.rest)]
        /\ \/ at.ev[1].id = 0 /\ handled' = handled
           \/ handled' = Append(handled, <<at.ev[1].id, at.rest[1][2], at.ev[1].bad>>)
    BY <1>8 DEF PL!Handle, PL!Handling
  <2>3. at.ev[1].obj \in Objects
    <3>1. PICK e \in Posted, j \in 0 .. Len(subs) : Dispatching(e, SubSeq(subs, j + 1, Len(subs)))
      BY <2>1 DEF PluginInv, AtHand
    <3>2. at.ev[1] = e
      BY <3>1 DEF Dispatching
    <3> QED
      BY <3>2 DEF Posted
  <2>4. \/ waiting' = waiting
        \/ /\ Len(waiting) < Capacity
           /\ waiting' = Append(waiting, [type |-> PL!Announcement, obj |-> at.ev[1].obj, bad |-> FALSE, id |-> 0])
    BY <1>8 DEF PL!Handle, PL!PublishFinding, PL!Room
  <2> QED
    BY <2>1, <2>2, <2>3, <2>4, ServeStep
<1> QED
  BY <1>1, <1>2, <1>3, <1>4, <1>5, <1>6, <1>7, <1>8 DEF PL!Next, PL!Dispatch

\* The invariant holds at the start.
LEMMA PluginStart ==
  ASSUME PL!MenusAssumption, PL!CapacityAssumption, PL!BoundAssumption, PL!Init
  PROVE  PluginInv
<1>1. /\ offered \in Menus /\ registered = << >> /\ subs = << >> /\ runtime = "starting" /\ waiting = << >>
      /\ at = PL!Idle /\ clock = 0 /\ sent = 0 /\ handled = << >>
  BY DEF PL!Init
<1>2. Capacity \in Nat /\ Sendings \in Nat /\ MaxTime \in Nat
  BY DEF PL!CapacityAssumption, PL!BoundAssumption
<1>3. offered \in Seq(PL!Range(offered))
  BY <1>1 DEF PL!MenusAssumption
<1>4. ASSUME NEW type
      PROVE  Served(subs, type) = FlattenSeq([n \in 1 .. Len(registered) |-> OfModule(offered[n], type)])
  <2>1. Map(Fits(type), subs) = << >>
    BY <1>1 DEF Map
  <2>2. [n \in 1 .. Len(registered) |-> OfModule(offered[n], type)] = << >>
    BY <1>1
  <2> QED
    BY <2>1, <2>2 DEF Served, Chosen
<1>5. Registered
  BY <1>1, <1>3, <1>4 DEF Registered
<1>6. Apart /\ AtHand
  BY <1>1, <1>2 DEF Apart, AtHand
<1> QED
  BY <1>1, <1>2, <1>5, <1>6 DEF PluginInv

\* When an event has been dispatched, the modules that have handled it are
\* those whose subscriptions match it, once for each of these and in the order of
\* registration, whatever the modules subscribe to and however many fail on it.
THEOREM ServedAsSubscribedAlways ==
  ASSUME PL!MenusAssumption, PL!CapacityAssumption, PL!BoundAssumption
  PROVE  PL!Spec => []ServedAsSubscribed
<1>1. PL!Init => PluginInv
  BY PluginStart
<1>2. PluginInv /\ [PL!Next]_(PL!vars) => PluginInv'
  BY PluginStep
<1>3. PluginInv => ServedAsSubscribed
  <2> SUFFICES ASSUME PluginInv, at # PL!Idle, at.rest = << >>, at.ev[1].id # 0
               PROVE  PL!HandlersOf(at.ev[1].id) = PL!Meant(at.ev[1].type)
    BY DEF ServedAsSubscribed, PL!ServedAsSubscribed
  <2>1. PICK e \in Posted, j \in 0 .. Len(subs) :
          LET rest == SubSeq(subs, j + 1, Len(subs))
          IN  /\ Dispatching(e, rest)
              /\ e.id # 0 => Chosen(By(e.id), handled) \o Served(rest, e.type) = Served(subs, e.type)
    BY DEF PluginInv, AtHand
  <2>2. at.ev[1] = e /\ SubSeq(subs, j + 1, Len(subs)) = << >>
    BY <2>1 DEF Dispatching
  <2>3. Served(<< >>, e.type) = << >>
    <3>1. Map(Fits(e.type), << >>) = << >>
      BY DEF Map
    <3> QED
      BY <3>1, FlatEmpty DEF Served, Chosen
  <2> DEFINE a == Chosen(By(e.id), handled)
  <2>4. handled \in Seq(Handlings) /\ IsChooser(By(e.id), Handlings, ModuleNames)
    BY Choosers DEF PluginInv, Apart
  <2>5. a \in Seq(ModuleNames)
    BY <2>4, ChosenType
  <2>6. a \o << >> = Served(subs, e.type)
    BY <2>1, <2>2, <2>3
  <2> HIDE DEF a
  <2>7. a = Served(subs, e.type)
    BY <2>5, <2>6
  <2>8. Len(registered) = Len(offered) /\ offered \in Seq(PL!Range(offered))
        /\ Served(subs, e.type) = FlattenSeq([n \in 1 .. Len(registered) |-> OfModule(offered[n], e.type)])
    BY DEF PluginInv, Registered, PL!MenusAssumption
  <2>9. DOMAIN offered = 1 .. Len(registered)
    BY <2>8
  <2>10. PL!Meant(e.type) = Served(subs, e.type)
    BY <2>8, <2>9, MeantIs
  <2>11. PL!HandlersOf(e.id) = a
    BY <2>4, HandlersAre DEF a
  <2> QED
    BY <2>2, <2>7, <2>10, <2>11
<1> QED
  BY <1>1, <1>2, <1>3, PTL DEF PL!Spec

LEMMA PluginTypes ==
  ASSUME PluginInv
  PROVE  PL!TypeOK
<1>1. ASSUME at # PL!Idle PROVE Len(at.ev) = 1 /\ PL!IsSuffix(at.rest, subs)
  <2>1. PICK e \in Posted, j \in 0 .. Len(subs) : Dispatching(e, SubSeq(subs, j + 1, Len(subs)))
    BY <1>1 DEF PluginInv, AtHand
  <2> DEFINE r == SubSeq(subs, j + 1, Len(subs))
             k == Len(subs)
  <2>2. at.ev = <<e>> /\ at.rest = r
    BY <2>1 DEF Dispatching
  <2>3. subs \in Seq(Subscriptions) /\ k \in Nat /\ j \in 0 .. k
    BY DEF PluginInv, Registered
  <2>4. Len(r) = k - j /\ \A n \in 1 .. k - j : r[n] = subs[n + j]
    BY <2>3
  <2>5. PL!IsSuffix(r, subs)
    <3> HIDE DEF r, k
    <3> DEFINE p == [i \in 1 .. k - j |-> r[(k - j - i) + 1]]
               q == [i \in 1 .. k |-> subs[(k - i) + 1]]
    <3>1. PL!Reverse(r) = p /\ PL!Reverse(subs) = q
      BY <2>4 DEF PL!Reverse, k
    <3>2. \A i \in 1 .. k - j : p[i] = q[i]
      <4> SUFFICES ASSUME NEW i \in 1 .. k - j PROVE p[i] = q[i]
        OBVIOUS
      <4>1. (k - j - i) + 1 \in 1 .. k - j /\ i \in 1 .. k /\ ((k - j - i) + 1) + j = (k - i) + 1
        BY <2>3
      <4>2. r[(k - j - i) + 1] = subs[(k - i) + 1]
        BY <2>4, <4>1
      <4> QED
        BY <4>1, <4>2
    <3>3. Len(p) = k - j /\ Len(q) = k /\ k - j <= k
      BY <2>3
    <3> HIDE DEF p, q
    <3>4. SubSeq(p, 1, k - j) = SubSeq(q, 1, k - j)
      BY <2>3, <3>2, <3>3
    <3> QED
      BY <3>1, <3>3, <3>4 DEF PL!IsSuffix, PL!IsPrefix
  <2> QED
    BY <2>2, <2>5
<1>2. PL!Range(registered) \subseteq PL!Offered
  BY DEF PluginInv, Registered, PL!Range
<1> QED
  BY <1>1, <1>2 DEF PL!TypeOK, PluginInv, Registered, Apart

\* Names of modules are taken once, subscriptions belong to registered modules, the
\* queue keeps its capacity, and what is left to be served is the end of the
\* subscriptions.
THEOREM PluginTypeCorrect ==
  ASSUME PL!MenusAssumption, PL!CapacityAssumption, PL!BoundAssumption
  PROVE  PL!Spec => []PL!TypeOK
BY PluginStart, PluginStep, PluginTypes, PTL DEF PL!Spec

-----------------------------------------------------------------------------
\* Whichever part a behaviour of Bus belongs to, both parts keep their types.
THEOREM PartsTypeCorrect ==
  ASSUME PL!MenusAssumption, PL!CapacityAssumption, PL!BoundAssumption
  PROVE  BusSpec => []PartsTypeOK
<1>1. BusInit => Init /\ PL!Init
  BY DEF BusInit
<1>2. [BusNext]_busVars => [Next]_vars /\ [PL!Next]_(PL!vars)
  BY DEF BusNext, busVars, processVars, pluginVars, PL!vars
<1>3. BusInit => ProcessInv /\ PluginInv
  BY <1>1, ProcessStart, PluginStart
<1>4. ProcessInv /\ PluginInv /\ [BusNext]_busVars => ProcessInv' /\ PluginInv'
  BY <1>2, ProcessStep, PluginStep
<1>5. ProcessInv /\ PluginInv => PartsTypeOK
  BY ProcessTypes, PluginTypes DEF PartsTypeOK
<1> QED
  BY <1>3, <1>4, <1>5, PTL DEF BusSpec
=============================================================================
