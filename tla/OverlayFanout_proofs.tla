------------------------ MODULE OverlayFanout_proofs ------------------------
(***************************************************************************)
(* Proofs about OverlayFanout, for any sides, prices, browsers, requests   *)
(* and number of changes.                                                  *)
(***************************************************************************)
EXTENDS OverlayFanout, TLAPS

(***************************************************************************)
(* What a websocket's messages say of a side.                              *)
(***************************************************************************)
WireMessage ==
  [kind : {"snapshot"}, overlays : Map]
    \cup [kind : {"update"}, side : Sides, overlay : Overlay \cup {None}]

Says(m, s) == m.kind = "snapshot" \/ m.side = s

Value(m, s) == IF m.kind = "snapshot" THEN m.overlays[s] ELSE m.overlay

Silent(q, s) == \A i \in 1..Len(q) : ~Says(q[i], s)

LastSays(q, s, v) ==
  \A i \in 1..Len(q) :
    Says(q[i], s) /\ (\A j \in 1..Len(q) : j > i => ~Says(q[j], s)) => Value(q[i], s) = v

(* A browser that shows x of side s and reads the messages q ends with v.  *)
EndsWith(q, s, x, v) == LastSays(q, s, v) /\ (Silent(q, s) => x = v)

(* Putting a message at the end of a sequence.                             *)
LEMMA AppendFacts ==
  ASSUME NEW S, NEW q \in Seq(S), NEW e \in S
  PROVE  /\ Append(q, e) \in Seq(S)
         /\ Len(Append(q, e)) = Len(q) + 1 /\ Len(q) \in Nat
         /\ \A i \in 1..Len(q) : i \in 1..Len(Append(q, e)) /\ Append(q, e)[i] = q[i]
         /\ Append(q, e)[Len(q) + 1] = e
         /\ Len(q) + 1 \in 1..Len(Append(q, e))
         /\ \A i \in 1..Len(Append(q, e)) : i \in 1..Len(q) \/ i = Len(q) + 1
  OBVIOUS

(* Taking the head off a sequence.                                         *)
LEMMA TailFacts ==
  ASSUME NEW S, NEW q \in Seq(S), q # <<>>
  PROVE  /\ Head(q) \in S
         /\ Head(q) = q[1]
         /\ 1 \in 1..Len(q)
         /\ Tail(q) \in Seq(S)
         /\ \A i \in 1..Len(Tail(q)) : Tail(q)[i] = q[i + 1] /\ i + 1 \in 1..Len(q)
         /\ \A i \in 1..Len(q) : i = 1 \/ (i - 1 \in 1..Len(Tail(q)) /\ Tail(q)[i - 1] = q[i])
  OBVIOUS

(* A further message about the side has the last word,                     *)
LEMMA AppendSays ==
  ASSUME NEW S, NEW q \in Seq(S), NEW m \in S, NEW s, NEW x, Says(m, s)
  PROVE  EndsWith(Append(q, m), s, x, Value(m, s))
<1>1. PICK w : w = Append(q, m)
  OBVIOUS
<1>2. /\ Len(q) + 1 \in 1..Len(w) /\ w[Len(q) + 1] = m /\ Len(q) \in Nat
      /\ \A i \in 1..Len(w) : i = Len(q) + 1 \/ Len(q) + 1 > i
  BY <1>1, AppendFacts
<1>3. ~Silent(w, s)
  BY <1>2 DEF Silent
<1>4. LastSays(w, s, Value(m, s))
  <2> SUFFICES ASSUME NEW i \in 1..Len(w), \A j \in 1..Len(w) : j > i => ~Says(w[j], s)
               PROVE  Value(w[i], s) = Value(m, s)
    BY DEF LastSays
  <2>1. i = Len(q) + 1
    BY <1>2
  <2> QED BY <1>2, <2>1
<1> QED BY <1>1, <1>3, <1>4 DEF EndsWith

(* one about another side changes nothing,                                 *)
LEMMA AppendOther ==
  ASSUME NEW S, NEW q \in Seq(S), NEW m \in S, NEW s, NEW x, NEW v, ~Says(m, s),
         EndsWith(q, s, x, v)
  PROVE  EndsWith(Append(q, m), s, x, v)
<1>1. PICK w : w = Append(q, m)
  OBVIOUS
<1>2. /\ w[Len(q) + 1] = m
      /\ \A i \in 1..Len(q) : i \in 1..Len(w) /\ w[i] = q[i]
      /\ \A i \in 1..Len(w) : i \in 1..Len(q) \/ i = Len(q) + 1
  BY <1>1, AppendFacts
<1>3. Silent(w, s) => Silent(q, s)
  BY <1>2 DEF Silent
<1>4. LastSays(w, s, v)
  <2> SUFFICES ASSUME NEW i \in 1..Len(w), Says(w[i], s),
                      \A j \in 1..Len(w) : j > i => ~Says(w[j], s)
               PROVE  Value(w[i], s) = v
    BY DEF LastSays
  <2>1. i \in 1..Len(q) /\ w[i] = q[i]
    BY <1>2
  <2>2. \A j \in 1..Len(q) : j > i => ~Says(q[j], s)
    BY <1>2
  <2> QED BY <2>1, <2>2 DEF EndsWith, LastSays
<1> QED BY <1>1, <1>3, <1>4 DEF EndsWith

(* and reading a message is what EndsWith is about.                        *)
LEMMA TailEnds ==
  ASSUME NEW S, NEW q \in Seq(S), q # <<>>, NEW s, NEW x, NEW v, EndsWith(q, s, x, v)
  PROVE  EndsWith(Tail(q), s, IF Says(Head(q), s) THEN Value(Head(q), s) ELSE x, v)
<1>1. PICK w : w = Tail(q)
  OBVIOUS
<1>2. PICK m : m = Head(q)
  OBVIOUS
<1>3. /\ m = q[1] /\ 1 \in 1..Len(q)
      /\ \A i \in 1..Len(w) : w[i] = q[i + 1] /\ i + 1 \in 1..Len(q)
      /\ \A i \in 1..Len(q) : i = 1 \/ (i - 1 \in 1..Len(w) /\ w[i - 1] = q[i])
  BY <1>1, <1>2, TailFacts
<1>4. LastSays(w, s, v)
  <2> SUFFICES ASSUME NEW i \in 1..Len(w), Says(w[i], s),
                      \A j \in 1..Len(w) : j > i => ~Says(w[j], s)
               PROVE  Value(w[i], s) = v
    BY DEF LastSays
  <2>1. w[i] = q[i + 1] /\ i + 1 \in 1..Len(q)
    BY <1>3
  <2>2. ASSUME NEW j \in 1..Len(q), j > i + 1
        PROVE  ~Says(q[j], s)
    <3>1. j - 1 \in 1..Len(w) /\ w[j - 1] = q[j] /\ j - 1 > i
      BY <1>3, <2>2
    <3> QED BY <3>1
  <2> QED BY <2>1, <2>2 DEF EndsWith, LastSays
<1>5. ASSUME Silent(w, s)
      PROVE  (IF Says(m, s) THEN Value(m, s) ELSE x) = v
  <2>1. ASSUME NEW j \in 1..Len(q), j > 1 PROVE ~Says(q[j], s)
    <3>1. j - 1 \in 1..Len(w) /\ w[j - 1] = q[j]
      BY <1>3, <2>1
    <3> QED BY <1>5, <3>1 DEF Silent
  <2>2. CASE Says(m, s)
    BY <1>3, <2>1, <2>2 DEF EndsWith, LastSays
  <2>3. CASE ~Says(m, s)
    <3>1. Silent(q, s)
      <4> SUFFICES ASSUME NEW j \in 1..Len(q) PROVE ~Says(q[j], s)
        BY DEF Silent
      <4>1. j = 1 \/ j > 1
        OBVIOUS
      <4> QED BY <1>3, <2>1, <2>3, <4>1
    <3> QED BY <2>3, <3>1 DEF EndsWith
  <2> QED BY <2>2, <2>3
<1> QED BY <1>1, <1>2, <1>4, <1>5 DEF EndsWith

(***************************************************************************)
(* The inductive invariant.                                                *)
(***************************************************************************)
Snapshot == [kind : {"snapshot"}, client : Clients, left : SUBSET Sides, answer : Map]

Edit ==
  [kind : {"edit"}, client : Clients, side : Sides, tp : Levels, seen : Overlay,
   answer : Overlay \cup {None}]

StateOK ==
  /\ overlay \in Map
  /\ puts \in 0..MaxPuts
  /\ req \in [Requests -> {None} \cup Snapshot \cup Edit]
  /\ cast \in [Requests -> Cast \cup {None}]
  /\ \A r \in Requests :
       cast[r] # None => cast[r].todo # {} /\ cast[r].todo \subseteq conn /\ cast[r].at <= puts
  /\ conn \subseteq Clients /\ late \subseteq conn
  /\ wire \in [Clients -> Seq(WireMessage)]
  /\ \A c \in Clients \ conn : wire[c] = <<>>
  /\ shown \in [Clients -> Map]

(* The broadcast of r still has to tell c of side s.                       *)
Waiting(r, c, s) == cast[r] # None /\ cast[r].side = s /\ c \in cast[r].todo

Newest(r, c, s) ==
  Waiting(r, c, s) /\ \A q \in Requests : Waiting(q, c, s) => cast[q].at <= cast[r].at

(* A browser will be told of the overlay by the newest broadcast it waits  *)
(* for or, when it waits for none, by what is on its wire already.         *)
Informed(c, s) ==
  /\ \A r \in Requests : Newest(r, c, s) => cast[r].overlay = overlay[s]
  /\ (\A r \in Requests : ~Waiting(r, c, s)) => EndsWith(wire[c], s, shown[c][s], overlay[s])

AllInformed == \A c \in conn \ late, s \in Sides : Informed(c, s)

Inv == StateOK /\ AllInformed

(* Nobody is connected.                                                    *)
LEMMA InvInit == Init => Inv
<1> SUFFICES ASSUME Init PROVE Inv
  OBVIOUS
<1>1. Nowhere \in Map /\ MaxPuts \in Nat
  BY FanoutAssumption DEF Nowhere, Map
<1>2. StateOK
  BY <1>1 DEF Init, StateOK
<1> QED BY <1>2 DEF Init, Inv, AllInformed

(* What a step leaves alone it leaves known.                               *)
LEMMA InformedStill ==
  ASSUME NEW c, NEW s, Informed(c, s), UNCHANGED cast, wire'[c] = wire[c],
         shown'[c][s] = shown[c][s], overlay'[s] = overlay[s]
  PROVE  Informed(c, s)'
  BY DEF Informed, Newest, Waiting

(***************************************************************************)
(* A broadcast writes to one browser, in a step that may change the state: *)
(* k is the broadcast with what it had to do before the write.             *)
(***************************************************************************)
LEMMA WriteTypes ==
  ASSUME Inv, NEW r \in Requests, NEW k \in Cast, NEW c \in conn, Write(r, k, c),
         k.todo \subseteq conn, k.at <= puts', puts <= puts', puts' \in 0..MaxPuts,
         overlay' \in Map,
         req' \in [Requests -> {None} \cup Snapshot \cup Edit], UNCHANGED <<conn, shown>>
  PROVE  StateOK'
<1>1. PICK m : m = Event(k)
  OBVIOUS
<1>2. m \in WireMessage
  BY <1>1 DEF Event, WireMessage, Cast
<1>3. PICK n : n = IF k.todo = {c} THEN None ELSE [k EXCEPT !.todo = @ \ {c}]
  OBVIOUS
<1>4. /\ wire' = [wire EXCEPT ![c] = Append(@, m)] /\ cast' = [cast EXCEPT ![r] = n]
      /\ c \in k.todo /\ late' \subseteq late \cup {c}
  BY <1>1, <1>3 DEF Write
<1>5. n \in Cast \cup {None} /\ (n # None => n.todo # {} /\ n.todo \subseteq conn /\ n.at = k.at)
  <2>1. CASE k.todo = {c}
    BY <1>3, <2>1
  <2>2. CASE k.todo # {c}
    <3>1. n = [k EXCEPT !.todo = k.todo \ {c}] /\ k.todo \ {c} # {} /\ k.todo \ {c} \subseteq conn
      <4>1. \E e \in k.todo : e # c
        BY <1>4, <2>2
      <4>2. k.todo \ {c} # {} /\ k.todo \ {c} \subseteq conn
        BY <4>1
      <4>3. n = [k EXCEPT !.todo = k.todo \ {c}]
        BY <1>3, <2>2
      <4> QED BY <4>2, <4>3
    <3>2. conn \subseteq Clients
      BY DEF Inv, StateOK
    <3>3. n \in Cast /\ n.todo = k.todo \ {c} /\ n.at = k.at
      BY <3>1, <3>2 DEF Cast
    <3> QED BY <3>1, <3>3
  <2> QED BY <2>1, <2>2
<1>6. c \in Clients /\ wire[c] \in Seq(WireMessage)
  BY DEF Inv, StateOK
<1>7. wire' \in [Clients -> Seq(WireMessage)] /\ \A d \in Clients \ {c} : wire'[d] = wire[d]
  BY <1>2, <1>4, <1>6, AppendFacts DEF Inv, StateOK
<1>8. /\ cast' \in [Requests -> Cast \cup {None}]
      /\ \A q \in Requests : cast'[q] = IF q = r THEN n ELSE cast[q]
  BY <1>4, <1>5 DEF Inv, StateOK
<1>9. \A q \in Requests :
        cast'[q] # None => cast'[q].todo # {} /\ cast'[q].todo \subseteq conn /\ cast'[q].at <= puts'
  <2> SUFFICES ASSUME NEW q \in Requests, cast'[q] # None
               PROVE  cast'[q].todo # {} /\ cast'[q].todo \subseteq conn /\ cast'[q].at <= puts'
    OBVIOUS
  <2>1. CASE q = r
    BY <1>5, <1>8, <2>1
  <2>2. CASE q # r
    <3>1. cast[q] \in Cast /\ cast[q].at <= puts /\ cast[q].todo # {} /\ cast[q].todo \subseteq conn
      BY <1>8, <2>2 DEF Inv, StateOK
    <3>2. cast[q].at \in Nat /\ puts \in Nat /\ puts' \in Nat
      BY <3>1 DEF Cast, Inv, StateOK
    <3> QED BY <1>8, <2>2, <3>1, <3>2
  <2> QED BY <2>1, <2>2
<1>10. late' \subseteq conn
  BY <1>4 DEF Inv, StateOK
<1>11. \A d \in Clients \ conn : wire'[d] = <<>>
  BY <1>7 DEF Inv, StateOK
<1> QED BY <1>7, <1>8, <1>9, <1>10, <1>11 DEF Inv, StateOK

(* What the write does to the browsers' knowledge of another side: nothing. *)
LEMMA WriteOthers ==
  ASSUME Inv, NEW r \in Requests, NEW k \in Cast, NEW c \in conn, Write(r, k, c),
         cast[r] = None \/ cast[r] = k, UNCHANGED shown,
         NEW d \in conn \ late, NEW s \in Sides, s # k.side, overlay'[s] = overlay[s]
  PROVE  Informed(d, s)'
<1>1. PICK m : m = Event(k)
  OBVIOUS
<1>2. m \in WireMessage /\ ~Says(m, s)
  BY <1>1 DEF Event, WireMessage, Cast, Says
<1>3. PICK n : n = IF k.todo = {c} THEN None ELSE [k EXCEPT !.todo = @ \ {c}]
  OBVIOUS
<1>4. wire' = [wire EXCEPT ![c] = Append(@, m)] /\ cast' = [cast EXCEPT ![r] = n]
  BY <1>1, <1>3 DEF Write
<1>5. n # None => n.side = k.side
  BY <1>3 DEF Cast
<1>6. \A q \in Requests : cast'[q] = IF q = r THEN n ELSE cast[q]
  BY <1>4 DEF Inv, StateOK
<1>7. \A q \in Requests : q # r => (Waiting(q, d, s)' <=> Waiting(q, d, s))
  BY <1>6 DEF Waiting
<1>8. ~Waiting(r, d, s)' /\ ~Waiting(r, d, s)
  BY <1>5, <1>6 DEF Waiting
<1>9. Informed(d, s)
  BY DEF Inv, AllInformed
<1>10. \A q \in Requests : Newest(q, d, s)' => Newest(q, d, s) /\ cast'[q] = cast[q]
  BY <1>6, <1>7, <1>8 DEF Newest
<1>11. ASSUME EndsWith(wire[d], s, shown[d][s], overlay[s])
       PROVE  EndsWith(wire'[d], s, shown'[d][s], overlay'[s])
  <2>1. wire[d] \in Seq(WireMessage) /\ d \in Clients /\ c \in Clients
        /\ wire \in [Clients -> Seq(WireMessage)]
    BY DEF Inv, StateOK
  <2>2. CASE d = c
    <3>1. wire'[d] = Append(wire[d], m)
      BY <1>4, <2>1, <2>2
    <3>2. EndsWith(Append(wire[d], m), s, shown[d][s], overlay[s])
      BY <1>2, <1>11, <2>1, AppendOther
    <3> QED BY <3>1, <3>2
  <2>3. CASE d # c
    <3>1. wire'[d] = wire[d]
      BY <1>4, <2>1, <2>3
    <3> QED BY <1>11, <3>1
  <2> QED BY <2>2, <2>3
<1> QED BY <1>7, <1>8, <1>9, <1>10, <1>11 DEF Informed

(* The message of a broadcast is the last about its side.                  *)
LEMMA WriteSays ==
  ASSUME Inv, NEW r \in Requests, NEW k \in Cast, NEW c \in conn, Write(r, k, c), NEW x
  PROVE  EndsWith(wire'[c], k.side, x, k.overlay)
<1>1. PICK m : m = Event(k)
  OBVIOUS
<1>2. m \in WireMessage /\ Says(m, k.side) /\ Value(m, k.side) = k.overlay
  BY <1>1 DEF Event, WireMessage, Cast, Says, Value
<1>3. wire[c] \in Seq(WireMessage) /\ c \in Clients /\ wire \in [Clients -> Seq(WireMessage)]
  BY DEF Inv, StateOK
<1>4. wire'[c] = Append(wire[c], m)
  BY <1>1, <1>3 DEF Write
<1> QED BY <1>2, <1>3, <1>4, AppendSays

(* Who waits after a write: those who did, but for the browser written to. *)
LEMMA WriteWaiting ==
  ASSUME Inv, NEW r \in Requests, NEW k \in Cast, NEW c \in conn, Write(r, k, c),
         NEW d \in conn
  PROVE  /\ \A q \in Requests : q # r => cast'[q] = cast[q]
         /\ d # c /\ d \in k.todo =>
              /\ Waiting(r, d, k.side)' /\ cast'[r].overlay = k.overlay /\ cast'[r].at = k.at
         /\ \A s \in Sides : Waiting(r, d, s)' => d # c /\ d \in k.todo /\ s = k.side
<1>1. PICK n : n = IF k.todo = {c} THEN None ELSE [k EXCEPT !.todo = @ \ {c}]
  OBVIOUS
<1>2. cast' = [cast EXCEPT ![r] = n]
  BY <1>1 DEF Write
<1>3. \A q \in Requests : cast'[q] = IF q = r THEN n ELSE cast[q]
  BY <1>2 DEF Inv, StateOK
<1>4. CASE k.todo = {c}
  BY <1>1, <1>3, <1>4 DEF Waiting
<1>5. CASE k.todo # {c}
  <2>1. n \in Cast
    BY <1>1, <1>5 DEF Cast
  <2>2. n # None
    BY <2>1, NoneAssumption
  <2>3. n.side = k.side /\ n.overlay = k.overlay /\ n.at = k.at /\ n.todo = k.todo \ {c}
    BY <1>1, <1>5 DEF Cast
  <2> QED BY <1>3, <2>2, <2>3 DEF Waiting
<1> QED BY <1>4, <1>5

(* A broadcast goes on.                                                    *)
LEMMA SendNextInforms ==
  ASSUME Inv, NEW r \in Requests, SendNext(r)
  PROVE  Inv'
<1>1. PICK k : k = cast[r]
  OBVIOUS
<1>2. k \in Cast /\ k # None /\ k.todo \subseteq conn /\ k.at <= puts
  BY <1>1 DEF SendNext, Inv, StateOK
<1>3. PICK c \in k.todo : Write(r, k, c)
  BY <1>1 DEF SendNext
<1>4. c \in conn /\ UNCHANGED <<overlay, puts, req, conn, shown>>
  BY <1>2 DEF SendNext
<1>5. StateOK'
  <2>1. /\ puts <= puts' /\ k.at <= puts' /\ puts' \in 0..MaxPuts /\ overlay' \in Map
        /\ req' \in [Requests -> {None} \cup Snapshot \cup Edit]
    BY <1>2, <1>4, FanoutAssumption DEF Inv, StateOK
  <2> QED BY <1>2, <1>3, <1>4, <2>1, WriteTypes
<1>6. ASSUME NEW d \in conn \ late', NEW s \in Sides
      PROVE  Informed(d, s)'
  <2>1. d \in conn \ late
    BY <1>3 DEF Write
  <2>2. Informed(d, s)
    BY <2>1 DEF Inv, AllInformed
  <2>3. CASE s # k.side
    <3>1. overlay'[s] = overlay[s] /\ shown' = shown /\ cast[r] = k
      BY <1>1, <1>4
    <3> QED BY <1>2, <1>3, <1>4, <2>1, <2>3, <3>1, WriteOthers
  <2>4. CASE s = k.side
    <3>1. /\ \A q \in Requests : q # r => cast'[q] = cast[q]
          /\ d # c /\ d \in k.todo =>
               /\ Waiting(r, d, s)' /\ cast'[r].overlay = k.overlay /\ cast'[r].at = k.at
          /\ Waiting(r, d, s)' => d # c /\ d \in k.todo
      BY <1>2, <1>3, <1>4, <2>4, WriteWaiting
    <3>2. \A q \in Requests : q # r => (Waiting(q, d, s)' <=> Waiting(q, d, s))
      BY <3>1 DEF Waiting
    <3>3. CASE d # c
      <4>1. Waiting(r, d, s)' <=> Waiting(r, d, s)
        BY <1>1, <1>2, <2>4, <3>1, <3>3 DEF Waiting
      <4>2. \A q \in Requests : Waiting(q, d, s) =>
              cast'[q].at = cast[q].at /\ cast'[q].overlay = cast[q].overlay
        BY <1>1, <3>1, <3>2, <3>3, <4>1 
      <4>3. \A q \in Requests : Newest(q, d, s)' => Newest(q, d, s)
        BY <3>2, <4>1, <4>2 DEF Newest
      <4>4. wire'[d] = wire[d]
        BY <1>3, <3>3, <2>1 DEF Write, Inv, StateOK
      <4>5. \A q \in Requests : Newest(q, d, s)' => cast'[q].overlay = overlay'[s]
        BY <1>4, <2>2, <4>2, <4>3 DEF Informed, Newest
      <4>6. (\A q \in Requests : ~Waiting(q, d, s)') =>
              EndsWith(wire'[d], s, shown'[d][s], overlay'[s])
        BY <1>4, <2>2, <3>2, <4>1, <4>4 DEF Informed
      <4> QED BY <4>5, <4>6 DEF Informed
    <3>4. CASE d = c
      <4>1. Waiting(r, d, s) /\ ~Waiting(r, d, s)'
        BY <1>1, <1>2, <1>3, <2>4, <3>1, <3>4 DEF Waiting
      <4>2. ~Overtakes(r, k, c)
        BY <1>3, <3>4 DEF Write
      <4>3. \A q \in Requests : q # r /\ Waiting(q, d, s) => ~(cast[q].at < k.at)
        BY <2>4, <3>4, <4>2 DEF Overtakes, Waiting
      <4>4. \A q \in Requests : Waiting(q, d, s) => cast[q].at \in Nat /\ k.at \in Nat
        BY <1>2 DEF Waiting, Inv, StateOK, Cast
      <4>5. \A q \in Requests : Newest(q, d, s)' => Newest(q, d, s) /\ cast'[q] = cast[q]
        <5> SUFFICES ASSUME NEW q \in Requests, Newest(q, d, s)'
                     PROVE  Newest(q, d, s) /\ cast'[q] = cast[q]
          OBVIOUS
        <5>1. q # r /\ Waiting(q, d, s) /\ cast'[q] = cast[q]
          BY <3>1, <3>2, <4>1 DEF Newest
        <5>2. cast[r].at <= cast[q].at
          BY <1>1, <4>3, <4>4, <5>1
        <5>3. \A p \in Requests : p # r /\ Waiting(p, d, s) => cast[p].at <= cast[q].at
          BY <3>1, <3>2, <5>1 DEF Newest
        <5> QED BY <5>1, <5>2, <5>3 DEF Newest
      <4>6. \A q \in Requests : Newest(q, d, s)' => cast'[q].overlay = overlay'[s]
        BY <1>4, <2>2, <4>5 DEF Informed
      <4>7. ASSUME \A q \in Requests : ~Waiting(q, d, s)'
            PROVE  EndsWith(wire'[d], s, shown'[d][s], overlay'[s])
        <5>1. \A q \in Requests : Waiting(q, d, s) => q = r
          BY <3>2, <4>7
        <5>2. cast[r].at <= cast[r].at
          BY <4>1, <4>4
        <5>3. Newest(r, d, s)
          BY <4>1, <5>1, <5>2 DEF Newest
        <5>4. k.overlay = overlay[s]
          BY <1>1, <2>2, <5>3 DEF Informed
        <5> QED BY <1>2, <1>3, <1>4, <2>4, <3>4, <5>4, WriteSays
      <4> QED BY <4>6, <4>7 DEF Informed
    <3> QED BY <3>3, <3>4
  <2> QED BY <2>3, <2>4
<1>7. AllInformed'
  BY <1>4, <1>6 DEF AllInformed
<1> QED BY <1>5, <1>7 DEF Inv

(***************************************************************************)
(* A change of an overlay: it is told of last, now or by a broadcast newer *)
(* than all.                                                               *)
(***************************************************************************)
LEMMA PutInforms ==
  ASSUME Inv, NEW r \in Requests, NEW s \in Sides, NEW o \in Overlay \cup {None}, Put(r, s, o),
         req' \in [Requests -> {None} \cup Snapshot \cup Edit], UNCHANGED <<conn, shown>>
  PROVE  Inv'
<1>1. PICK k : k = [side |-> s, overlay |-> o, at |-> puts + 1, todo |-> conn]
  OBVIOUS
<1>2. /\ cast[r] = None /\ puts' = puts + 1 /\ puts' \in 0..MaxPuts /\ puts \in Nat
      /\ overlay' = [overlay EXCEPT ![s] = o] /\ overlay \in Map
      /\ conn \subseteq Clients
  BY FanoutAssumption DEF Put, Inv, StateOK
<1>3. k \in Cast /\ k.side = s /\ k.overlay = o /\ k.at = puts + 1 /\ k.todo = conn
  BY <1>1, <1>2 DEF Cast
<1>4. /\ overlay' \in Map /\ overlay'[s] = o
      /\ \A e \in Sides \ {s} : overlay'[e] = overlay[e]
  BY <1>2 DEF Map
<1>5. CASE conn = {}
  <2>1. UNCHANGED <<cast, wire, late>>
    BY <1>5 DEF Put, Listed
  <2>2. StateOK'
    <3>1. \A q \in Requests :
            cast[q] # None => cast[q].todo # {} /\ cast[q].todo \subseteq conn /\ cast[q].at <= puts'
      <4>1. \A q \in Requests :
              cast[q] # None => cast[q].todo # {} /\ cast[q].todo \subseteq conn /\ cast[q].at <= puts
                                /\ cast[q].at \in Nat
        BY DEF Inv, StateOK, Cast
      <4> QED BY <1>2, <4>1
    <3> QED BY <1>2, <1>4, <2>1, <3>1 DEF Inv, StateOK
  <2> QED BY <1>5, <2>2 DEF Inv, AllInformed
<1>6. CASE conn # {}
  <2>1. PICK c \in conn : Write(r, k, c)
    BY <1>1, <1>6 DEF Put, Listed
  <2>2. StateOK'
    <3>1. k.todo \subseteq conn /\ k.at <= puts' /\ puts <= puts'
      BY <1>2, <1>3
    <3> QED BY <1>2, <1>3, <1>4, <2>1, <3>1, WriteTypes
  <2>3. ASSUME NEW d \in conn \ late', NEW e \in Sides
        PROVE  Informed(d, e)'
    <3>1. d \in conn \ late
      BY <2>1 DEF Write
    <3>2. CASE e # s
      <4>1. overlay'[e] = overlay[e] /\ e # k.side /\ shown' = shown
        BY <1>3, <1>4, <3>2
      <4> QED BY <1>2, <1>3, <2>1, <3>1, <4>1, WriteOthers
    <3>3. CASE e = s
      <4>1. /\ \A q \in Requests : q # r => cast'[q] = cast[q]
            /\ d # c => Waiting(r, d, s)' /\ cast'[r].overlay = o /\ cast'[r].at = puts + 1
            /\ Waiting(r, d, s)' => d # c
        BY <1>3, <2>1, WriteWaiting
      <4>2. \A q \in Requests : q # r => (Waiting(q, d, s)' <=> Waiting(q, d, s))
        BY <4>1 DEF Waiting
      <4>3. \A q \in Requests : Waiting(q, d, s) => cast[q].at \in Nat /\ cast[q].at <= puts
        BY DEF Waiting, Inv, StateOK, Cast
      <4>4. CASE d # c
        <5>1. \A q \in Requests : Newest(q, d, s)' => q = r
          <6> SUFFICES ASSUME NEW q \in Requests, Newest(q, d, s)', q # r PROVE FALSE
            OBVIOUS
          <6>1. Waiting(q, d, s) /\ cast'[q] = cast[q] /\ cast'[r].at <= cast'[q].at
            BY <4>1, <4>2, <4>4 DEF Newest
          <6> QED BY <1>2, <4>1, <4>3, <4>4, <6>1
        <5>2. \A q \in Requests : Newest(q, d, s)' => cast'[q].overlay = overlay'[s]
          BY <1>4, <4>1, <4>4, <5>1
        <5> QED BY <3>3, <4>1, <4>4, <5>2 DEF Informed
      <4>5. CASE d = c
        <5>1. ~Overtakes(r, k, c)
          BY <2>1, <4>5 DEF Write
        <5>2. ASSUME NEW q \in Requests, Waiting(q, d, s)'
              PROVE  FALSE
          <6>1. q # r /\ Waiting(q, d, s)
            BY <4>1, <4>2, <4>5, <5>2
          <6>2. cast[q].at < k.at
            BY <1>2, <1>3, <4>3, <6>1
          <6> QED BY <1>3, <4>5, <5>1, <6>1, <6>2 DEF Overtakes, Waiting
        <5>3. EndsWith(wire'[d], s, shown'[d][s], overlay'[s])
          BY <1>3, <1>4, <2>1, <4>5, WriteSays
        <5> QED BY <3>3, <5>2, <5>3 DEF Informed, Newest
      <4> QED BY <4>4, <4>5
    <3> QED BY <3>2, <3>3
  <2> QED BY <2>2, <2>3 DEF Inv, AllInformed
<1> QED BY <1>5, <1>6

(***************************************************************************)
(* The requests.                                                           *)
(***************************************************************************)
LEMMA RequestKinds ==
  ASSUME Inv, NEW r \in Requests, req[r] # None
  PROVE  /\ req[r] \in Snapshot \cup Edit
         /\ req[r].kind = "snapshot" => req[r] \in Snapshot
         /\ req[r].kind = "edit" => req[r] \in Edit
  BY DEF Inv, StateOK, Snapshot, Edit

(* A step that touches neither overlays nor browsers.                      *)
LEMMA RequestSteps ==
  ASSUME Inv, UNCHANGED <<overlay, puts, cast, conn, wire, shown, late>>,
         req' \in [Requests -> {None} \cup Snapshot \cup Edit]
  PROVE  Inv'
<1>1. StateOK'
  BY DEF Inv, StateOK
<1>2. AllInformed'
  BY DEF Inv, AllInformed, Informed, Newest, Waiting
<1> QED BY <1>1, <1>2 DEF Inv

LEMMA AsksInform ==
  ASSUME Inv, NEW r \in Requests, NEW q \in Snapshot \cup Edit, Ask(r, q)
  PROVE  Inv'
<1>1. req' \in [Requests -> {None} \cup Snapshot \cup Edit]
  BY DEF Ask, Inv, StateOK
<1> QED BY <1>1, RequestSteps DEF Ask

LEMMA SnapshotInforms ==
  ASSUME Inv, NEW r \in Requests, WriteSnapshot(r)
  PROVE  Inv'
<1>1. PICK q : q = req[r]
  OBVIOUS
<1>2. q \in Snapshot
  BY <1>1, RequestKinds DEF WriteSnapshot
<1>3. PICK s \in NextSides(q) : /\ Put(r, s, q.answer[s])
                                /\ req' = [req EXCEPT ![r].left = @ \ {s}]
  BY <1>1 DEF WriteSnapshot
<1>4. s \in Sides /\ q.answer[s] \in Overlay \cup {None}
  BY <1>2 DEF NextSides, Snapshot, Map
<1>5. [q EXCEPT !.left = @ \ {s}] \in Snapshot
  BY <1>2 DEF Snapshot
<1>6. req' \in [Requests -> {None} \cup Snapshot \cup Edit]
  BY <1>1, <1>3, <1>5 DEF Inv, StateOK
<1>7. UNCHANGED <<conn, shown>>
  BY DEF WriteSnapshot
<1> QED BY <1>3, <1>4, <1>6, <1>7, PutInforms

LEMMA PatchInforms ==
  ASSUME Inv, NEW r \in Requests, Patch(r)
  PROVE  Inv'
<1>1. PICK q : q = req[r]
  OBVIOUS
<1>2. q \in Edit
  BY <1>1, RequestKinds DEF Patch
<1>3. PICK s : s = q.side
  OBVIOUS
<1>4. PICK o : o = [(IF overlay[s] = None THEN q.seen ELSE overlay[s]) EXCEPT !.tp = q.tp]
  OBVIOUS
<1>5. /\ req' = [req EXCEPT ![r].answer = o] /\ UNCHANGED <<conn, shown>>
      /\ IF overlay[s] = None THEN UNCHANGED <<overlay, puts, cast, wire, late>> ELSE Put(r, s, o)
  BY <1>1, <1>3, <1>4 DEF Patch
<1>6. s \in Sides /\ q.tp \in Prices /\ q.seen \in Overlay
  BY <1>2, <1>3 DEF Edit, Prices
<1>7. o \in Overlay
  <2>1. overlay[s] \in Overlay \cup {None}
    BY <1>6 DEF Inv, StateOK, Map
  <2> QED BY <1>4, <1>6, <2>1 DEF Overlay
<1>8. [q EXCEPT !.answer = o] \in Edit
  BY <1>2, <1>7 DEF Edit
<1>9. req' \in [Requests -> {None} \cup Snapshot \cup Edit]
  BY <1>1, <1>5, <1>8 DEF Inv, StateOK
<1>10. CASE overlay[s] = None
  BY <1>5, <1>9, <1>10, RequestSteps
<1>11. CASE overlay[s] # None
  BY <1>5, <1>6, <1>7, <1>9, <1>11, PutInforms
<1> QED BY <1>10, <1>11

(* An answer is what the server has, or the browser is late.               *)
LEMMA RepliesInform ==
  ASSUME Inv, NEW d \in Clients, NEW x \in Map,
         UNCHANGED <<overlay, puts, cast, conn, wire>>,
         d \in conn => (d \in late' \/ \A s \in Sides : x[s] = shown[d][s] \/ x[s] = overlay[s]),
         \/ UNCHANGED <<shown, late>>
         \/ d \in conn /\ shown' = [shown EXCEPT ![d] = x] /\ late' \in {late, late \cup {d}},
         req' \in [Requests -> {None} \cup Snapshot \cup Edit]
  PROVE  Inv'
<1>1. CASE UNCHANGED <<shown, late>>
  BY <1>1, RequestSteps
<1>2. CASE d \in conn /\ shown' = [shown EXCEPT ![d] = x] /\ late' \in {late, late \cup {d}}
  <2>1. /\ shown' \in [Clients -> Map] /\ shown'[d] = x
        /\ \A c \in Clients \ {d} : shown'[c] = shown[c]
    BY <1>2 DEF Inv, StateOK
  <2>2. StateOK'
    BY <1>2, <2>1 DEF Inv, StateOK
  <2>3. ASSUME NEW c \in conn \ late', NEW s \in Sides
        PROVE  Informed(c, s)'
    <3>1. c \in conn \ late /\ c \in Clients
      BY <1>2 DEF Inv, StateOK
    <3>2. Informed(c, s)
      BY <3>1 DEF Inv, AllInformed
    <3>3. shown'[c][s] = shown[c][s] \/ shown'[c][s] = overlay[s]
      BY <1>2, <2>1, <2>3, <3>1
    <3>4. EndsWith(wire[c], s, shown[c][s], overlay[s])
            => EndsWith(wire[c], s, shown'[c][s], overlay[s])
      BY <3>3 DEF EndsWith
    <3>5. \A q \in Requests : (Newest(q, c, s)' <=> Newest(q, c, s))
                              /\ (Waiting(q, c, s)' <=> Waiting(q, c, s))
      BY DEF Newest, Waiting
    <3> QED BY <3>2, <3>4, <3>5 DEF Informed
  <2> QED BY <2>2, <2>3 DEF Inv, AllInformed
<1> QED BY <1>1, <1>2

LEMMA ReplyInforms ==
  ASSUME Inv, NEW r \in Requests, Reply(r)
  PROVE  Inv'
<1>1. PICK d : d = req[r].client
  OBVIOUS
<1>2. PICK x : x = req[r].answer
  OBVIOUS
<1>3. req[r] \in Snapshot
  BY RequestKinds DEF Reply
<1>4. d \in Clients /\ x \in Map
  BY <1>1, <1>2, <1>3 DEF Snapshot
<1>5. req' \in [Requests -> {None} \cup Snapshot \cup Edit]
  BY DEF Reply, Inv, StateOK
<1>6. /\ UNCHANGED <<overlay, puts, cast, conn, wire>>
      /\ \/ d \notin conn /\ UNCHANGED <<shown, late>>
         \/ /\ d \in conn /\ shown' = [shown EXCEPT ![d] = x]
            /\ late' = IF x # overlay THEN late \cup {d} ELSE late
  BY <1>1, <1>2 DEF Reply
<1> QED BY <1>4, <1>5, <1>6, RepliesInform

LEMMA ReplyEditInforms ==
  ASSUME Inv, NEW r \in Requests, ReplyEdit(r)
  PROVE  Inv'
<1>1. PICK d : d = req[r].client
  OBVIOUS
<1>2. PICK e : e = req[r].side
  OBVIOUS
<1>3. PICK o : o = req[r].answer
  OBVIOUS
<1>4. req[r] \in Edit
  BY RequestKinds DEF ReplyEdit
<1>5. d \in Clients /\ e \in Sides /\ o \in Overlay \cup {None}
  BY <1>1, <1>2, <1>3, <1>4 DEF Edit
<1>6. PICK x : x = [shown[d] EXCEPT ![e] = o]
  OBVIOUS
<1>7. shown[d] \in Map /\ shown \in [Clients -> Map]
  BY <1>5 DEF Inv, StateOK
<1>8. x \in Map /\ x[e] = o /\ \A s \in Sides \ {e} : x[s] = shown[d][s]
  BY <1>5, <1>6, <1>7 DEF Map
<1>9. req' \in [Requests -> {None} \cup Snapshot \cup Edit]
  BY DEF ReplyEdit, Inv, StateOK
<1>10. /\ UNCHANGED <<overlay, puts, cast, conn, wire>>
       /\ \/ d \notin conn /\ UNCHANGED <<shown, late>>
          \/ /\ d \in conn /\ shown' = [shown EXCEPT ![d] = x]
             /\ late' = IF o # overlay[e] THEN late \cup {d} ELSE late
  <2>1. d \in conn => shown' = [shown EXCEPT ![d][e] = o]
    BY <1>1, <1>2, <1>3 DEF ReplyEdit
  <2>2. [shown EXCEPT ![d][e] = o] = [shown EXCEPT ![d] = x]
    BY <1>5, <1>6, <1>7
  <2> QED BY <1>1, <1>2, <1>3, <2>1, <2>2 DEF ReplyEdit
<1>11. d \in late' \/ d \notin conn \/ \A s \in Sides : x[s] = shown[d][s] \/ x[s] = overlay[s]
  BY <1>8, <1>10
<1>12. \/ UNCHANGED <<shown, late>>
       \/ d \in conn /\ shown' = [shown EXCEPT ![d] = x] /\ late' \in {late, late \cup {d}}
  BY <1>10
<1> QED BY <1>5, <1>8, <1>9, <1>10, <1>11, <1>12, RepliesInform

(***************************************************************************)
(* The browsers.                                                           *)
(***************************************************************************)
(* A new one is in no broadcast's list and is sent the state first,        *)
LEMMA ConnectInforms ==
  ASSUME Inv, NEW d \in Clients, Connect(d)
  PROVE  Inv'
<1>1. PICK m : m = [kind |-> "snapshot", overlays |-> overlay]
  OBVIOUS
<1>2. m \in WireMessage /\ m.kind = "snapshot" /\ m.overlays = overlay
  BY <1>1 DEF WireMessage, Inv, StateOK
<1>3. /\ d \notin conn /\ conn' = conn \cup {d} /\ wire' = [wire EXCEPT ![d] = <<m>>]
      /\ UNCHANGED <<overlay, puts, req, cast, shown, late>>
  BY <1>1 DEF Connect
<1>4. /\ wire' \in [Clients -> Seq(WireMessage)] /\ wire'[d] = <<m>>
      /\ \A c \in Clients \ {d} : wire'[c] = wire[c]
  BY <1>2, <1>3 DEF Inv, StateOK
<1>5. \A q \in Requests :
        cast[q] # None => cast[q].todo # {} /\ cast[q].todo \subseteq conn' /\ cast[q].at <= puts
  <2> SUFFICES ASSUME NEW q \in Requests, cast[q] # None
               PROVE  cast[q].todo # {} /\ cast[q].todo \subseteq conn' /\ cast[q].at <= puts
    OBVIOUS
  <2>1. cast[q].todo # {} /\ cast[q].todo \subseteq conn /\ cast[q].at <= puts
    BY DEF Inv, StateOK
  <2>2. cast[q].todo \subseteq conn' /\ cast[q].todo # {}
    BY <1>3, <2>1
  <2> QED BY <2>1, <2>2
<1>6. StateOK'
  BY <1>3, <1>4, <1>5 DEF Inv, StateOK
<1>7. ASSUME NEW c \in conn' \ late', NEW s \in Sides
      PROVE  Informed(c, s)'
  <2>1. CASE c = d
    <3>1. \A q \in Requests : ~Waiting(q, c, s)'
      BY <1>3, <2>1 DEF Waiting, Inv, StateOK
    <3>2. LastSays(<<m>>, s, overlay[s]) /\ ~Silent(<<m>>, s)
      <4>1. Says(m, s) /\ Value(m, s) = overlay[s]
        BY <1>2 DEF Says, Value
      <4>2. PICK w : w = <<m>>
        OBVIOUS
      <4>3. Len(w) = 1 /\ w[1] = m /\ 1 \in 1..Len(w) /\ \A i \in 1..Len(w) : w[i] = m
        BY <4>2
      <4>4. LastSays(w, s, overlay[s]) /\ ~Silent(w, s)
        BY <4>1, <4>3 DEF LastSays, Silent
      <4> QED BY <4>2, <4>4
    <3>3. EndsWith(wire'[c], s, shown'[c][s], overlay'[s])
      BY <1>3, <1>4, <2>1, <3>2 DEF EndsWith
    <3> QED BY <3>1, <3>3 DEF Informed, Newest
  <2>2. CASE c # d
    <3>1. c \in conn \ late /\ c \in Clients /\ wire'[c] = wire[c]
      BY <1>3, <1>4, <2>2 DEF Inv, StateOK
    <3>2. Informed(c, s)
      BY <3>1 DEF Inv, AllInformed
    <3> QED BY <1>3, <3>1, <3>2, InformedStill
  <2> QED BY <2>1, <2>2
<1> QED BY <1>6, <1>7 DEF Inv, AllInformed

(* reading goes on towards the last message,                               *)
LEMMA ReceiveInforms ==
  ASSUME Inv, NEW d \in Clients, Receive(d)
  PROVE  Inv'
<1>1. PICK q : q = wire[d]
  OBVIOUS
<1>2. PICK m : m = Head(q)
  OBVIOUS
<1>3. q \in Seq(WireMessage) /\ q # <<>> /\ wire \in [Clients -> Seq(WireMessage)] /\ d \in conn
  BY <1>1 DEF Receive, Inv, StateOK
<1>4. m \in WireMessage /\ Tail(q) \in Seq(WireMessage)
  BY <1>2, <1>3, TailFacts
<1>5. PICK w : w = Tail(q)
  OBVIOUS
<1>6. /\ UNCHANGED <<overlay, puts, req, cast, conn, late>> /\ wire'[d] = w
      /\ \A c \in Clients \ {d} : wire'[c] = wire[c]
      /\ wire' \in [Clients -> Seq(WireMessage)]
  BY <1>1, <1>3, <1>4, <1>5 DEF Receive
<1>7. /\ m.kind \in {"snapshot", "update"}
      /\ m.kind = "snapshot" => m.overlays \in Map
      /\ m.kind = "update" => m.side \in Sides /\ m.overlay \in Overlay \cup {None}
  BY <1>4 DEF WireMessage
<1>8. PICK x : x = IF m.kind = "snapshot" THEN m.overlays ELSE [shown[d] EXCEPT ![m.side] = m.overlay]
  OBVIOUS
<1>9. shown[d] \in Map /\ shown \in [Clients -> Map]
  BY DEF Inv, StateOK
<1>10. x \in Map /\ \A s \in Sides : x[s] = IF Says(m, s) THEN Value(m, s) ELSE shown[d][s]
  <2>1. CASE m.kind = "snapshot"
    BY <1>7, <1>8, <2>1 DEF Says, Value
  <2>2. CASE m.kind = "update"
    BY <1>7, <1>8, <1>9, <2>2 DEF Map, Says, Value
  <2> QED BY <1>7, <2>1, <2>2
<1>11. shown' = [shown EXCEPT ![d] = x]
  BY <1>1, <1>2, <1>8 DEF Receive
<1>12. /\ shown' \in [Clients -> Map] /\ shown'[d] = x
       /\ \A c \in Clients \ {d} : shown'[c] = shown[c]
  BY <1>9, <1>10, <1>11
<1>13. StateOK'
  <2>1. \A c \in Clients \ conn : wire'[c] = <<>>
    BY <1>3, <1>6 DEF Inv, StateOK
  <2> QED BY <1>6, <1>12, <2>1 DEF Inv, StateOK
<1>14. ASSUME NEW c \in conn \ late, NEW s \in Sides
       PROVE  Informed(c, s)'
  <2>1. Informed(c, s) /\ c \in Clients
    BY DEF Inv, AllInformed, StateOK
  <2>2. CASE c = d
    <3>1. EndsWith(q, s, shown[d][s], overlay[s]) => EndsWith(w, s, x[s], overlay[s])
      BY <1>2, <1>3, <1>5, <1>10, TailEnds
    <3>2. \A r \in Requests : (Newest(r, c, s)' <=> Newest(r, c, s))
                              /\ (Waiting(r, c, s)' <=> Waiting(r, c, s))
      BY <1>6 DEF Newest, Waiting
    <3> QED BY <1>1, <1>6, <1>12, <2>1, <2>2, <3>1, <3>2 DEF Informed
  <2>3. CASE c # d
    <3>1. wire'[c] = wire[c] /\ shown'[c][s] = shown[c][s]
      BY <1>6, <1>12, <2>1, <2>3
    <3> QED BY <1>6, <2>1, <3>1, InformedStill
  <2> QED BY <2>2, <2>3
<1>15. AllInformed'
  BY <1>6, <1>14 DEF AllInformed
<1> QED BY <1>13, <1>15 DEF Inv

(* one that leaves is left out by the broadcasts,                          *)
LEMMA DisconnectInforms ==
  ASSUME Inv, NEW d \in Clients, Disconnect(d)
  PROVE  Inv'
<1>1. /\ UNCHANGED <<overlay, puts, req>> /\ conn' = conn \ {d} /\ late' = late \ {d}
      /\ cast' = [r \in Requests |-> Without(cast[r], {d})]
      /\ wire' = [wire EXCEPT ![d] = <<>>] /\ shown' = [shown EXCEPT ![d] = Nowhere]
      /\ Nowhere \in Map
  BY DEF Disconnect, Nowhere, Map
<1>2. /\ wire' \in [Clients -> Seq(WireMessage)] /\ wire'[d] = <<>>
      /\ shown' \in [Clients -> Map]
      /\ \A c \in Clients \ {d} : wire'[c] = wire[c] /\ shown'[c] = shown[c]
      /\ conn \subseteq Clients
  BY <1>1 DEF Inv, StateOK
<1>3. ASSUME NEW r \in Requests
      PROVE  /\ cast'[r] \in Cast \cup {None}
             /\ cast'[r] # None =>
                  /\ cast[r] # None /\ cast'[r].todo = cast[r].todo \ {d} /\ cast'[r].todo # {}
                  /\ cast'[r].side = cast[r].side /\ cast'[r].at = cast[r].at
                  /\ cast'[r].overlay = cast[r].overlay
             /\ cast'[r] = None => cast[r] = None \/ cast[r].todo \subseteq {d}
  <2>1. PICK k : k = cast[r]
    OBVIOUS
  <2>2. k \in Cast \cup {None} /\ cast'[r] = Without(k, {d})
    BY <1>1, <2>1 DEF Inv, StateOK
  <2>3. CASE k = None \/ k.todo \subseteq {d}
    BY <2>1, <2>2, <2>3 DEF Without
  <2>4. CASE ~(k = None \/ k.todo \subseteq {d})
    <3>1. k \in Cast /\ cast'[r] = [k EXCEPT !.todo = k.todo \ {d}] /\ k.todo \ {d} # {}
      BY <2>2, <2>4 DEF Without
    <3>2. cast'[r] \in Cast /\ cast'[r].todo = k.todo \ {d} /\ cast'[r].side = k.side
          /\ cast'[r].at = k.at /\ cast'[r].overlay = k.overlay
      BY <3>1 DEF Cast
    <3>3. cast'[r] # None
      BY <3>2, NoneAssumption
    <3> QED BY <2>1, <2>4, <3>1, <3>2, <3>3
  <2> QED BY <2>3, <2>4
<1>4. StateOK'
  <2>1. cast' \in [Requests -> Cast \cup {None}]
    BY <1>1, <1>3
  <2>2. ASSUME NEW r \in Requests, cast'[r] # None
        PROVE  cast'[r].todo # {} /\ cast'[r].todo \subseteq conn' /\ cast'[r].at <= puts
    <3>1. cast[r].todo # {} /\ cast[r].todo \subseteq conn /\ cast[r].at <= puts
      BY <1>3, <2>2 DEF Inv, StateOK
    <3>2. cast'[r].todo \subseteq conn' /\ cast'[r].todo # {}
      BY <1>1, <1>3, <2>2, <3>1
    <3> QED BY <1>3, <2>2, <3>1, <3>2
  <2>3. \A c \in Clients \ conn' : wire'[c] = <<>>
    BY <1>1, <1>2 DEF Inv, StateOK
  <2> QED BY <1>1, <1>2, <2>1, <2>2, <2>3 DEF Inv, StateOK
<1>5. ASSUME NEW c \in conn' \ late', NEW s \in Sides
      PROVE  Informed(c, s)'
  <2>1. c \in conn \ late /\ c # d /\ wire'[c] = wire[c] /\ shown'[c] = shown[c]
    BY <1>1, <1>2
  <2>2. Informed(c, s)
    BY <2>1 DEF Inv, AllInformed
  <2>3. \A r \in Requests : (Waiting(r, c, s)' <=> Waiting(r, c, s))
                            /\ (Waiting(r, c, s) => cast'[r].at = cast[r].at
                                                    /\ cast'[r].overlay = cast[r].overlay)
    BY <1>3, <2>1 DEF Waiting
  <2>4. \A r \in Requests : Newest(r, c, s)' => Newest(r, c, s)
    BY <2>3 DEF Newest
  <2>5. \A r \in Requests : Newest(r, c, s)' => cast'[r].overlay = overlay'[s]
    BY <1>1, <2>2, <2>3, <2>4 DEF Informed, Newest
  <2>6. (\A r \in Requests : ~Waiting(r, c, s)') => EndsWith(wire'[c], s, shown'[c][s], overlay'[s])
    BY <1>1, <2>1, <2>2, <2>3 DEF Informed
  <2> QED BY <2>5, <2>6 DEF Informed
<1> QED BY <1>4, <1>5 DEF Inv, AllInformed

(* and a restart leaves nobody.                                            *)
LEMMA RestartInforms ==
  ASSUME Inv, ApiRestart
  PROVE  Inv'
<1>1. /\ overlay' = Nowhere /\ conn' = {} /\ late' = {} /\ wire' = [c \in Clients |-> <<>>]
      /\ shown' = [c \in Clients |-> Nowhere] /\ Nowhere \in Map /\ puts' = puts
      /\ req' = [r \in Requests |-> None] /\ cast' = [r \in Requests |-> None]
  BY DEF ApiRestart, Nowhere, Map
<1> QED BY <1>1 DEF Inv, StateOK, AllInformed

(***************************************************************************)
(* The theorems.                                                           *)
(***************************************************************************)
LEMMA InvNext ==
  ASSUME Inv, [Next]_vars
  PROVE  Inv'
<1>1. ASSUME NEW r \in Requests, SendNext(r) \/ WriteSnapshot(r) \/ Reply(r) \/ Patch(r) \/ ReplyEdit(r)
      PROVE  Inv'
  BY <1>1, SendNextInforms, SnapshotInforms, ReplyInforms, PatchInforms, ReplyEditInforms
<1>2. ASSUME NEW r \in Requests, EditFails(r)
      PROVE  Inv'
  <2>1. req' \in [Requests -> {None} \cup Snapshot \cup Edit]
    BY <1>2 DEF EditFails, Inv, StateOK
  <2> QED BY <1>2, <2>1, RequestSteps DEF EditFails
<1>3. ASSUME NEW r \in Requests, NEW s \in Sides, NEW o \in Overlay \cup {None}, Notify(r, s, o)
      PROVE  Inv'
  <2>1. req' \in [Requests -> {None} \cup Snapshot \cup Edit]
    BY <1>3 DEF Notify, Inv, StateOK
  <2> QED BY <1>3, <2>1, PutInforms DEF Notify
<1>4. ASSUME NEW r \in Requests, NEW c \in Clients, NEW answer \in Map, AskSnapshot(r, c, answer)
      PROVE  Inv'
  <2>1. PICK q : q = [kind |-> "snapshot", client |-> c, left |-> Sides, answer |-> answer]
    OBVIOUS
  <2>2. q \in Snapshot
    BY <2>1 DEF Snapshot
  <2> QED BY <1>4, <2>1, <2>2, AsksInform DEF AskSnapshot
<1>5. ASSUME NEW r \in Requests, NEW c \in Clients, NEW s \in Sides, NEW level \in Levels,
             AskEdit(r, c, s, level)
      PROVE  Inv'
  <2>1. PICK q : q = [kind |-> "edit", client |-> c, side |-> s, tp |-> level,
                      seen |-> overlay[s], answer |-> None]
    OBVIOUS
  <2>2. overlay[s] \in Overlay
    BY <1>5 DEF AskEdit, Inv, StateOK, Map
  <2>3. q \in Edit
    BY <2>1, <2>2 DEF Edit
  <2> QED BY <1>5, <2>1, <2>3, AsksInform DEF AskEdit
<1>6. ASSUME NEW c \in Clients, Connect(c) \/ Receive(c) \/ Disconnect(c)
      PROVE  Inv'
  BY <1>6, ConnectInforms, ReceiveInforms, DisconnectInforms
<1>7. CASE UNCHANGED vars
  <2>1. req' \in [Requests -> {None} \cup Snapshot \cup Edit]
    BY <1>7 DEF vars, Inv, StateOK
  <2> QED BY <1>7, <2>1, RequestSteps DEF vars
<1> QED BY <1>1, <1>2, <1>3, <1>4, <1>5, <1>6, <1>7, RestartInforms DEF Next

LEMMA InvHolds == Spec => []Inv
<1> QED BY InvInit, InvNext, PTL DEF Spec

(* A broadcast always has somebody to write to, who is connected, and      *)
(* tells of a change that has been made; and what is sent and shown has    *)
(* the types the code gives it.                                            *)
THEOREM TypeCorrect == Spec => []TypeOK
<1>1. Inv => TypeOK
  <2> SUFFICES ASSUME Inv PROVE TypeOK
    OBVIOUS
  <2>1. \A r \in Requests : req[r] # None => req[r].kind \in {"snapshot", "edit"}
    BY DEF Inv, StateOK, Snapshot, Edit
  <2> QED BY <2>1 DEF Inv, StateOK, TypeOK
<1> QED BY <1>1, InvHolds, PTL

(* A connected browser that has read its websocket, and that no broadcast  *)
(* has yet to write to, shows the API's overlays, unless two broadcasts    *)
(* passed each other on the way to it or an answer to its own request was  *)
(* not what the API then held: the snapshot of a new client and the        *)
(* broadcasts under way leave no gap.                                      *)
THEOREM BrowserFollowsHolds == Spec => []BrowserFollows
<1>1. Inv => BrowserFollows
  <2> SUFFICES ASSUME Inv, NEW c \in conn \ late, wire[c] = <<>>, ~Awaited(c)
               PROVE  shown[c] = overlay
    BY DEF BrowserFollows
  <2>1. shown[c] \in Map /\ overlay \in Map
    BY DEF Inv, StateOK
  <2>2. ASSUME NEW s \in Sides PROVE shown[c][s] = overlay[s]
    <3>1. \A r \in Requests : ~Waiting(r, c, s)
      BY DEF Awaited, Waiting
    <3>2. EndsWith(wire[c], s, shown[c][s], overlay[s])
      BY <3>1 DEF Inv, AllInformed, Informed
    <3>3. Silent(wire[c], s)
      BY DEF Silent
    <3> QED BY <3>2, <3>3 DEF EndsWith
  <2> QED BY <2>1, <2>2 DEF Map
<1> QED BY <1>1, InvHolds, PTL
=============================================================================
