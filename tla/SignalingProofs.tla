--------------------------- MODULE SignalingProofs -----------------------------
(***************************************************************************)
(* What the signaling of one session keeps, for any offers, polls and      *)
(* addresses.  The service shows the answer and the candidates of the last *)
(* offer it answered, to whoever asks; the page has to tell the stale ones *)
(* by what it read before.                                                 *)
(***************************************************************************)
EXTENDS Signaling, TLAPS

\* The steps of an offer that holds the lock, those before the page's state knows it, and the ends.
AtWork == {"previous", "baseline", "begin", "sendFresh", "send", "fresh", "any"}
Ahead == {"waiting", "previous", "baseline", "begin"}
Over(n) == offers[n].at \in {"done", "failed"}
\* What the service showed at one time against a later one.
NotAfter(old, new) == old.of < new.of \/ (old.of = new.of /\ (old.found => new.found)
    /\ (old.end => new.end))

\* Offers hold the lock one after another.  Polls hold it in between.  While a
\* quality offer is not over, those before it are, and the service shows no older candidates than those
\* of the user name the page has.
Queue ==
    /\ \A n \in 1 .. Len(offers) :
          /\ ice = n <=> offers[n].at \in AtWork
          /\ offers[n].kind # "past" => offers[n].creds \in 1 .. n
          /\ offers[n].kind \in {"peer", "restart"} => offers[n].creds = n
          /\ offers[n].kind \in {"quality", "chat"} => signaling.creds # 0
          /\ offers[n].kind = "past" => Over(n)
          /\ offers[n].at \notin {"waiting", "failed"} => \A m \in 1 .. n - 1 : Over(m)
          /\ offers[n].kind = "quality" /\ ~Over(n) =>
                /\ \A m \in 1 .. n - 1 : Over(m)
                /\ signaling.ufrag <= remote.slot.of
    /\ offers # <<>> => offers[Len(offers)].kind # "past"
    /\ \A q \in Polls : poll[q].at = "reading" <=> ice = q

\* How far the page and the service have come with the offers.
Progressed ==
    /\ signaling.gen <= Len(offers) /\ signaling.creds <= Len(offers)
    /\ remote.slot.of <= remote.ufrag /\ remote.ufrag <= remote.posted
    /\ remote.answer <= remote.posted /\ remote.posted <= Len(offers)
    /\ remote.ufrag \in {remote.answer, remote.slot.of}
    /\ signaling.ufrag <= remote.posted
    /\ handed <= remote.slot.of
    /\ remote.slot.found \/ remote.slot.end => remote.slot.of # 0
    /\ ~signaling.started => remote.posted = 0
    /\ signaling.started => signaling.creds # 0
    /\ \A n \in 1 .. Len(offers) :
          /\ offers[n].at \in Ahead => signaling.gen < n /\ signaling.creds < n
          /\ offers[n].at \in Ahead \cup {"sendFresh", "send"} => remote.posted < n
          /\ offers[n].at \in {"fresh", "any"} => remote.posted = n
          /\ ~Over(n) => signaling.ufrag < n
          /\ offers[n].at \in {"send", "any"} => offers[n].kind = "quality"
          /\ offers[n].at = "any" => ~remote.renews
          /\ offers[n].at \in {"sendFresh", "send", "fresh", "any"} => signaling.started

\* What an offer read before it was sent is not later than what the service has.  If the answer it read
\* was the one it took as the previous one, an answer that differs is a later one.
Before ==
    /\ NotAfter(held.slot, remote.slot) /\ NotAfter(shown.slot, remote.slot)
    /\ held.before <= remote.answer
    /\ \A n \in 1 .. Len(offers) :
          (offers[n].at \in {"baseline", "begin"} /\ RequireFresh(n))
          \/ offers[n].at \in {"sendFresh", "fresh"}
             => held.before \in {0, held.previous} \/ held.before < remote.answer

\* An offer of new credentials holds the candidates of the old ones as its baseline, and keeps them
\* while it waits.  After it the baseline still is what the service shows of the old credentials, or the
\* page has the credentials of what is shown; unless it was given the late answer of an offer before.
Based ==
    /\ \A n \in 1 .. Len(offers) :
          /\ offers[n].at = "begin" /\ NewIce(n) /\ held.slot = remote.slot /\ remote.slot.of # 0
                => held.base = Response
          /\ offers[n].at \in {"sendFresh", "fresh"} /\ offers[n].kind # "chat"
             /\ shown.slot = remote.slot /\ remote.slot.of # 0
                => signaling.baseline = Response
    /\ ~shown.late /\ shown.slot = remote.slot /\ remote.slot.of # 0 =>
          \/ signaling.baseline = Response
          \/ /\ signaling.ufrag = remote.slot.of /\ remote.ufrag = remote.slot.of
             /\ remote.answer = remote.posted \/ ~remote.renews

\* What offers, locals, polls and the service may be.
Stages == {"waiting"} \cup AtWork \cup {"done", "failed"}
Slots == [of : Nat, found : BOOLEAN, end : BOOLEAN]
Texts == (Addresses \cup {"end"}) \X Nat
Bases == [known : BOOLEAN, texts : SUBSET Texts]
OfferRecords == [kind : {"peer", "restart", "quality", "chat", "past"}, at : Stages, creds : Nat]
Locals == [before : Nat, slot : Slots, previous : Nat, base : Bases]
Signals == [gen : Nat, started : BOOLEAN, creds : Nat, answers : [media : Nat, chat : Nat],
            polled : Bases, baseline : Bases, ufrag : Nat]
PollRecords == [at : {"idle", "waiting", "reading"}, gen : Nat]
Services == [posted : Nat, answer : Nat, ufrag : Nat, slot : Slots, marks : BOOLEAN,
             renews : BOOLEAN, address : [1 .. MaxOffers -> Addresses]]

\* All variables are of their types.
SigTyped ==
    /\ offers \in Seq(OfferRecords) /\ Len(offers) <= MaxOffers
    /\ held \in Locals /\ signaling \in Signals /\ ice \in (0 .. Len(offers)) \cup Polls
    /\ poll \in [Polls -> PollRecords] /\ remote \in Services
    /\ shown \in [slot : Slots, late : BOOLEAN] /\ handed \in Nat

\* The inductive invariant.
SigInv == SigTyped /\ Queue /\ Progressed /\ Before /\ Based

\* What the types say of the offers.
LEMMA OfferFields ==
    ASSUME SigTyped
    PROVE  /\ Len(offers) \in Nat
           /\ \A n \in 1 .. Len(offers) :
                 /\ offers[n] = [kind |-> offers[n].kind, at |-> offers[n].at,
                      creds |-> offers[n].creds]
                 /\ offers[n].kind \in {"peer", "restart", "quality", "chat", "past"}
                 /\ offers[n].at \in Stages /\ offers[n].creds \in Nat
  <1>1. offers \in Seq(OfferRecords)
        BY DEF SigTyped
  <1>2. Len(offers) \in Nat /\ \A n \in 1 .. Len(offers) : offers[n] \in OfferRecords
        BY <1>1
  <1> QED
    BY <1>2 DEF OfferRecords

\* An offer that takes its next step leaves the others alone.
LEMMA Advanced ==
    ASSUME SigTyped, NEW n \in 1 .. Len(offers), NEW step \in Stages, Advance(n, step)
    PROVE  /\ offers' \in Seq(OfferRecords) /\ Len(offers') = Len(offers)
           /\ \A m \in 1 .. Len(offers) :
                 /\ offers'[m].kind = offers[m].kind /\ offers'[m].creds = offers[m].creds
                 /\ offers'[m].at = IF m = n THEN step ELSE offers[m].at
  <1>1. offers' = [offers EXCEPT ![n] = [offers[n] EXCEPT !.at = step]]
        BY DEF Advance
  <1>2. offers \in Seq(OfferRecords)
        BY DEF SigTyped
  <1>3. [offers[n] EXCEPT !.at = step] \in OfferRecords
    <2>1. offers[n] \in OfferRecords
          BY <1>2
    <2> QED
      BY <2>1 DEF OfferRecords
  <1>4. offers' \in Seq(OfferRecords) /\ Len(offers') = Len(offers)
        BY <1>1, <1>2, <1>3
  <1>5. offers'[n].kind = offers[n].kind /\ offers'[n].creds = offers[n].creds
        /\ offers'[n].at = step
        BY <1>1, <1>2, <1>3, OfferFields DEF OfferRecords
  <1>6. \A m \in 1 .. Len(offers) : m # n => offers'[m] = offers[m]
        BY <1>1, <1>2
  <1> QED
    BY <1>4, <1>5, <1>6

\* Offers that are over and not the last one are kept as past.
LEMMA Settles ==
    ASSUME NEW list \in Seq(OfferRecords)
    PROVE  /\ Settled(list) \in Seq(OfferRecords) /\ Len(Settled(list)) = Len(list)
           /\ \A m \in 1 .. Len(list) :
                 /\ Settled(list)[m].at = list[m].at
                 /\ \/ Settled(list)[m] = list[m] /\ ~(m < Len(list)
                       /\ list[m].at \in {"done", "failed"})
                    \/ /\ Settled(list)[m].kind = "past" /\ Settled(list)[m].creds = 0
                       /\ m < Len(list) /\ list[m].at \in {"done", "failed"}
  <1> DEFINE F(m) == IF m < Len(list) /\ list[m].at \in {"done", "failed"}
                     THEN [kind |-> "past", at |-> list[m].at, creds |-> 0] ELSE list[m]
  <1>1. Len(list) \in Nat /\ \A m \in 1 .. Len(list) : list[m] \in OfferRecords
        OBVIOUS
  <1>2. Settled(list) = [m \in 1 .. Len(list) |-> F(m)]
        BY DEF Settled
  <1>3. \A m \in 1 .. Len(list) : F(m) \in OfferRecords /\ F(m).at = list[m].at
        BY <1>1 DEF OfferRecords, Stages
  <1>4. \A m \in 1 .. Len(list) : Settled(list)[m] = F(m)
        BY <1>2
  <1>5. \A m \in 1 .. Len(list) :
           \/ F(m) = list[m] /\ ~(m < Len(list) /\ list[m].at \in {"done", "failed"})
           \/ F(m).kind = "past" /\ F(m).creds = 0 /\ m < Len(list)
              /\ list[m].at \in {"done", "failed"}
        OBVIOUS
  <1> HIDE DEF F
  <1>6. Settled(list) \in [1 .. Len(list) -> OfferRecords]
        BY <1>2, <1>3
  <1>7. Settled(list) \in Seq(OfferRecords)
        BY <1>1, <1>6
  <1>8. Len(Settled(list)) = Len(list)
        BY <1>1, <1>6, <1>7
  <1> QED
    BY <1>3, <1>4, <1>5, <1>7, <1>8

\* An offer that ends leaves the steps of the others alone.
LEMMA EndedTyped ==
    ASSUME SigTyped, NEW n \in 1 .. Len(offers), NEW how \in {"done", "failed"}, EndExchange(n, how)
    PROVE  /\ offers' \in Seq(OfferRecords) /\ Len(offers') = Len(offers)
           /\ \A m \in 1 .. Len(offers) :
                 /\ offers'[m].at = IF m = n THEN how ELSE offers[m].at
                 /\ \/ offers'[m].kind = offers[m].kind /\ offers'[m].creds = offers[m].creds
                    \/ /\ offers'[m].kind = "past" /\ m < Len(offers)
                       /\ m = n \/ offers[m].at \in {"done", "failed"}
           /\ held' = IF ice = n THEN NotHeld ELSE held
  <1> DEFINE list == [offers EXCEPT ![n].at = how]
  <1>0. how \in Stages
        BY DEF Stages
  <1>1. list \in Seq(OfferRecords) /\ Len(list) = Len(offers)
        /\ \A m \in 1 .. Len(offers) :
              /\ list[m].kind = offers[m].kind /\ list[m].creds = offers[m].creds
              /\ list[m].at = IF m = n THEN how ELSE offers[m].at
    <2>2. offers \in Seq(OfferRecords)
          BY DEF SigTyped
    <2>3. [offers[n] EXCEPT !.at = how] \in OfferRecords
      <3>1. offers[n] \in OfferRecords
            BY <2>2
      <3> QED
        BY <3>1, <1>0 DEF OfferRecords
    <2>4. list \in Seq(OfferRecords) /\ Len(list) = Len(offers)
          BY <2>2, <2>3
    <2>5. list[n].kind = offers[n].kind /\ list[n].creds = offers[n].creds /\ list[n].at = how
          BY <2>2, <2>3, OfferFields DEF OfferRecords
    <2>6. \A m \in 1 .. Len(offers) : m # n => list[m] = offers[m]
          BY <2>2
    <2> HIDE DEF list
    <2> QED
      BY <2>4, <2>5, <2>6
  <1>2. offers' = Settled(list) /\ held' = IF ice = n THEN NotHeld ELSE held
        BY DEF EndExchange
  <1> HIDE DEF list
  <1>3. Len(list) = Len(offers)
        BY <1>1
  <1>4. \A m \in 1 .. Len(offers) :
           /\ offers'[m].at = list[m].at
           /\ \/ offers'[m] = list[m]
              \/ offers'[m].kind = "past" /\ m < Len(offers) /\ list[m].at \in {"done", "failed"}
        BY <1>1, <1>2, Settles
  <1>5. offers' \in Seq(OfferRecords) /\ Len(offers') = Len(offers)
        BY <1>1, <1>2, Settles
  <1> QED
    BY <1>1, <1>2, <1>4, <1>5

\* What the types say of the page's and the service's state.
LEMMA StateFields ==
    ASSUME SigTyped
    PROVE  /\ /\ signaling = [gen |-> signaling.gen, started |-> signaling.started,
                   creds |-> signaling.creds,
                              answers |-> signaling.answers, polled |-> signaling.polled,
                              baseline |-> signaling.baseline, ufrag |-> signaling.ufrag]
              /\ signaling.gen \in Nat /\ signaling.started \in BOOLEAN /\ signaling.creds \in Nat
              /\ signaling.answers \in [media : Nat, chat : Nat] /\ signaling.polled \in Bases
              /\ signaling.baseline \in Bases /\ signaling.ufrag \in Nat
           /\ /\ remote = [posted |-> remote.posted, answer |-> remote.answer,
                   ufrag |-> remote.ufrag,
                           slot |-> remote.slot, marks |-> remote.marks, renews |-> remote.renews,
                           address |-> remote.address]
              /\ remote.posted \in Nat /\ remote.answer \in Nat /\ remote.ufrag \in Nat
                 /\ remote.slot \in Slots
              /\ remote.marks \in BOOLEAN /\ remote.renews \in BOOLEAN
              /\ remote.address \in [1 .. MaxOffers -> Addresses]
           /\ /\ remote.slot = [of |-> remote.slot.of, found |-> remote.slot.found,
                   end |-> remote.slot.end]
              /\ remote.slot.of \in Nat /\ remote.slot.found \in BOOLEAN
                 /\ remote.slot.end \in BOOLEAN
           /\ /\ held = [before |-> held.before, slot |-> held.slot, previous |-> held.previous,
                   base |-> held.base]
              /\ held.before \in Nat /\ held.slot \in Slots /\ held.previous \in Nat
                 /\ held.base \in Bases
              /\ held.slot.of \in Nat
           /\ shown = [slot |-> shown.slot, late |-> shown.late]
           /\ shown.slot \in Slots /\ shown.slot.of \in Nat /\ shown.late \in BOOLEAN
  <1>1. signaling \in Signals /\ remote \in Services /\ held \in Locals
        /\ shown \in [slot : Slots, late : BOOLEAN]
        BY DEF SigTyped
  <1>2. /\ signaling = [gen |-> signaling.gen, started |-> signaling.started,
             creds |-> signaling.creds,
                        answers |-> signaling.answers, polled |-> signaling.polled,
                        baseline |-> signaling.baseline, ufrag |-> signaling.ufrag]
        /\ signaling.gen \in Nat /\ signaling.started \in BOOLEAN /\ signaling.creds \in Nat
        /\ signaling.answers \in [media : Nat, chat : Nat] /\ signaling.polled \in Bases
        /\ signaling.baseline \in Bases /\ signaling.ufrag \in Nat
        BY <1>1 DEF Signals
  <1>3. /\ remote = [posted |-> remote.posted, answer |-> remote.answer, ufrag |-> remote.ufrag,
                     slot |-> remote.slot, marks |-> remote.marks, renews |-> remote.renews,
                     address |-> remote.address]
        /\ remote.posted \in Nat /\ remote.answer \in Nat /\ remote.ufrag \in Nat
           /\ remote.slot \in Slots
        /\ remote.marks \in BOOLEAN /\ remote.renews \in BOOLEAN
        /\ remote.address \in [1 .. MaxOffers -> Addresses]
        BY <1>1 DEF Services
  <1>4. /\ remote.slot = [of |-> remote.slot.of, found |-> remote.slot.found,
             end |-> remote.slot.end]
        /\ remote.slot.of \in Nat /\ remote.slot.found \in BOOLEAN /\ remote.slot.end \in BOOLEAN
        BY <1>3 DEF Slots
  <1>5. /\ held = [before |-> held.before, slot |-> held.slot, previous |-> held.previous,
             base |-> held.base]
        /\ held.before \in Nat /\ held.slot \in Slots /\ held.previous \in Nat
           /\ held.base \in Bases
        BY <1>1 DEF Locals
  <1>6. shown = [slot |-> shown.slot, late |-> shown.late] /\ shown.slot \in Slots
        /\ shown.late \in BOOLEAN
        BY <1>1
  <1>7. held.slot.of \in Nat /\ shown.slot.of \in Nat
        BY <1>5, <1>6 DEF Slots
  <1> QED
    BY <1>2, <1>3, <1>4, <1>5, <1>6, <1>7

\* The numbers among them, told apart for the steps that count.
LEMMA Numbers ==
    ASSUME SigInv
    PROVE  /\ signaling.gen \in Nat /\ signaling.creds \in Nat /\ signaling.ufrag \in Nat
           /\ remote.posted \in Nat /\ remote.answer \in Nat /\ remote.ufrag \in Nat
           /\ remote.slot.of \in Nat /\ held.before \in Nat /\ handed \in Nat /\ Len(offers) \in Nat
  BY StateFields, OfferFields DEF SigInv, SigTyped

\* What is held when nothing is.
LEMMA NotHeldTyped ==
    NotHeld \in Locals /\ NoIce \in Bases /\ NoSlot \in Slots
  <1>1. NoIce \in Bases
        BY DEF NoIce, Bases
  <1>2. NoSlot \in Slots
        BY DEF NoSlot, Slots
  <1> QED
    BY <1>1, <1>2 DEF NotHeld, Locals

\* What the service answers to a poll depends on what it shows only.
LEMMA ResponseStands ==
    ASSUME remote'.slot = remote.slot, remote'.marks = remote.marks,
             remote'.address = remote.address
    PROVE  Response' = Response
  BY DEF Response, Text

\* And is a base.
LEMMA ResponseTyped ==
    ASSUME SigInv
    PROVE  Response \in Bases
  <1>1. remote.slot.found => Text(remote.slot.of) \in Texts
    <2>1. remote.slot.of <= MaxOffers
          BY SMTT(20), StateFields, OfferFields, SignalingAssumption DEF SigInv, Progressed, SigTyped
    <2>2. remote.slot.found => remote.slot.of \in 1 .. MaxOffers
          BY SMTT(20), <2>1, StateFields, SignalingAssumption DEF SigInv, Progressed
    <2>3. remote.slot.found => remote.address[remote.slot.of] \in Addresses
          BY <2>2, StateFields DEF SigInv
    <2> QED
      BY <2>3, StateFields DEF Text, Texts, SigInv
  <1>2. <<"end", 0>> \in Texts
        BY DEF Texts
  <1>3. Response.texts \in SUBSET Texts /\ Response.known \in BOOLEAN
        BY <1>1, <1>2 DEF Response
  <1> QED
    BY <1>3 DEF Response, Bases

\* The invariant holds at the start.
LEMMA SigInitHolds ==
    ASSUME SigInit
    PROVE  SigInv
  <1>1. /\ remote.posted = 0 /\ remote.answer = 0 /\ remote.ufrag = 0 /\ remote.slot = NoSlot
        /\ remote.renews = FALSE /\ remote.marks \in BOOLEAN
        /\ remote \in [posted : {0}, answer : {0}, ufrag : {0}, slot : {NoSlot},
                       marks : BOOLEAN, renews : {FALSE}, address : [1 .. MaxOffers -> Addresses]]
        BY DEF SigInit
  <1>2. offers = <<>> /\ Len(offers) = 0
        BY DEF SigInit
  <1>3. SigTyped
    <2>1. remote \in Services
      <3>1. remote = [posted |-> 0, answer |-> 0, ufrag |-> 0, slot |-> NoSlot,
              marks |-> remote.marks,
                      renews |-> FALSE, address |-> remote.address]
            /\ remote.address \in [1 .. MaxOffers -> Addresses]
            BY <1>1
      <3>2. NoSlot \in Slots /\ remote.marks \in BOOLEAN
            BY <1>1, NotHeldTyped
      <3> HIDE DEF NoSlot, Slots
      <3>3. [posted |-> 0, answer |-> 0, ufrag |-> 0, slot |-> NoSlot, marks |-> remote.marks,
             renews |-> FALSE, address |-> remote.address] \in Services
            BY <3>1, <3>2 DEF Services
      <3> QED
        BY <3>1, <3>3
    <2>2. signaling \in Signals
          BY NotHeldTyped DEF SigInit, Signals
    <2>3. poll \in [Polls -> PollRecords]
          BY DEF SigInit, PollRecords
    <2>4. offers \in Seq(OfferRecords)
          BY <1>2
    <2>5. shown \in [slot : Slots, late : BOOLEAN] /\ held \in Locals
          BY NotHeldTyped DEF SigInit
    <2> QED
      BY <2>1, <2>2, <2>3, <2>4, <2>5, <1>2, SignalingAssumption DEF SigInit, SigTyped
  <1>4. Queue
        BY <1>2, SignalingAssumption DEF SigInit, Queue
  <1>5. Progressed
        BY <1>1, <1>2, SignalingAssumption DEF SigInit, Progressed, NoSlot
  <1>6. Before
        BY <1>1, <1>2 DEF SigInit, Before, NotAfter, NoSlot, NotHeld
  <1>7. Based
        BY <1>1, <1>2 DEF SigInit, Based, NoSlot
  <1> QED
    BY <1>3, <1>4, <1>5, <1>6, <1>7 DEF SigInv

\* An offer gets the lock.
LEMMA LockOfferKeeps ==
    ASSUME SigInv, NEW n \in 1 .. Len(offers), LockOffer(n)
    PROVE  SigInv'
  <1>1. /\ offers[n].at = "waiting" /\ ice = 0 /\ ice' = n /\ Advance(n, "previous")
        /\ held' = [NotHeld EXCEPT !.before = remote.answer, !.slot = remote.slot]
        /\ \A m \in 1 .. n - 1 : offers[m].at # "waiting"
        /\ signaling' = signaling /\ poll' = poll /\ remote' = remote /\ shown' = shown
           /\ handed' = handed
        BY DEF LockOffer, Offer
  <1>2. /\ offers' \in Seq(OfferRecords) /\ Len(offers') = Len(offers) /\ Len(offers) \in Nat
        /\ \A m \in 1 .. Len(offers) :
              /\ offers'[m].kind = offers[m].kind /\ offers'[m].creds = offers[m].creds
              /\ offers'[m].at = IF m = n THEN "previous" ELSE offers[m].at
        BY <1>1, Advanced, OfferFields DEF SigInv, Stages, AtWork
  <1>3. \A m \in 1 .. Len(offers) :
           /\ offers[m].at \in Stages /\ offers[m].at \notin AtWork
           /\ offers[m].creds \in Nat
              /\ offers[m].kind \in {"peer", "restart", "quality", "chat", "past"}
    <2>1. \A m \in 1 .. Len(offers) : offers[m].at \notin AtWork
          BY <1>1 DEF SigInv, Queue
    <2> QED
      BY <2>1, OfferFields DEF SigInv
  <1>4. /\ held'.before = remote.answer /\ held'.slot = remote.slot /\ held' \in Locals
        /\ \A q \in Polls : poll[q].at # "reading"
    <2>1. held' = [before |-> remote.answer, slot |-> remote.slot, previous |-> 0, base |-> NoIce]
          BY <1>1 DEF NotHeld
    <2>2. remote.answer \in Nat /\ remote.slot \in Slots /\ NoIce \in Bases
          BY StateFields, NotHeldTyped DEF SigInv
    <2>3. held' \in Locals
          BY <2>1, <2>2 DEF Locals
    <2>4. \A q \in Polls : poll[q].at # "reading"
          BY <1>1, SignalingAssumption DEF SigInv, Queue
    <2> QED
      BY <2>1, <2>3, <2>4
  <1>5. SigTyped'
        BY <1>1, <1>2, <1>4 DEF SigInv, SigTyped
  <1>6. Queue'
    <2>1. \A m \in 1 .. n - 1 : Over(m)
          BY <1>1, <1>3 DEF Stages, Over
    <2> QED
      BY SMTT(20), <1>1, <1>2, <1>3, <1>4, <2>1, SignalingAssumption DEF SigInv, Queue, Over, AtWork
  <1>7. Progressed'
        BY <1>1, <1>2 DEF SigInv, Progressed, Over, Ahead
  <1>8. Before'
    <2>1. NotAfter(held'.slot, remote.slot) /\ NotAfter(shown.slot, remote.slot)
          BY <1>4 DEF SigInv, Before, NotAfter
    <2>2. held'.before <= remote'.answer
          BY <1>1, <1>4, StateFields DEF SigInv
    <2>3. \A m \in 1 .. Len(offers') : offers'[m].at \notin {"baseline", "begin", "sendFresh",
            "fresh"}
          BY <1>2, <1>3 DEF AtWork
    <2> QED
      BY <1>1, <2>1, <2>2, <2>3 DEF Before, NotAfter
  <1>9. Based'
        BY <1>1, <1>2, <1>3, ResponseStands DEF SigInv, Based, AtWork
  <1> QED
    BY <1>5, <1>6, <1>7, <1>8, <1>9 DEF SigInv

\* While an offer is at work all others wait or are over, and no poll reads.
LEMMA AtHand ==
    ASSUME SigInv, NEW n \in 1 .. Len(offers), offers[n].at \in AtWork
    PROVE  /\ ice = n /\ n \in Nat /\ Len(offers) \in Nat
           /\ \A m \in 1 .. Len(offers) :
                 /\ m # n => offers[m].at \in {"waiting", "done", "failed"}
                 /\ m < n => Over(m)
           /\ \A q \in Polls : poll[q].at # "reading" /\ ice # q
  <1>1. ice = n /\ Len(offers) \in Nat
        BY OfferFields DEF SigInv, Queue
  <1>2. \A m \in 1 .. Len(offers) : m # n => offers[m].at \in {"waiting", "done", "failed"}
        BY <1>1, OfferFields DEF SigInv, Queue, Stages
  <1>3. \A m \in 1 .. Len(offers) : m < n => Over(m)
        BY <1>1 DEF SigInv, Queue, AtWork
  <1>4. \A q \in Polls : poll[q].at # "reading" /\ ice # q
        BY <1>1, SignalingAssumption DEF SigInv, Queue
  <1> QED
    BY <1>1, <1>2, <1>3, <1>4

\* The offer at work goes on with its work.
LEMMA QueueStands ==
    ASSUME SigInv, NEW n \in 1 .. Len(offers), offers[n].at \in AtWork, NEW step \in AtWork,
           Len(offers') = Len(offers),
           \A m \in 1 .. Len(offers) :
              /\ offers'[m].kind = offers[m].kind /\ offers'[m].creds = offers[m].creds
              /\ offers'[m].at = IF m = n THEN step ELSE offers[m].at,
           ice' = ice, poll' = poll, remote'.slot = remote.slot, signaling'.ufrag = signaling.ufrag,
           signaling.creds # 0 => signaling'.creds # 0
    PROVE  Queue'
  <1>1. /\ ice = n /\ n \in Nat /\ Len(offers) \in Nat
        /\ \A m \in 1 .. Len(offers) : m < n => Over(m)
        BY AtHand
  <1>2. \A m \in 1 .. Len(offers) : Over(m)' <=> Over(m)
        BY DEF Over, AtWork
  <1>3. \A m \in 1 .. Len(offers) : (offers'[m].at \in AtWork) = (offers[m].at \in AtWork)
        BY DEF AtWork
  <1>4. \A m \in 1 .. Len(offers) :
           offers'[m].at \notin {"waiting", "failed"} => offers[m].at \notin {"waiting", "failed"}
        BY DEF AtWork
  <1>5. offers' # <<>> => offers'[Len(offers')].kind # "past"
    <2>1. offers' # <<>> => offers # <<>>
          BY <1>1
    <2>2. Len(offers) \in 1 .. Len(offers)
          BY <1>1
    <2> QED
      BY <2>1, <2>2 DEF SigInv, Queue
  <1>6. ASSUME NEW m \in 1 .. Len(offers)
        PROVE  /\ ice' = m <=> offers'[m].at \in AtWork
               /\ offers'[m].kind # "past" => offers'[m].creds \in 1 .. m
               /\ offers'[m].kind \in {"peer", "restart"} => offers'[m].creds = m
               /\ offers'[m].kind \in {"quality", "chat"} => signaling'.creds # 0
               /\ offers'[m].kind = "past" => Over(m)'
               /\ offers'[m].at \notin {"waiting", "failed"} => \A k \in 1 .. m - 1 : Over(k)'
               /\ offers'[m].kind = "quality" /\ ~Over(m)' =>
                     /\ \A k \in 1 .. m - 1 : Over(k)'
                     /\ signaling'.ufrag <= remote'.slot.of
    <2>1. \A k \in 1 .. m - 1 : k \in 1 .. Len(offers)
          BY <1>1
    <2> QED
      BY <1>2, <1>3, <1>4, <2>1 DEF SigInv, Queue
  <1> QED
    BY <1>5, <1>6 DEF SigInv, Queue

\* An offer reads the answer that is there before it.
LEMMA ReadPreviousKeeps ==
    ASSUME SigInv, NEW n \in 1 .. Len(offers), ReadPrevious(n)
    PROVE  SigInv'
  <1> DEFINE looks == RequireFresh(n) /\ (signaling.started \/ offers[n].kind = "restart")
             there == IF remote.answer # 0 THEN remote.answer ELSE signaling.answers[Channel(n)]
             previous == IF looks THEN there ELSE 0
  <1>1. /\ offers[n].at = "previous" /\ Advance(n, "baseline")
        /\ held' = [held EXCEPT !.previous = previous]
        /\ signaling' = signaling /\ ice' = ice /\ poll' = poll /\ remote' = remote
        /\ shown' = shown /\ handed' = handed
        BY DEF ReadPrevious, Offer
  <1>2. /\ offers' \in Seq(OfferRecords) /\ Len(offers') = Len(offers)
        /\ \A m \in 1 .. Len(offers) :
              /\ offers'[m].kind = offers[m].kind /\ offers'[m].creds = offers[m].creds
              /\ offers'[m].at = IF m = n THEN "baseline" ELSE offers[m].at
        BY <1>1, Advanced DEF SigInv, Stages, AtWork
  <1>3. /\ ice = n /\ n \in Nat /\ Len(offers) \in Nat
        /\ \A m \in 1 .. Len(offers) :
              /\ m # n => offers[m].at \in {"waiting", "done", "failed"}
              /\ m < n => Over(m)
        /\ \A q \in Polls : poll[q].at # "reading" /\ ice # q
        BY <1>1, AtHand DEF AtWork
  <1>4. there \in Nat
        BY StateFields DEF SigInv, Channel
  <1>5. /\ held'.before = held.before /\ held'.slot = held.slot /\ held'.previous = previous
        /\ held' \in Locals
        BY <1>1, <1>4, StateFields DEF Locals, SigInv
  <1>6. RequireFresh(n) => held.before \in {0, previous} \/ held.before < remote.answer
    <2>1. ~signaling.started => held.before = 0
          BY StateFields DEF SigInv, Progressed, Before
    <2>2. signaling.started /\ RequireFresh(n) => previous = there
          OBVIOUS
    <2>3. held.before <= remote.answer
          BY DEF SigInv, Before
    <2> QED
      BY <2>1, <2>2, <2>3, StateFields DEF SigInv
  <1> HIDE DEF previous
  <1>7. SigTyped'
        BY <1>1, <1>2, <1>5 DEF SigInv, SigTyped
  <1>8. Queue'
        BY <1>1, <1>2, QueueStands DEF AtWork
  <1>9. Progressed'
        BY <1>1, <1>2, <1>3 DEF SigInv, Progressed, Over, Ahead
  <1>10. Before'
    <2>1. NotAfter(held.slot, remote.slot) /\ NotAfter(shown.slot, remote.slot)
          /\ held.before <= remote.answer
          BY DEF SigInv, Before
    <2>2. RequireFresh(n)' = RequireFresh(n)
          BY <1>1, <1>2 DEF RequireFresh, NewIce, Offer
    <2>3. \A m \in 1 .. Len(offers') : m # n
            => offers'[m].at \notin {"baseline", "begin", "sendFresh", "fresh"}
          BY <1>2, <1>3
    <2>4. offers'[n].at = "baseline"
          BY <1>2
    <2> QED
      BY <1>1, <1>2, <1>5, <1>6, <2>1, <2>2, <2>3, <2>4 DEF Before, NotAfter
  <1>11. Based'
    <2>1. \A m \in 1 .. Len(offers') : offers'[m].at \notin {"begin", "sendFresh", "fresh"}
          BY <1>2, <1>3
    <2> QED
      BY <1>1, <2>1, ResponseStands DEF SigInv, Based
  <1> QED
    BY <1>7, <1>8, <1>9, <1>10, <1>11 DEF SigInv

\* And the candidates.
LEMMA ReadBaselineKeeps ==
    ASSUME SigInv, NEW n \in 1 .. Len(offers), ReadBaseline(n)
    PROVE  SigInv'
  <1> DEFINE looks == NewIce(n) /\ (signaling.creds # 0 \/ signaling.polled.known)
             there == IF Response.known THEN Response
                      ELSE IF signaling.polled.known THEN signaling.polled ELSE signaling.baseline
             base == IF looks THEN there ELSE NoIce
  <1>1. /\ offers[n].at = "baseline" /\ Advance(n, "begin")
        /\ held' = [held EXCEPT !.base = base]
        /\ signaling' = signaling /\ ice' = ice /\ poll' = poll /\ remote' = remote
        /\ shown' = shown /\ handed' = handed
        BY DEF ReadBaseline, Offer
  <1>2. /\ offers' \in Seq(OfferRecords) /\ Len(offers') = Len(offers)
        /\ \A m \in 1 .. Len(offers) :
              /\ offers'[m].kind = offers[m].kind /\ offers'[m].creds = offers[m].creds
              /\ offers'[m].at = IF m = n THEN "begin" ELSE offers[m].at
        BY <1>1, Advanced DEF SigInv, Stages, AtWork
  <1>3. /\ ice = n /\ n \in Nat /\ Len(offers) \in Nat
        /\ \A m \in 1 .. Len(offers) :
              /\ m # n => offers[m].at \in {"waiting", "done", "failed"}
              /\ m < n => Over(m)
        /\ \A q \in Polls : poll[q].at # "reading" /\ ice # q
        BY <1>1, AtHand DEF AtWork
  <1>4. base \in Bases
        BY StateFields, ResponseTyped, NotHeldTyped DEF SigInv
  <1>5. NewIce(n) /\ remote.slot.of # 0 => base = Response
    <2>1. remote.slot.of # 0 => signaling.creds # 0
          BY StateFields DEF SigInv, Progressed
    <2>2. Response.known = (remote.slot.of # 0)
          BY DEF Response
    <2> QED
      BY <2>1, <2>2
  <1> HIDE DEF base
  <1>6. /\ held'.before = held.before /\ held'.slot = held.slot /\ held'.previous = held.previous
        /\ held'.base = base /\ held' \in Locals
        BY <1>1, <1>4, StateFields DEF Locals, SigInv
  <1>7. SigTyped'
        BY <1>1, <1>2, <1>6 DEF SigInv, SigTyped
  <1>8. Queue'
        BY <1>1, <1>2, QueueStands DEF AtWork
  <1>9. Progressed'
        BY <1>1, <1>2, <1>3 DEF SigInv, Progressed, Over, Ahead
  <1>10. Before'
    <2>1. NotAfter(held.slot, remote.slot) /\ NotAfter(shown.slot, remote.slot)
          /\ held.before <= remote.answer
          BY DEF SigInv, Before
    <2>2. RequireFresh(n)' = RequireFresh(n)
          BY <1>1, <1>2 DEF RequireFresh, NewIce, Offer
    <2>3. \A m \in 1 .. Len(offers') : m # n
            => offers'[m].at \notin {"baseline", "begin", "sendFresh", "fresh"}
          BY <1>2, <1>3
    <2>4. offers'[n].at = "begin"
          BY <1>2
    <2>5. RequireFresh(n) => held.before \in {0, held.previous} \/ held.before < remote.answer
          BY <1>1 DEF SigInv, Before
    <2> QED
      BY <1>1, <1>2, <1>6, <2>1, <2>2, <2>3, <2>4, <2>5 DEF Before, NotAfter
  <1>11. Based'
    <2>1. \A m \in 1 .. Len(offers') : m # n => offers'[m].at \notin {"begin", "sendFresh", "fresh"}
          BY <1>2, <1>3
    <2>2. NewIce(n)' = NewIce(n)
          BY <1>1, <1>2 DEF NewIce, Offer
    <2>3. offers'[n].at = "begin"
          BY <1>2
    <2> QED
      BY <1>1, <1>2, <1>5, <1>6, <2>1, <2>2, <2>3, ResponseStands DEF SigInv, Based
  <1> QED
    BY <1>7, <1>8, <1>9, <1>10, <1>11 DEF SigInv

\* The page's state begins the offer.
LEMMA BeginOfferKeeps ==
    ASSUME SigInv, NEW n \in 1 .. Len(offers), BeginOffer(n)
    PROVE  SigInv'
  <1> DEFINE step == IF RequireFresh(n) THEN "sendFresh" ELSE "send"
  <1>1. /\ offers[n].at = "begin" /\ Advance(n, step)
        /\ signaling' = IF NewIce(n)
                        THEN [signaling EXCEPT !.started = TRUE, !.gen = @ + 1,
                               !.creds = offers[n].creds,
                                               !.baseline = held.base, !.polled = NoIce]
                        ELSE [signaling EXCEPT !.started = TRUE]
        /\ shown' = IF NewIce(n) THEN [slot |-> held.slot, late |-> FALSE] ELSE shown
        /\ held' = [held EXCEPT !.base = NoIce, !.slot = NoSlot]
        /\ ice' = ice /\ poll' = poll /\ remote' = remote /\ handed' = handed
        BY DEF BeginOffer, Offer
  <1>2. /\ offers' \in Seq(OfferRecords) /\ Len(offers') = Len(offers)
        /\ \A m \in 1 .. Len(offers) :
              /\ offers'[m].kind = offers[m].kind /\ offers'[m].creds = offers[m].creds
              /\ offers'[m].at = IF m = n THEN step ELSE offers[m].at
        BY <1>1, Advanced DEF SigInv, Stages, AtWork
  <1>3. /\ ice = n /\ n \in Nat /\ Len(offers) \in Nat
        /\ \A m \in 1 .. Len(offers) :
              /\ m # n => offers[m].at \in {"waiting", "done", "failed"}
              /\ m < n => Over(m)
        /\ \A q \in Polls : poll[q].at # "reading" /\ ice # q
        BY <1>1, AtHand DEF AtWork
  <1>4. /\ held'.before = held.before /\ held'.slot = NoSlot /\ held'.previous = held.previous
        /\ held' \in Locals
        BY <1>1, StateFields, NotHeldTyped DEF Locals, SigInv
  <1>5. /\ offers[n].kind # "past" /\ offers[n].creds \in 1 .. n
        /\ signaling.gen < n /\ signaling.creds < n /\ remote.posted < n /\ signaling.ufrag < n
        BY <1>1 DEF SigInv, Queue, Progressed, Over, Ahead
  <1>p. offers[n].kind = "peer" => signaling.creds # offers[n].creds
    <2>1. offers[n].kind = "peer" => offers[n].creds = n
          BY DEF SigInv, Queue
    <2>2. signaling.creds \in Nat
          BY StateFields DEF SigInv
    <2> QED
      BY <1>3, <1>5, <2>1, <2>2
  <1>6. /\ signaling'.started = TRUE /\ signaling'.ufrag = signaling.ufrag /\ signaling' \in Signals
        /\ signaling'.gen \in Nat /\ signaling'.gen <= n
        /\ signaling'.creds \in 1 .. n
        /\ NewIce(n) => signaling'.baseline = held.base
        /\ ~NewIce(n) => signaling'.baseline = signaling.baseline
    <2>1. CASE NewIce(n)
      <3>1. signaling' = [gen |-> signaling.gen + 1, started |-> TRUE, creds |-> offers[n].creds,
                          answers |-> signaling.answers, polled |-> NoIce,
                          baseline |-> held.base, ufrag |-> signaling.ufrag]
            BY <1>1, <2>1, StateFields DEF SigInv
      <3>2. /\ signaling.gen + 1 \in Nat /\ signaling.gen + 1 <= n /\ offers[n].creds \in Nat
            /\ NoIce \in Bases /\ held.base \in Bases
        <4>1. signaling.gen \in Nat /\ held.base \in Bases /\ NoIce \in Bases
              BY StateFields, NotHeldTyped DEF SigInv
        <4> QED
          BY <4>1, <1>3, <1>5
      <3>3. signaling' \in Signals
            BY <3>1, <3>2, StateFields DEF SigInv, Signals
      <3> QED
        BY <3>1, <3>2, <3>3, <2>1, <1>5
    <2>2. CASE ~NewIce(n)
      <3>1. signaling' = [gen |-> signaling.gen, started |-> TRUE, creds |-> signaling.creds,
                          answers |-> signaling.answers, polled |-> signaling.polled,
                          baseline |-> signaling.baseline, ufrag |-> signaling.ufrag]
            BY <1>1, <2>2, StateFields DEF SigInv
      <3>2. offers[n].kind \in {"quality", "chat"}
        <4>1. offers[n].kind # "peer" /\ offers[n].kind # "restart"
              BY <2>2, <1>p DEF NewIce, Offer
        <4> QED
          BY <4>1, <1>5, OfferFields DEF SigInv
      <3>3. signaling.creds # 0
            BY <3>2 DEF SigInv, Queue
      <3>4. signaling' = [signaling EXCEPT !.started = TRUE]
            BY <1>1, <2>2
      <3>5. signaling' \in Signals
        <4>1. signaling \in Signals
              BY DEF SigInv, SigTyped
        <4> QED
          BY <3>4, <4>1 DEF Signals
      <3>6. signaling.gen \in Nat /\ signaling.creds \in Nat
            BY StateFields DEF SigInv
      <3> QED
        BY <3>1, <3>3, <3>5, <3>6, <2>2, <1>3, <1>5
    <2> QED
      BY <2>1, <2>2
  <1>7. step = "send" => offers[n].kind = "quality"
    <2>1. step = "send" => ~NewIce(n) /\ offers[n].kind # "restart" /\ offers[n].kind # "chat"
          BY DEF RequireFresh, Offer
    <2>2. ~NewIce(n) => offers[n].kind # "peer"
          BY <1>p DEF NewIce, Offer
    <2> QED
      BY <1>5, <2>1, <2>2, OfferFields DEF SigInv
  <1>8. /\ shown' \in [slot : Slots, late : BOOLEAN]
        /\ NewIce(n) => shown'.slot = held.slot
        /\ ~NewIce(n) => shown' = shown
        BY <1>1, StateFields DEF SigInv
  <1>9. step \in {"sendFresh", "send"} /\ (step = "sendFresh") = RequireFresh(n)
        BY DEF RequireFresh, NewIce
  <1> HIDE DEF step
  <1>10. SigTyped'
        BY <1>1, <1>2, <1>4, <1>6, <1>8 DEF SigInv, SigTyped
  <1>11. Queue'
    <2>1. signaling.creds # 0 => signaling'.creds # 0
          BY <1>6
    <2> QED
      BY SMTT(20), <1>1, <1>2, <1>6, <1>9, <2>1, QueueStands DEF AtWork
  <1>12. Progressed'
    <2>1. signaling'.gen <= Len(offers) /\ signaling'.creds <= Len(offers)
      <3>1. n <= Len(offers)
            BY <1>3
      <3>2. signaling'.gen \in Nat /\ signaling'.gen <= n /\ signaling'.creds \in Nat /\ signaling'.creds <= n
            BY <1>3, <1>6
      <3> QED
        BY <1>3, <3>1, <3>2
    <2>2. \A m \in 1 .. Len(offers') : offers'[m].at \in Ahead => signaling'.gen < m
          /\ signaling'.creds < m
          BY <1>2, <1>3, <1>6, <1>9 DEF Over, Ahead
    <2>3. ASSUME NEW m \in 1 .. Len(offers')
          PROVE  /\ offers'[m].at \in Ahead \cup {"sendFresh", "send"} => remote.posted < m
                 /\ offers'[m].at \in {"fresh", "any"} => remote.posted = m
                 /\ ~Over(m)' => signaling.ufrag < m
                 /\ offers'[m].at \in {"send", "any"} => offers'[m].kind = "quality"
                 /\ offers'[m].at = "any" => ~remote.renews
                 /\ offers'[m].at \in {"sendFresh", "send", "fresh", "any"} => signaling'.started
      <3>1. CASE m = n
            BY <3>1, <1>2, <1>5, <1>6, <1>7, <1>9
      <3>2. CASE m # n
            BY <3>2, <1>2, <1>6 DEF SigInv, Progressed, Over
      <3> QED
        BY <3>1, <3>2
    <2>4. /\ remote' = remote /\ handed' = handed /\ Len(offers') = Len(offers)
          /\ signaling'.started = TRUE /\ signaling'.ufrag = signaling.ufrag /\ signaling'.creds # 0
          BY <1>1, <1>2, <1>6
    <2> QED
      BY <2>1, <2>2, <2>3, <2>4 DEF SigInv, Progressed
  <1>13. Before'
    <2>1. NotAfter(held.slot, remote.slot) /\ NotAfter(shown.slot, remote.slot)
          /\ held.before <= remote.answer
          BY DEF SigInv, Before
    <2>2. NotAfter(NoSlot, remote.slot)
          BY StateFields DEF NotAfter, NoSlot, SigInv, Progressed
    <2>3. \A m \in 1 .. Len(offers') : m # n
            => offers'[m].at \notin {"baseline", "begin", "sendFresh", "fresh"}
          BY <1>2, <1>3
    <2>4. RequireFresh(n) => held.before \in {0, held.previous} \/ held.before < remote.answer
          BY <1>1 DEF SigInv, Before
    <2>5. NotAfter(shown'.slot, remote.slot)
          BY <1>8, <2>1 DEF NotAfter
    <2> QED
      BY <1>1, <1>2, <1>4, <1>9, <2>1, <2>2, <2>3, <2>4, <2>5 DEF Before, NotAfter
  <1>14. Based'
    <2>1. \A m \in 1 .. Len(offers') : m # n => offers'[m].at \notin {"begin", "sendFresh", "fresh"}
          BY <1>2, <1>3
    <2>2. offers'[n].at = step /\ offers'[n].kind = offers[n].kind
          BY <1>2
    <2>3. NewIce(n) /\ held.slot = remote.slot /\ remote.slot.of # 0 => held.base = Response
          BY <1>1 DEF SigInv, Based
    <2>4. Response' = Response
          BY <1>1, ResponseStands
    <2>5. step = "sendFresh" /\ offers[n].kind # "chat" => NewIce(n)
          BY <1>9 DEF RequireFresh, NewIce, Offer
    <2>6. CASE NewIce(n)
          BY <1>1, <1>6, <1>8, <1>9, <2>1, <2>2, <2>3, <2>4, <2>6 DEF SigInv, Based
    <2>7. CASE ~NewIce(n)
          BY <1>1, <1>6, <1>8, <1>9, <2>1, <2>2, <2>4, <2>5, <2>7 DEF SigInv, Based
    <2> QED
      BY <2>6, <2>7
  <1> QED
    BY <1>10, <1>11, <1>12, <1>13, <1>14 DEF SigInv

\* The service after an offer was sent.
LEMMA PostedTyped ==
    ASSUME SigInv, NEW n \in 1 .. Len(offers)
    PROVE  /\ Posted(n) \in Services /\ Posted(n).posted = n
           /\ Posted(n).answer = remote.answer /\ Posted(n).ufrag = remote.ufrag
              /\ Posted(n).slot = remote.slot
           /\ Posted(n).marks = remote.marks /\ Posted(n).address = remote.address
           /\ Posted(n).renews = (offers[n].kind \in {"peer", "restart"})
  <1> DEFINE renews == offers[n].kind \in {"peer", "restart"}
  <1>1. Posted(n) = [remote EXCEPT !.posted = n, !.renews = renews]
        BY DEF Posted, Offer
  <1>2. n \in Nat /\ renews \in BOOLEAN
        BY OfferFields DEF SigInv
  <1> HIDE DEF renews
  <1>3. Posted(n) = [posted |-> n, answer |-> remote.answer, ufrag |-> remote.ufrag,
          slot |-> remote.slot,
                     marks |-> remote.marks, renews |-> renews, address |-> remote.address]
        BY <1>1, StateFields DEF SigInv
  <1>4. Posted(n) \in Services
        BY <1>2, <1>3, StateFields DEF SigInv, Services
  <1> QED
    BY <1>3, <1>4 DEF renews

\* Sending an offer leaves the baseline of the old candidates where it is.
LEMMA PostedBased ==
    ASSUME SigInv, NEW n \in 1 .. Len(offers), offers[n].at \in {"sendFresh", "send"},
           ~shown.late, shown.slot = remote.slot, remote.slot.of # 0
    PROVE  \/ signaling.baseline = Response
           \/ /\ signaling.ufrag = remote.slot.of /\ remote.ufrag = remote.slot.of
              /\ offers[n].kind \notin {"peer", "restart"}
  <1>1. CASE offers[n].kind \in {"peer", "restart"}
    <2>1. offers[n].at = "sendFresh"
          BY <1>1 DEF SigInv, Progressed
    <2> QED
      BY <1>1, <2>1 DEF SigInv, Based
  <1>2. CASE offers[n].kind \notin {"peer", "restart"}
        BY <1>2 DEF SigInv, Based
  <1> QED
    BY <1>1, <1>2

\* An offer is sent.
LEMMA SendOfferKeeps ==
    ASSUME SigInv, NEW n \in 1 .. Len(offers), SendOffer(n)
    PROVE  SigInv'
  <1> DEFINE step == IF offers[n].at = "sendFresh" THEN "fresh" ELSE "any"
  <1>1. /\ offers[n].at \in {"sendFresh", "send"} /\ Advance(n, step) /\ remote' = Posted(n)
        /\ held' = held /\ signaling' = signaling /\ ice' = ice /\ poll' = poll
        /\ shown' = shown /\ handed' = handed
        BY DEF SendOffer, Offer
  <1>2. /\ offers' \in Seq(OfferRecords) /\ Len(offers') = Len(offers)
        /\ \A m \in 1 .. Len(offers) :
              /\ offers'[m].kind = offers[m].kind /\ offers'[m].creds = offers[m].creds
              /\ offers'[m].at = IF m = n THEN step ELSE offers[m].at
        BY <1>1, Advanced DEF SigInv, Stages, AtWork
  <1>3. /\ ice = n /\ n \in Nat /\ Len(offers) \in Nat
        /\ \A m \in 1 .. Len(offers) :
              /\ m # n => offers[m].at \in {"waiting", "done", "failed"}
              /\ m < n => Over(m)
        BY <1>1, AtHand DEF AtWork
  <1>4. /\ remote' \in Services /\ remote'.posted = n
        /\ remote'.answer = remote.answer /\ remote'.ufrag = remote.ufrag
           /\ remote'.slot = remote.slot
        /\ remote'.marks = remote.marks /\ remote'.address = remote.address
        /\ remote'.renews = (offers[n].kind \in {"peer", "restart"})
        BY <1>1, PostedTyped
  <1>5. remote.posted < n /\ signaling.ufrag < n /\ signaling.started
        BY <1>1 DEF SigInv, Progressed, Over
  <1>6. step \in {"fresh", "any"} /\ (step = "any" => offers[n].kind = "quality")
        /\ (step = "fresh") = (offers[n].at = "sendFresh")
        BY <1>1 DEF SigInv, Progressed
  <1> HIDE DEF step
  <1>7. SigTyped'
        BY <1>1, <1>2, <1>4 DEF SigInv, SigTyped
  <1>8. Queue'
        BY <1>1, <1>2, <1>4, <1>6, QueueStands DEF AtWork
  <1>9. Progressed'
    <2>1. ASSUME NEW m \in 1 .. Len(offers')
          PROVE  /\ offers'[m].at \in Ahead => signaling.gen < m /\ signaling.creds < m
                 /\ offers'[m].at \in Ahead \cup {"sendFresh", "send"} => n < m
                 /\ offers'[m].at \in {"fresh", "any"} => n = m
                 /\ ~Over(m)' => signaling.ufrag < m
                 /\ offers'[m].at \in {"send", "any"} => offers'[m].kind = "quality"
                 /\ offers'[m].at = "any" => ~remote'.renews
      <3>1. CASE m = n
            BY <3>1, <1>2, <1>4, <1>5, <1>6 DEF Ahead
      <3>2. CASE m # n
            BY <3>2, <1>2, <1>3 DEF SigInv, Progressed, Over, Ahead
      <3> QED
        BY <3>1, <3>2
    <2>2. remote.ufrag <= n /\ remote.answer <= n /\ n <= Len(offers) /\ signaling.ufrag <= n
          BY SMTT(20), <1>3, <1>5, StateFields DEF SigInv, Progressed
    <2> QED
      BY <1>1, <1>2, <1>4, <1>5, <2>1, <2>2 DEF SigInv, Progressed
  <1>10. Before'
    <2>1. NotAfter(held.slot, remote.slot) /\ NotAfter(shown.slot, remote.slot)
          /\ held.before <= remote.answer
          BY DEF SigInv, Before
    <2>2. \A m \in 1 .. Len(offers') : m # n
            => offers'[m].at \notin {"baseline", "begin", "sendFresh", "fresh"}
          BY <1>2, <1>3
    <2>3. offers'[n].at = step
          BY <1>2
    <2>4. step = "fresh" => held.before \in {0, held.previous} \/ held.before < remote.answer
          BY <1>6 DEF SigInv, Before
    <2> QED
      BY <1>1, <1>4, <1>6, <2>1, <2>2, <2>3, <2>4 DEF Before, NotAfter
  <1>11. Based'
    <2>1. \A m \in 1 .. Len(offers') : m # n => offers'[m].at \notin {"begin", "sendFresh", "fresh"}
          BY <1>2, <1>3
    <2>2. offers'[n].at = step /\ offers'[n].kind = offers[n].kind
          BY <1>2
    <2>3. Response' = Response
          BY <1>4, ResponseStands
    <2>4. step = "fresh" /\ offers[n].kind # "chat" /\ shown.slot = remote.slot
          /\ remote.slot.of # 0
             => signaling.baseline = Response
          BY <1>6 DEF SigInv, Based
    <2> QED
      BY <1>1, <1>4, <1>6, <2>1, <2>2, <2>3, <2>4, PostedBased DEF Based
  <1> QED
    BY <1>7, <1>8, <1>9, <1>10, <1>11 DEF SigInv

\* An offer that ends frees the lock.
LEMMA QueueEnds ==
    ASSUME SigInv, NEW n \in 1 .. Len(offers), ~Over(n), NEW how \in {"done", "failed"},
           Len(offers') = Len(offers),
           \A m \in 1 .. Len(offers) :
              /\ offers'[m].at = IF m = n THEN how ELSE offers[m].at
              /\ \/ offers'[m].kind = offers[m].kind /\ offers'[m].creds = offers[m].creds
                 \/ /\ offers'[m].kind = "past" /\ m < Len(offers)
                    /\ m = n \/ offers[m].at \in {"done", "failed"},
           how = "done" => offers[n].at \in AtWork,
           ice' = IF ice = n THEN 0 ELSE ice,
           poll' = poll, remote'.slot = remote.slot,
           signaling'.ufrag = signaling.ufrag \/ offers[n].at \in AtWork,
             signaling'.creds = signaling.creds
    PROVE  Queue'
  <1>1. Len(offers) \in Nat /\ n \in Nat
        BY OfferFields DEF SigInv
  <1>2. \A m \in 1 .. Len(offers) : Over(m) => Over(m)'
        BY DEF Over
  <1>3. offers' # <<>> => offers'[Len(offers')].kind # "past"
    <2>1. offers' # <<>> => offers # <<>>
          BY <1>1
    <2>2. offers # <<>> => Len(offers) \in 1 .. Len(offers)
          BY <1>1
    <2> QED
      BY <1>1, <2>1, <2>2 DEF SigInv, Queue
  <1>4. \A q \in Polls : poll'[q].at = "reading" <=> ice' = q
    <2>1. CASE ice = n
          BY <2>1, <1>1, SignalingAssumption DEF SigInv, Queue
    <2>2. CASE ice # n
          BY <2>2 DEF SigInv, Queue
    <2> QED
      BY <2>1, <2>2
  <1>5. ASSUME NEW m \in 1 .. Len(offers)
        PROVE  /\ ice' = m <=> offers'[m].at \in AtWork
               /\ offers'[m].kind # "past" => offers'[m].creds \in 1 .. m
               /\ offers'[m].kind \in {"peer", "restart"} => offers'[m].creds = m
               /\ offers'[m].kind \in {"quality", "chat"} => signaling'.creds # 0
               /\ offers'[m].kind = "past" => Over(m)'
    <2>1. m \in Nat /\ m # 0
          BY <1>1
    <2>2. ice' = m <=> offers'[m].at \in AtWork
          BY <2>1, <1>1 DEF SigInv, Queue, AtWork
    <2> QED
      BY <2>2 DEF SigInv, Queue, Over
  <1>6. ASSUME NEW m \in 1 .. Len(offers), offers'[m].at \notin {"waiting", "failed"}
        PROVE  \A k \in 1 .. m - 1 : Over(k)'
    <2>1. offers[m].at \notin {"waiting", "failed"}
          BY <1>6 DEF AtWork
    <2>2. \A k \in 1 .. m - 1 : k \in 1 .. Len(offers) /\ Over(k)
          BY <1>1, <2>1 DEF SigInv, Queue
    <2> QED
      BY <1>2, <2>2
  <1>7. ASSUME NEW m \in 1 .. Len(offers), offers'[m].kind = "quality", ~Over(m)'
        PROVE  (\A k \in 1 .. m - 1 : Over(k)') /\ signaling'.ufrag <= remote'.slot.of
    <2>1. m # n /\ offers[m].kind = "quality" /\ ~Over(m)
          BY <1>7 DEF Over
    <2>2. (\A k \in 1 .. m - 1 : k \in 1 .. Len(offers) /\ Over(k))
          /\ signaling.ufrag <= remote.slot.of
          BY <1>1, <2>1 DEF SigInv, Queue
    <2>3. offers[n].at \notin AtWork
      <3>1. n \notin 1 .. m - 1
            BY <2>2
      <3>2. m < n
            BY <3>1, <2>1, <1>1
      <3> QED
        BY <3>2, <2>1, AtHand
    <2> QED
      BY <1>2, <2>2, <2>3
  <1> QED
    BY <1>3, <1>4, <1>5, <1>6, <1>7 DEF Queue

\* An offer fails at any of its steps.
LEMMA OfferFailsKeeps ==
    ASSUME SigInv, NEW n \in 1 .. Len(offers), OfferFails(n)
    PROVE  SigInv'
  <1>1. /\ ~Over(n) /\ EndExchange(n, "failed")
        /\ ice' = IF ice = n THEN 0 ELSE ice
        /\ signaling' = signaling /\ poll' = poll /\ shown' = shown /\ handed' = handed
        BY DEF OfferFails, Offer, Over
  <1>2. remote' = remote \/ (offers[n].at \in {"sendFresh", "send"} /\ remote' = Posted(n))
        BY DEF OfferFails, Offer
  <1>3. /\ offers' \in Seq(OfferRecords) /\ Len(offers') = Len(offers)
        /\ \A m \in 1 .. Len(offers) :
              /\ offers'[m].at = IF m = n THEN "failed" ELSE offers[m].at
              /\ \/ offers'[m].kind = offers[m].kind /\ offers'[m].creds = offers[m].creds
                 \/ /\ offers'[m].kind = "past" /\ m < Len(offers)
                    /\ m = n \/ offers[m].at \in {"done", "failed"}
        /\ held' = IF ice = n THEN NotHeld ELSE held
        BY <1>1, EndedTyped DEF SigInv
  <1>4. /\ remote' \in Services /\ remote'.slot = remote.slot /\ remote'.answer = remote.answer
        /\ remote'.ufrag = remote.ufrag /\ remote'.marks = remote.marks
           /\ remote'.address = remote.address
        /\ \/ remote'.posted = remote.posted /\ remote'.renews = remote.renews
           \/ /\ offers[n].at \in {"sendFresh", "send"} /\ remote'.posted = n
              /\ remote'.renews = (offers[n].kind \in {"peer", "restart"})
    <2>1. CASE remote' = remote
          BY <2>1 DEF SigInv, SigTyped
    <2>2. CASE offers[n].at \in {"sendFresh", "send"} /\ remote' = Posted(n)
          BY <2>2, PostedTyped
    <2> QED
      BY <1>2, <2>1, <2>2
  <1>5. n \in Nat /\ Len(offers) \in Nat
        BY OfferFields DEF SigInv
  <1>6. offers[n].at \in AtWork => ice = n
        BY DEF SigInv, Queue
  <1>7. SigTyped'
    <2>1. held' \in Locals
          BY <1>3, NotHeldTyped, StateFields DEF SigInv, SigTyped
    <2>2. ice' \in (0 .. Len(offers)) \cup Polls
          BY <1>1, <1>5 DEF SigInv, SigTyped
    <2> QED
      BY <1>1, <1>3, <1>4, <2>1, <2>2 DEF SigInv, SigTyped
  <1>8. Queue'
        BY <1>1, <1>3, <1>4, QueueEnds
  <1>9. Progressed'
    <2>1. CASE remote'.posted = remote.posted /\ remote'.renews = remote.renews
      <3>1. ASSUME NEW m \in 1 .. Len(offers')
            PROVE  /\ offers'[m].at \in Ahead => signaling.gen < m /\ signaling.creds < m
                   /\ offers'[m].at \in Ahead \cup {"sendFresh", "send"} => remote.posted < m
                   /\ offers'[m].at \in {"fresh", "any"} => remote.posted = m
                   /\ ~Over(m)' => signaling.ufrag < m
                   /\ offers'[m].at \in {"send", "any"} => offers'[m].kind = "quality"
                   /\ offers'[m].at = "any" => ~remote.renews
                   /\ offers'[m].at \in {"sendFresh", "send", "fresh", "any"} => signaling.started
        <4>1. CASE m = n
              BY <4>1, <1>3 DEF Over, Ahead
        <4>2. CASE m # n
              BY <4>2, <1>3 DEF SigInv, Progressed, Over
        <4> QED
          BY <4>1, <4>2
      <3> QED
        BY <1>1, <1>3, <1>4, <2>1, <3>1 DEF SigInv, Progressed
    <2>2. CASE /\ offers[n].at \in {"sendFresh", "send"} /\ remote'.posted = n
               /\ remote'.renews = (offers[n].kind \in {"peer", "restart"})
      <3>1. /\ \A m \in 1 .. Len(offers) :
                  /\ m # n => offers[m].at \in {"waiting", "done", "failed"}
                  /\ m < n => Over(m)
            BY <2>2, AtHand DEF AtWork
      <3>2. remote.posted < n /\ signaling.ufrag < n /\ signaling.started
            BY <2>2 DEF SigInv, Progressed, Over
      <3>3. ASSUME NEW m \in 1 .. Len(offers')
            PROVE  /\ offers'[m].at \in Ahead => signaling.gen < m /\ signaling.creds < m
                   /\ offers'[m].at \in Ahead \cup {"sendFresh", "send"} => n < m
                   /\ ~Over(m)' => signaling.ufrag < m
                   /\ offers'[m].at \notin {"sendFresh", "send", "fresh", "any"}
        <4>1. CASE m = n
              BY <4>1, <1>3 DEF Over, Ahead
        <4>2. CASE m # n
          <5>1. offers'[m].at = offers[m].at /\ offers[m].at \in {"waiting", "done", "failed"}
                BY <4>2, <1>3, <3>1
          <5>2. offers[m].at = "waiting" => n < m
                BY <4>2, <1>3, <1>5, <3>1 DEF Over
          <5>3. offers[m].at = "waiting" => signaling.gen < m /\ signaling.creds < m
                /\ signaling.ufrag < m
                BY <1>3 DEF SigInv, Progressed, Over, Ahead
          <5> QED
            BY <5>1, <5>2, <5>3 DEF Over, Ahead
        <4> QED
          BY <4>1, <4>2
      <3>4. remote.ufrag <= n /\ remote.answer <= n /\ n <= Len(offers) /\ signaling.ufrag <= n
            BY SMTT(20), <1>5, <3>2, StateFields DEF SigInv, Progressed
      <3> QED
        BY <1>1, <1>3, <1>4, <2>2, <3>2, <3>3, <3>4 DEF SigInv, Progressed
    <2> QED
      BY <1>4, <2>1, <2>2
  <1>10. Before'
    <2>1. NotAfter(held.slot, remote.slot) /\ NotAfter(shown.slot, remote.slot)
          /\ held.before <= remote.answer
          BY DEF SigInv, Before
    <2>2. CASE offers[n].at \in AtWork
      <3>1. \A m \in 1 .. Len(offers') : offers'[m].at \notin {"baseline", "begin", "sendFresh",
              "fresh"}
            BY <1>3, <2>2, AtHand
      <3>2. held' = NotHeld
            BY <1>3, <1>6, <2>2
      <3>3. NotAfter(held'.slot, remote.slot) /\ held'.before <= remote.answer
            BY <3>2, StateFields DEF NotAfter, NotHeld, NoSlot, SigInv, Progressed
      <3> QED
        BY <1>1, <1>4, <2>1, <3>1, <3>3 DEF Before, NotAfter
    <2>3. CASE offers[n].at \notin AtWork
      <3>1. held' = held
            BY <1>3, <2>3 DEF SigInv, Queue
      <3>2. \A m \in 1 .. Len(offers) :
               /\ offers'[m].at \in AtWork => offers'[m].at = offers[m].at
                  /\ offers'[m].kind = offers[m].kind
                                              /\ offers'[m].creds = offers[m].creds
               /\ offers'[m].at \in {"baseline", "begin", "sendFresh", "fresh"}
                    => offers'[m].at \in AtWork
            BY <1>3, <2>3 DEF AtWork
      <3>3. ASSUME NEW m \in 1 .. Len(offers), offers'[m].at \in AtWork
            PROVE  RequireFresh(m)' = RequireFresh(m)
            BY <1>1, <3>2, <3>3 DEF RequireFresh, NewIce, Offer
      <3> QED
        BY <1>1, <1>3, <1>4, <2>1, <3>1, <3>2, <3>3 DEF SigInv, Before, NotAfter
    <2> QED
      BY <2>2, <2>3
  <1>11. Based'
    <2>1. Response' = Response
          BY <1>4, ResponseStands
    <2>2. \A m \in 1 .. Len(offers) :
             /\ offers'[m].at \in AtWork => offers'[m].at = offers[m].at
                /\ offers'[m].kind = offers[m].kind
                                            /\ offers'[m].creds = offers[m].creds /\ m # n
             /\ offers'[m].at \in {"begin", "sendFresh", "fresh"} => offers'[m].at \in AtWork
          BY <1>3 DEF AtWork
    <2>3. ASSUME NEW m \in 1 .. Len(offers), offers'[m].at \in AtWork
          PROVE  NewIce(m)' = NewIce(m) /\ held' = held
      <3>1. NewIce(m)' = NewIce(m)
            BY <1>1, <2>2, <2>3 DEF NewIce, Offer
      <3>2. ice = m /\ m # n
            BY <2>2, <2>3 DEF SigInv, Queue
      <3> QED
        BY <3>1, <3>2, <1>3
    <2>4. ASSUME ~shown.late, shown.slot = remote.slot, remote.slot.of # 0
          PROVE  \/ signaling.baseline = Response
                 \/ /\ signaling.ufrag = remote.slot.of /\ remote.ufrag = remote.slot.of
                    /\ remote'.answer = remote'.posted \/ ~remote'.renews
          BY <1>4, <2>4, PostedBased DEF SigInv, Based
    <2>5. ASSUME NEW m \in 1 .. Len(offers')
          PROVE  /\ offers'[m].at = "begin" /\ NewIce(m)' /\ held'.slot = remote.slot
                    /\ remote.slot.of # 0
                       => held'.base = Response
                 /\ offers'[m].at \in {"sendFresh", "fresh"} /\ offers'[m].kind # "chat"
                    /\ shown.slot = remote.slot /\ remote.slot.of # 0
                       => signaling.baseline = Response
          BY <1>3, <2>2, <2>3 DEF SigInv, Based
    <2> QED
      BY <1>1, <1>4, <2>1, <2>4, <2>5 DEF Based
  <1> QED
    BY <1>7, <1>8, <1>9, <1>10, <1>11 DEF SigInv

\* An offer is given an answer: its own, or the late one of an offer before it.
LEMMA TakeAnswerKeeps ==
    ASSUME SigInv, NEW n \in 1 .. Len(offers), TakeAnswer(n)
    PROVE  SigInv'
  <1>1. /\ offers[n].at \in {"fresh", "any"} /\ EndExchange(n, "done") /\ ice' = 0
        /\ remote.answer # 0
        /\ signaling' = ApplyAnswer(signaling, n)
        /\ poll' = poll /\ remote' = remote /\ handed' = handed
        /\ shown' = [shown EXCEPT !.late = @ \/ (Channel(n) = "media" /\ offers[n].at = "fresh"
           /\ remote.answer # n)]
        BY DEF TakeAnswer, Offer
  <1>2. /\ ice = n /\ n \in Nat /\ Len(offers) \in Nat /\ ~Over(n)
        /\ \A m \in 1 .. Len(offers) :
              /\ m # n => offers[m].at \in {"waiting", "done", "failed"}
              /\ m < n => Over(m)
        BY <1>1, AtHand DEF AtWork, Over
  <1>3. /\ offers' \in Seq(OfferRecords) /\ Len(offers') = Len(offers)
        /\ \A m \in 1 .. Len(offers) :
              /\ offers'[m].at = IF m = n THEN "done" ELSE offers[m].at
              /\ \/ offers'[m].kind = offers[m].kind /\ offers'[m].creds = offers[m].creds
                 \/ /\ offers'[m].kind = "past" /\ m < Len(offers)
                    /\ m = n \/ offers[m].at \in {"done", "failed"}
        /\ held' = NotHeld
        BY <1>1, <1>2, EndedTyped DEF SigInv
  <1>4. /\ signaling' \in Signals /\ signaling'.gen = signaling.gen
           /\ signaling'.started = signaling.started
        /\ signaling'.creds = signaling.creds
        /\ IF offers[n].kind = "chat"
           THEN signaling'.ufrag = signaling.ufrag /\ signaling'.baseline = signaling.baseline
           ELSE /\ signaling'.ufrag = remote.ufrag
                /\ signaling'.baseline = IF remote.ufrag = signaling.ufrag THEN NoIce ELSE signaling.baseline
    <2>0. [signaling.answers EXCEPT !.chat = remote.answer] \in [media : Nat, chat : Nat]
          /\ [signaling.answers EXCEPT !.media = remote.answer] \in [media : Nat, chat : Nat]
          BY StateFields DEF SigInv
    <2>1. CASE offers[n].kind = "chat"
      <3>1. signaling' = [signaling EXCEPT !.answers["chat"] = remote.answer]
            BY <1>1, <2>1 DEF ApplyAnswer, Channel, Offer
      <3>2. signaling' = [gen |-> signaling.gen, started |-> signaling.started,
              creds |-> signaling.creds,
                          answers |-> [signaling.answers EXCEPT !.chat = remote.answer],
                          polled |-> signaling.polled, baseline |-> signaling.baseline,
                          ufrag |-> signaling.ufrag]
            BY <3>1, StateFields DEF SigInv
      <3> QED
        BY <3>2, <2>0, <2>1, StateFields DEF SigInv, Signals
    <2>2. CASE offers[n].kind # "chat"
      <3> DEFINE base == IF remote.ufrag = signaling.ufrag THEN NoIce ELSE signaling.baseline
      <3>1. signaling' = [[signaling EXCEPT !.baseline = base, !.ufrag = remote.ufrag]
                             EXCEPT !.answers["media"] = remote.answer]
            BY <1>1, <2>2 DEF ApplyAnswer, Channel, Offer
      <3>2. base \in Bases
            BY StateFields, NotHeldTyped DEF SigInv
      <3> HIDE DEF base
      <3>3. signaling' = [gen |-> signaling.gen, started |-> signaling.started,
              creds |-> signaling.creds,
                          answers |-> [signaling.answers EXCEPT !.media = remote.answer],
                          polled |-> signaling.polled, baseline |-> base, ufrag |-> remote.ufrag]
            BY <3>1, StateFields DEF SigInv
      <3>4. signaling' \in Signals
            BY <3>3, <3>2, <2>0, StateFields DEF SigInv, Signals
      <3>5. signaling'.baseline = base
            BY <3>3
      <3> QED
        BY <3>3, <3>4, <3>5, <2>2 DEF base
    <2> QED
      BY <2>1, <2>2
  <1>5. /\ shown' \in [slot : Slots, late : BOOLEAN] /\ shown'.slot = shown.slot
        /\ shown'.late = (shown.late \/ (offers[n].kind # "chat" /\ offers[n].at = "fresh"
           /\ remote.answer # n))
        BY <1>1, StateFields DEF SigInv, Channel, Offer
  <1>6. remote.posted = n /\ signaling.ufrag < n /\ signaling.started
        BY <1>1, <1>2 DEF SigInv, Progressed
  <1>7. SigTyped'
        BY <1>1, <1>2, <1>3, <1>4, <1>5, NotHeldTyped DEF SigInv, SigTyped
  <1>8. Queue'
    <2>1. offers[n].at \in AtWork
          BY <1>1 DEF AtWork
    <2> QED
      BY <1>1, <1>2, <1>3, <1>4, <2>1, QueueEnds
  <1>9. Progressed'
    <2>1. signaling'.ufrag <= n /\ signaling'.ufrag <= remote.posted
          BY <1>2, <1>4, <1>6, StateFields DEF SigInv, Progressed
    <2>2. ASSUME NEW m \in 1 .. Len(offers')
          PROVE  /\ offers'[m].at \in Ahead => signaling.gen < m /\ signaling.creds < m
                 /\ offers'[m].at \in Ahead \cup {"sendFresh", "send"} => remote.posted < m
                 /\ ~Over(m)' => signaling'.ufrag < m
                 /\ offers'[m].at \notin {"sendFresh", "send", "fresh", "any"}
      <3>1. CASE m = n
            BY <3>1, <1>3 DEF Over, Ahead
      <3>2. CASE m # n
        <4>1. offers'[m].at = offers[m].at /\ offers[m].at \in {"waiting", "done", "failed"}
              BY <3>2, <1>2, <1>3
        <4>2. offers[m].at = "waiting" => n < m
              BY <3>2, <1>2, <1>3 DEF Over
        <4>3. offers[m].at = "waiting" => signaling'.ufrag < m
              BY SMTT(20), <4>2, <2>1, <1>2, <1>3, <1>4, StateFields DEF SigInv
        <4>4. m \in 1 .. Len(offers)
              BY <1>3
        <4>5. offers[m].at = "waiting" => signaling.gen < m /\ signaling.creds < m
              /\ remote.posted < m
              BY <4>4 DEF SigInv, Progressed, Ahead
        <4> QED
          BY <4>1, <4>3, <4>5 DEF Over, Ahead
      <3> QED
        BY <3>1, <3>2
    <2> QED
      BY <1>1, <1>3, <1>4, <1>6, <2>1, <2>2 DEF SigInv, Progressed
  <1>10. Before'
    <2>1. NotAfter(shown.slot, remote.slot)
          BY DEF SigInv, Before
    <2>2. NotAfter(NotHeld.slot, remote.slot) /\ NotHeld.before <= remote.answer
          BY StateFields DEF NotAfter, NotHeld, NoSlot, SigInv, Progressed
    <2>3. \A m \in 1 .. Len(offers') : offers'[m].at \notin {"baseline", "begin", "sendFresh",
            "fresh"}
          BY <1>2, <1>3
    <2> QED
      BY <1>1, <1>3, <1>5, <2>1, <2>2, <2>3 DEF Before, NotAfter
  <1>11. Based'
    <2>1. Response' = Response
          BY <1>1, ResponseStands
    <2>2. \A m \in 1 .. Len(offers') : offers'[m].at \notin {"begin", "sendFresh", "fresh"}
          BY <1>2, <1>3
    <2>3. ASSUME ~shown'.late, shown.slot = remote.slot, remote.slot.of # 0
          PROVE  \/ signaling'.baseline = Response
                 \/ /\ signaling'.ufrag = remote.slot.of /\ remote.ufrag = remote.slot.of
                    /\ remote.answer = remote.posted \/ ~remote.renews
      <3>1. ~shown.late
            BY <1>5, <2>3
      <3>2. CASE offers[n].kind = "chat"
            BY <3>1, <3>2, <1>4, <2>3 DEF SigInv, Based
      <3>3. CASE offers[n].kind # "chat" /\ offers[n].at = "fresh"
        <4>1. remote.answer = n
              BY <3>3, <1>5, <2>3
        <4>2. signaling.baseline = Response
              BY <3>3, <2>3 DEF SigInv, Based
        <4>3. remote.ufrag = signaling.ufrag => remote.ufrag = remote.slot.of
              BY <4>1, <1>6, StateFields DEF SigInv, Progressed
        <4>4. /\ signaling'.ufrag = remote.ufrag
              /\ remote.ufrag # signaling.ufrag => signaling'.baseline = signaling.baseline
              BY <3>3, <1>4
        <4> QED
          BY <4>1, <4>2, <4>3, <4>4, <1>6
      <3>4. CASE offers[n].kind # "chat" /\ offers[n].at = "any"
        <4>1. offers[n].kind = "quality" /\ ~remote.renews
              BY <3>4 DEF SigInv, Progressed
        <4>2. signaling.ufrag <= remote.slot.of
              BY <4>1, <1>2 DEF SigInv, Queue
        <4>3. remote.ufrag = signaling.ufrag => remote.ufrag = remote.slot.of
              BY <4>2, StateFields DEF SigInv, Progressed
        <4>4. /\ signaling'.ufrag = remote.ufrag
              /\ remote.ufrag # signaling.ufrag => signaling'.baseline = signaling.baseline
              BY <3>4, <1>4
        <4>5. signaling.baseline = Response \/ (signaling.ufrag = remote.slot.of
              /\ remote.ufrag = remote.slot.of)
              BY <3>1, <2>3 DEF SigInv, Based
        <4> QED
          BY <4>1, <4>3, <4>4, <4>5
      <3> QED
        BY <3>2, <3>3, <3>4, <1>1
    <2> QED
      BY <1>1, <1>5, <2>1, <2>2, <2>3 DEF Based
  <1> QED
    BY <1>7, <1>8, <1>9, <1>10, <1>11 DEF SigInv

\* The page makes an offer.
LEMMA MakeOfferKeeps ==
    ASSUME SigInv, NEW kind \in {"peer", "restart", "quality", "chat"}, MakeOffer(kind)
    PROVE  SigInv'
  <1> DEFINE creds == IF kind \in {"peer",
                   "restart"} THEN Len(offers) + 1 ELSE offers[Len(offers)].creds
             made == [kind |-> kind, at |-> "waiting", creds |-> creds]
             L == Len(offers) + 1
  <1>1. /\ Len(offers) < MaxOffers /\ (kind # "peer" => offers # <<>>)
        /\ kind \in {"quality", "chat"} => Connected
        /\ offers' = Settled(Append(offers, made))
        /\ held' = held /\ signaling' = signaling /\ ice' = ice /\ poll' = poll /\ remote' = remote
        /\ shown' = shown /\ handed' = handed
        BY DEF MakeOffer, Offer
  <1>2. Len(offers) \in Nat /\ L \in Nat
        BY OfferFields DEF SigInv
  <1>3. kind \in {"quality", "chat"} =>
           /\ Len(offers) \in 1 .. Len(offers) /\ offers[Len(offers)].at = "done"
           /\ offers[Len(offers)].kind # "past"
           /\ signaling.ufrag # 0 /\ signaling.ufrag <= remote.slot.of
    <2>1. kind \in {"quality", "chat"} => Connected /\ offers # <<>>
          BY <1>1
    <2>2. offers # <<>> => Len(offers) \in 1 .. Len(offers)
          BY <1>2
    <2> QED
      BY <2>1, <2>2 DEF Connected, Offer, SigInv, Queue, Progressed
  <1>4. creds \in 1 .. L
    <2>1. CASE kind \in {"peer", "restart"}
          BY <2>1, <1>2
    <2>2. CASE kind \in {"quality", "chat"}
      <3>1. offers[Len(offers)].creds \in 1 .. Len(offers)
            BY <2>2, <1>3 DEF SigInv, Queue
      <3> QED
        BY <3>1, <2>2, <1>2
    <2> QED
      BY <2>1, <2>2
  <1>5. kind \in {"peer", "restart"} => creds = L
        OBVIOUS
  <1>6. kind \in {"quality", "chat"} => signaling.creds # 0
    <2>1. signaling.ufrag # 0 => remote.posted # 0
          BY StateFields DEF SigInv, Progressed
    <2> QED
      BY <1>3, <2>1 DEF SigInv, Progressed
  <1> HIDE DEF creds
  <1>7. made \in OfferRecords /\ made.kind = kind /\ made.at = "waiting" /\ made.creds = creds
        BY <1>2, <1>4 DEF OfferRecords, Stages
  <1> HIDE DEF made
  <1>8. /\ Append(offers, made) \in Seq(OfferRecords) /\ Len(Append(offers, made)) = L
        /\ Append(offers, made)[L] = made
        /\ \A m \in 1 .. Len(offers) : Append(offers, made)[m] = offers[m]
        BY <1>7, <1>2 DEF SigInv, SigTyped
  <1>9. /\ offers' \in Seq(OfferRecords) /\ Len(offers') = L
        /\ offers'[L].kind = kind /\ offers'[L].at = "waiting" /\ offers'[L].creds = creds
        /\ \A m \in 1 .. Len(offers) :
              /\ offers'[m].at = offers[m].at
              /\ \/ offers'[m].kind = offers[m].kind /\ offers'[m].creds = offers[m].creds
                 \/ offers'[m].kind = "past" /\ offers[m].at \in {"done", "failed"}
    <2>1. /\ offers' \in Seq(OfferRecords) /\ Len(offers') = L
          /\ \A m \in 1 .. L :
                /\ offers'[m].at = Append(offers, made)[m].at
                /\ \/ offers'[m] = Append(offers, made)[m]
                   \/ offers'[m].kind = "past" /\ m < L
                      /\ Append(offers, made)[m].at \in {"done", "failed"}
      <3> DEFINE list == Append(offers, made)
      <3>1. list \in Seq(OfferRecords) /\ Len(list) = L /\ offers' = Settled(list)
            BY <1>1, <1>8
      <3> HIDE DEF list, L
      <3>2. \A m \in 1 .. L :
               /\ Settled(list)[m].at = list[m].at
               /\ \/ Settled(list)[m] = list[m]
                  \/ Settled(list)[m].kind = "past" /\ m < L /\ list[m].at \in {"done", "failed"}
            BY <3>1, Settles
      <3>3. Settled(list) \in Seq(OfferRecords) /\ Len(Settled(list)) = L
            BY <3>1, Settles
      <3> QED
        BY <3>1, <3>2, <3>3 DEF list
    <2>2. L \in 1 .. L /\ ~(L < L) /\ \A m \in 1 .. Len(offers) : m \in 1 .. L
          BY <1>2
    <2> HIDE DEF L
    <2> QED
      BY <1>7, <1>8, <2>1, <2>2
  <1>10. \A m \in 1 .. L : m = L \/ m \in 1 .. Len(offers)
         BY <1>2
  <1>11. ice # L
    <2>1. ice \in (0 .. Len(offers)) \cup Polls
          BY DEF SigInv, SigTyped
    <2> QED
      BY <2>1, <1>2, SignalingAssumption
  <1>12. \A m \in 1 .. Len(offers) : Over(m)' <=> Over(m)
         BY <1>9 DEF Over
  <1>13. SigTyped'
    <2>1. Len(offers') <= MaxOffers
          BY <1>1, <1>2, <1>9, SignalingAssumption
    <2>2. ice' \in (0 .. Len(offers')) \cup Polls
          BY <1>1, <1>2, <1>9 DEF SigInv, SigTyped
    <2> QED
      BY <1>1, <1>9, <2>1, <2>2 DEF SigInv, SigTyped
  <1>14. Queue'
    <2>1. ASSUME NEW m \in 1 .. Len(offers)
          PROVE  /\ ice = m <=> offers'[m].at \in AtWork
                 /\ offers'[m].kind # "past" => offers'[m].creds \in 1 .. m
                 /\ offers'[m].kind \in {"peer", "restart"} => offers'[m].creds = m
                 /\ offers'[m].kind \in {"quality", "chat"} => signaling.creds # 0
                 /\ offers'[m].kind = "past" => Over(m)'
                 /\ offers'[m].at \notin {"waiting", "failed"} => \A k \in 1 .. m - 1 : Over(k)'
                 /\ offers'[m].kind = "quality" /\ ~Over(m)' =>
                       /\ \A k \in 1 .. m - 1 : Over(k)'
                       /\ signaling.ufrag <= remote.slot.of
      <3>1. \A k \in 1 .. m - 1 : k \in 1 .. Len(offers)
            BY <1>2
      <3>2. /\ ice = m <=> offers'[m].at \in AtWork
            /\ offers'[m].kind # "past" => offers'[m].creds \in 1 .. m
            /\ offers'[m].kind \in {"peer", "restart"} => offers'[m].creds = m
            /\ offers'[m].kind \in {"quality", "chat"} => signaling.creds # 0
            /\ offers'[m].kind = "past" => Over(m)'
            BY <1>9, <1>12 DEF SigInv, Queue, Over
      <3>3. /\ offers'[m].at \notin {"waiting", "failed"} => \A k \in 1 .. m - 1 : Over(k)
            /\ offers'[m].kind = "quality" /\ ~Over(m)' =>
                       /\ \A k \in 1 .. m - 1 : Over(k)
                       /\ signaling.ufrag <= remote.slot.of
            BY <1>9, <1>12 DEF SigInv, Queue
      <3> QED
        BY <3>1, <3>2, <3>3, <1>12
    <2>2. kind \in {"quality", "chat"} => \A k \in 1 .. Len(offers) : Over(k)
      <3>1. kind \in {"quality", "chat"} => \A k \in 1 .. Len(offers) - 1 : Over(k)
            BY <1>3 DEF SigInv, Queue
      <3>2. \A k \in 1 .. Len(offers) : k = Len(offers) \/ k \in 1 .. Len(offers) - 1
            BY <1>2
      <3> QED
        BY <3>1, <3>2, <1>3 DEF Over
    <2>3. \A k \in 1 .. L - 1 : k \in 1 .. Len(offers)
          BY <1>2
    <2>4. /\ ice = L <=> offers'[L].at \in AtWork
          /\ offers'[L].kind # "past" => offers'[L].creds \in 1 .. L
          /\ offers'[L].kind \in {"peer", "restart"} => offers'[L].creds = L
          /\ offers'[L].kind \in {"quality", "chat"} => signaling.creds # 0
          /\ offers'[L].at \notin {"waiting", "failed"} => \A k \in 1 .. L - 1 : Over(k)'
          /\ offers'[L].kind = "quality" =>
                /\ \A k \in 1 .. L - 1 : Over(k)'
                /\ signaling.ufrag <= remote.slot.of
      <3>1. /\ ice = L <=> offers'[L].at \in AtWork
            /\ offers'[L].kind # "past" => offers'[L].creds \in 1 .. L
            /\ offers'[L].kind \in {"peer", "restart"} => offers'[L].creds = L
            /\ offers'[L].kind \in {"quality", "chat"} => signaling.creds # 0
            /\ offers'[L].kind # "past" /\ offers'[L].at = "waiting"
            BY <1>4, <1>5, <1>6, <1>9, <1>11 DEF AtWork
      <3>2. offers'[L].kind = "quality" =>
                /\ \A k \in 1 .. L - 1 : Over(k)'
                /\ signaling.ufrag <= remote.slot.of
            BY <1>3, <1>9, <1>12, <2>2, <2>3
      <3> QED
        BY <3>1, <3>2
    <2>5. /\ offers'[L].kind # "past" /\ Len(offers') = L
          /\ ice' = ice /\ poll' = poll /\ signaling' = signaling /\ remote' = remote
          /\ \A q \in Polls : poll[q].at = "reading" <=> ice = q
          BY <1>1, <1>9 DEF SigInv, Queue
    <2> HIDE DEF L
    <2>6. ASSUME NEW m \in 1 .. L
          PROVE  /\ ice = m <=> offers'[m].at \in AtWork
                 /\ offers'[m].kind # "past" => offers'[m].creds \in 1 .. m
                 /\ offers'[m].kind \in {"peer", "restart"} => offers'[m].creds = m
                 /\ offers'[m].kind \in {"quality", "chat"} => signaling.creds # 0
                 /\ offers'[m].kind = "past" => Over(m)'
                 /\ offers'[m].at \notin {"waiting", "failed"} => \A k \in 1 .. m - 1 : Over(k)'
                 /\ offers'[m].kind = "quality" /\ ~Over(m)' =>
                       /\ \A k \in 1 .. m - 1 : Over(k)'
                       /\ signaling.ufrag <= remote.slot.of
      <3>1. CASE m = L
        <4>1. Over(m)' <=> offers'[L].at \in {"done", "failed"}
              BY <3>1 DEF Over
        <4>2. \A k : k \in 1 .. L - 1 <=> k \in 1 .. m - 1
              BY <3>1
        <4> QED
          BY <3>1, <4>1, <4>2, <2>4, <2>5
      <3>2. CASE m \in 1 .. Len(offers)
            BY <3>2, <2>1
      <3> QED
        BY <3>1, <3>2, <1>10
    <2> QED
      BY <2>5, <2>6 DEF Queue
  <1>15. Progressed'
    <2>1. ASSUME NEW m \in 1 .. Len(offers)
          PROVE  /\ offers'[m].at \in Ahead => signaling.gen < m /\ signaling.creds < m
                 /\ offers'[m].at \in Ahead \cup {"sendFresh", "send"} => remote.posted < m
                 /\ offers'[m].at \in {"fresh", "any"} => remote.posted = m
                 /\ ~Over(m)' => signaling.ufrag < m
                 /\ offers'[m].at \in {"send", "any"} => offers'[m].kind = "quality"
                 /\ offers'[m].at = "any" => ~remote.renews
                 /\ offers'[m].at \in {"sendFresh", "send", "fresh", "any"} => signaling.started
          BY <1>9, <1>12 DEF SigInv, Progressed
    <2>2. /\ signaling.gen < L /\ signaling.creds < L /\ remote.posted < L /\ signaling.ufrag < L
          /\ signaling.gen <= L /\ signaling.creds <= L /\ remote.posted <= L
          BY <1>2, Numbers DEF SigInv, Progressed
    <2> HIDE DEF L
    <2>3. /\ offers'[L].at = "waiting" /\ Len(offers') = L
          /\ handed' = handed /\ signaling' = signaling /\ remote' = remote
          BY <1>1, <1>9
    <2> QED
      BY <1>10, <2>1, <2>2, <2>3 DEF SigInv, Progressed, Ahead
  <1>16. \A m \in 1 .. L :
            offers'[m].at \in AtWork =>
               /\ m \in 1 .. Len(offers) /\ offers'[m].at = offers[m].at
               /\ offers'[m].kind = offers[m].kind /\ offers'[m].creds = offers[m].creds
         BY <1>9, <1>10 DEF AtWork
  <1>17. ASSUME NEW m \in 1 .. L, offers'[m].at \in AtWork
         PROVE  NewIce(m)' = NewIce(m) /\ RequireFresh(m)' = RequireFresh(m)
         BY <1>1, <1>16, <1>17 DEF RequireFresh, NewIce, Offer
  <1>18. Before'
         BY <1>1, <1>9, <1>16, <1>17 DEF SigInv, Before, NotAfter, AtWork
  <1>19. Based'
         BY <1>1, <1>9, <1>16, <1>17, ResponseStands DEF SigInv, Based, AtWork
  <1> QED
    BY <1>13, <1>14, <1>15, <1>18, <1>19 DEF SigInv

\* The service answers the offer it has.
LEMMA AnswerKeeps ==
    ASSUME SigInv, Answer
    PROVE  SigInv'
  <1>1. PICK ufrag \in {remote.posted, remote.slot.of} \ {0} :
           /\ ufrag = remote.posted => remote.renews
           /\ remote' = [remote EXCEPT !.answer = remote.posted, !.ufrag = ufrag]
        BY DEF Answer
  <1>2. /\ remote.answer # remote.posted
        /\ offers' = offers /\ held' = held /\ signaling' = signaling /\ ice' = ice /\ poll' = poll
        /\ shown' = shown /\ handed' = handed
        BY DEF Answer
  <1>3. /\ remote' \in Services /\ remote'.posted = remote.posted /\ remote'.answer = remote.posted
        /\ remote'.ufrag = ufrag /\ remote'.slot = remote.slot /\ remote'.renews = remote.renews
        /\ remote'.marks = remote.marks /\ remote'.address = remote.address
    <2>1. remote' = [posted |-> remote.posted, answer |-> remote.posted, ufrag |-> ufrag,
            slot |-> remote.slot,
                     marks |-> remote.marks, renews |-> remote.renews, address |-> remote.address]
          BY <1>1, StateFields DEF SigInv
    <2>2. ufrag \in Nat
          BY StateFields DEF SigInv
    <2> QED
      BY <2>1, <2>2, StateFields DEF SigInv, Services
  <1>4. /\ remote.slot.of <= ufrag /\ ufrag <= remote.posted /\ remote.answer <= remote.posted
        BY StateFields DEF SigInv, Progressed
  <1>5. SigTyped'
        BY <1>2, <1>3 DEF SigInv, SigTyped
  <1>6. Queue'
        BY <1>2, <1>3 DEF SigInv, Queue, Over
  <1>7. Progressed'
    <2>1. ufrag \in {remote.posted, remote.slot.of} /\ (remote.posted <= remote.posted)
          BY <1>4, Numbers
    <2> QED
      BY <1>2, <1>3, <1>4, <2>1 DEF SigInv, Progressed, Over
  <1>8. \A n \in 1 .. Len(offers) : NewIce(n)' = NewIce(n) /\ RequireFresh(n)' = RequireFresh(n)
        BY <1>2 DEF RequireFresh, NewIce, Offer
  <1>9. Before'
    <2>1. held.before <= remote.posted /\ (held.before < remote.answer
            => held.before < remote.posted)
          BY <1>4, StateFields DEF SigInv, Before
    <2> QED
      BY <1>2, <1>3, <1>8, <2>1 DEF SigInv, Before, NotAfter
  <1>10. Based'
    <2>1. Response' = Response
          BY <1>3, ResponseStands
    <2>2. ~remote.renews => ufrag = remote.slot.of
          BY <1>1
    <2> QED
      BY <1>2, <1>3, <1>8, <2>1, <2>2 DEF SigInv, Based
  <1> QED
    BY <1>5, <1>6, <1>7, <1>9, <1>10 DEF SigInv

\* What the service shows once it has candidates, or the mark of their end.
LEMMA Marked ==
    ASSUME NEW slot \in Slots
    PROVE  /\ [slot EXCEPT !.found = TRUE] \in Slots /\ [slot EXCEPT !.end = TRUE] \in Slots
           /\ [slot EXCEPT !.found = TRUE].of = slot.of /\ [slot EXCEPT !.found = TRUE].found
           /\ [slot EXCEPT !.found = TRUE].end = slot.end
           /\ [slot EXCEPT !.end = TRUE].of = slot.of /\ [slot EXCEPT !.end = TRUE].end
           /\ [slot EXCEPT !.end = TRUE].found = slot.found
  BY DEF Slots

\* The service shows candidates.
LEMMA ShowIceKeeps ==
    ASSUME SigInv, ShowIce
    PROVE  SigInv'
  <1>1. /\ offers' = offers /\ held' = held /\ signaling' = signaling /\ ice' = ice /\ poll' = poll
        /\ shown' = shown /\ handed' = handed
        BY DEF ShowIce
  <1>2. PICK slot \in Slots :
           /\ remote' = [remote EXCEPT !.slot = slot]
           /\ \/ slot.of = remote.ufrag /\ slot.of > remote.slot.of /\ ~slot.found /\ ~slot.end
              \/ /\ slot.of = remote.slot.of /\ slot.of # 0
                 /\ (remote.slot.found => slot.found) /\ (remote.slot.end => slot.end)
                 /\ (slot.found /\ ~remote.slot.found) \/ (slot.end /\ ~remote.slot.end)
    <2>1. CASE /\ remote.ufrag # remote.slot.of
               /\ remote' = [remote EXCEPT !.slot = [of |-> remote.ufrag, found |-> FALSE,
                    end |-> FALSE]]
      <3>1. [of |-> remote.ufrag, found |-> FALSE, end |-> FALSE] \in Slots
            BY StateFields DEF SigInv, Slots
      <3>2. remote.ufrag > remote.slot.of
            BY <2>1, StateFields DEF SigInv, Progressed
      <3> QED
        BY <2>1, <3>1, <3>2
    <2>2. CASE remote.slot.of # 0 /\ ~remote.slot.found
               /\ remote' = [remote EXCEPT !.slot.found = TRUE]
          BY <2>2, Marked, StateFields DEF SigInv
    <2>3. CASE remote.slot.found /\ ~remote.slot.end /\ remote' = [remote EXCEPT !.slot.end = TRUE]
      <3>1. remote.slot.of # 0
            BY <2>3 DEF SigInv, Progressed
      <3> QED
        BY <2>3, <3>1, Marked, StateFields DEF SigInv
    <2> QED
      BY <2>1, <2>2, <2>3 DEF ShowIce
  <1>3. /\ remote' \in Services /\ remote'.posted = remote.posted /\ remote'.answer = remote.answer
        /\ remote'.ufrag = remote.ufrag /\ remote'.slot = slot /\ remote'.renews = remote.renews
    <2>1. remote' = [posted |-> remote.posted, answer |-> remote.answer, ufrag |-> remote.ufrag,
            slot |-> slot,
                     marks |-> remote.marks, renews |-> remote.renews, address |-> remote.address]
          BY <1>2, StateFields DEF SigInv
    <2> QED
      BY SMTT(20), <2>1, StateFields DEF SigInv, Services
  <1>4. slot.of \in Nat /\ remote.slot.of <= slot.of /\ slot.of <= remote.ufrag
        BY SMTT(20), <1>2, StateFields DEF SigInv, Progressed, Slots
  <1>5. ASSUME NEW old \in Slots, NotAfter(old, remote.slot)
        PROVE  NotAfter(old, slot) /\ old # slot
    <2>1. old.of \in Nat
          BY DEF Slots
    <2> QED
      BY SMTT(20), <1>2, <1>4, <1>5, <2>1, StateFields DEF NotAfter, SigInv
  <1>6. SigTyped'
        BY <1>1, <1>3 DEF SigInv, SigTyped
  <1>7. Queue'
    <2>1. signaling.ufrag <= remote.slot.of => signaling.ufrag <= slot.of
          BY <1>4, StateFields DEF SigInv
    <2> QED
      BY <1>1, <1>3, <2>1 DEF SigInv, Queue, Over
  <1>8. Progressed'
    <2>1. handed <= slot.of
      <3>1. handed \in Nat /\ handed <= remote.slot.of
            BY DEF SigInv, SigTyped, Progressed
      <3>2. remote.slot.of \in Nat
            BY StateFields DEF SigInv
      <3> QED
        BY <1>4, <3>1, <3>2
    <2>2. remote.ufrag \in {remote.answer, slot.of} /\ (slot.found \/ slot.end => slot.of # 0)
          BY <1>2 DEF SigInv, Progressed
    <2> QED
      BY <1>1, <1>3, <1>4, <2>1, <2>2 DEF SigInv, Progressed, Over
  <1>9. \A n \in 1 .. Len(offers) : RequireFresh(n)' = RequireFresh(n)
        BY <1>1 DEF RequireFresh, NewIce, Offer
  <1>10. /\ NotAfter(held.slot, slot) /\ held.slot # slot
         /\ NotAfter(shown.slot, slot) /\ shown.slot # slot
         BY <1>5, StateFields DEF SigInv, Before
  <1>11. Before'
         BY <1>1, <1>3, <1>9, <1>10 DEF SigInv, Before, NotAfter
  <1>12. Based'
         BY <1>1, <1>3, <1>10 DEF Based
  <1> QED
    BY <1>6, <1>7, <1>8, <1>11, <1>12 DEF SigInv

\* A poll that moves leaves the others alone.
LEMMA PollTyped ==
    ASSUME SigTyped, NEW q \in Polls, NEW record \in PollRecords,
             poll' = [poll EXCEPT ![q] = record]
    PROVE  /\ poll' \in [Polls -> PollRecords] /\ poll'[q] = record
           /\ \A other \in Polls : other # q => poll'[other] = poll[other]
  BY DEF SigTyped

\* A step of polls that neither takes nor frees the lock.
LEMMA OffersStand ==
    ASSUME SigInv, offers' = offers, held' = held, remote' = remote, shown' = shown,
           signaling'.gen = signaling.gen, signaling'.started = signaling.started,
           signaling'.creds = signaling.creds, signaling'.baseline = signaling.baseline,
           signaling'.ufrag = signaling.ufrag, handed' \in {handed, remote.slot.of}
    PROVE  Progressed' /\ Before' /\ Based'
  <1>1. \A n \in 1 .. Len(offers) : NewIce(n)' = NewIce(n) /\ RequireFresh(n)' = RequireFresh(n)
        BY DEF RequireFresh, NewIce, Offer
  <1>2. Progressed'
    <2>1. handed' <= remote.slot.of
          BY Numbers DEF SigInv, Progressed
    <2> QED
      BY <2>1 DEF SigInv, Progressed, Over
  <1>3. Before'
        BY <1>1 DEF SigInv, Before, NotAfter
  <1>4. Based'
        BY <1>1, ResponseStands DEF SigInv, Based
  <1> QED
    BY <1>2, <1>3, <1>4

\* A poll is asked for.
LEMMA AskIceKeeps ==
    ASSUME SigInv, NEW q \in Polls, AskIce(q)
    PROVE  SigInv'
  <1> DEFINE asked == [at |-> "waiting", gen |-> signaling.gen]
  <1>1. /\ poll[q].at = "idle" /\ poll' = [poll EXCEPT ![q] = asked]
        /\ offers' = offers /\ held' = held /\ signaling' = signaling /\ ice' = ice
        /\ remote' = remote /\ shown' = shown /\ handed' = handed
        BY DEF AskIce
  <1>2. asked \in PollRecords /\ asked.at = "waiting"
        BY Numbers DEF PollRecords
  <1> HIDE DEF asked
  <1>3. /\ poll' \in [Polls -> PollRecords] /\ poll'[q] = asked
        /\ \A other \in Polls : other # q => poll'[other] = poll[other]
        BY <1>1, <1>2, PollTyped DEF SigInv
  <1>4. \A p \in Polls : poll'[p].at = "reading" <=> ice = p
        BY <1>1, <1>2, <1>3 DEF SigInv, Queue
  <1>5. SigTyped'
        BY <1>1, <1>3 DEF SigInv, SigTyped
  <1>6. Queue'
        BY <1>1, <1>4 DEF SigInv, Queue, Over
  <1> QED
    BY <1>1, <1>5, <1>6, OffersStand DEF SigInv

\* A poll gets the lock.
LEMMA LockPollKeeps ==
    ASSUME SigInv, NEW q \in Polls, LockPoll(q)
    PROVE  SigInv'
  <1>1. /\ poll[q].at = "waiting" /\ ice = 0
        /\ \/ poll' = [poll EXCEPT ![q].at = "reading"] /\ ice' = q
           \/ poll' = [poll EXCEPT ![q] = [at |-> "idle", gen |-> 0]] /\ ice' = ice
        /\ offers' = offers /\ held' = held /\ signaling' = signaling
        /\ remote' = remote /\ shown' = shown /\ handed' = handed
        BY DEF LockPoll, PollEnds
  <1>2. [at |-> "idle", gen |-> 0] \in PollRecords
        BY DEF PollRecords
  <1>3. [poll[q] EXCEPT !.at = "reading"] \in PollRecords
        /\ [poll[q] EXCEPT !.at = "reading"].at = "reading"
    <2>1. poll[q] \in PollRecords
          BY DEF SigInv, SigTyped
    <2> QED
      BY <2>1 DEF PollRecords
  <1>4. q \notin Nat /\ \A p \in Polls : poll[p].at # "reading"
        BY <1>1, SignalingAssumption DEF SigInv, Queue
  <1>5. /\ poll' \in [Polls -> PollRecords]
        /\ \A p \in Polls : poll'[p].at = "reading" <=> ice' = p
    <2>1. CASE poll' = [poll EXCEPT ![q].at = "reading"] /\ ice' = q
      <3>1. poll' = [poll EXCEPT ![q] = [poll[q] EXCEPT !.at = "reading"]]
            BY <2>1
      <3>2. /\ poll' \in [Polls -> PollRecords] /\ poll'[q] = [poll[q] EXCEPT !.at = "reading"]
            /\ \A other \in Polls : other # q => poll'[other] = poll[other]
            BY <3>1, <1>3, PollTyped DEF SigInv
      <3> QED
        BY <2>1, <3>2, <1>3, <1>4
    <2>2. CASE poll' = [poll EXCEPT ![q] = [at |-> "idle", gen |-> 0]] /\ ice' = ice
      <3>1. /\ poll' \in [Polls -> PollRecords] /\ poll'[q] = [at |-> "idle", gen |-> 0]
            /\ \A other \in Polls : other # q => poll'[other] = poll[other]
            BY <2>2, <1>2, PollTyped DEF SigInv
      <3>2. poll'[q].at # "reading"
            BY <3>1
      <3> QED
        BY <1>1, <1>4, <2>2, <3>1, <3>2, SignalingAssumption
    <2> QED
      BY <1>1, <2>1, <2>2
  <1>6. \A n \in 1 .. Len(offers) : ice = n <=> ice' = n
        BY <1>1, <1>4, Numbers
  <1>7. SigTyped'
        BY <1>1, <1>5 DEF SigInv, SigTyped
  <1>8. Queue'
        BY <1>1, <1>5, <1>6 DEF SigInv, Queue, Over
  <1> QED
    BY <1>1, <1>7, <1>8, OffersStand DEF SigInv

\* A poll that ends frees the lock.
LEMMA PollLeaves ==
    ASSUME SigInv, NEW q \in Polls, PollEnds(q), offers' = offers, remote' = remote,
           signaling'.ufrag = signaling.ufrag, signaling'.creds = signaling.creds,
           ice' = IF poll[q].at = "reading" THEN 0 ELSE ice
    PROVE  /\ poll' \in [Polls -> PollRecords] /\ ice' \in (0 .. Len(offers)) \cup Polls
           /\ Queue'
  <1>1. [at |-> "idle", gen |-> 0] \in PollRecords
        BY DEF PollRecords
  <1>2. /\ poll' \in [Polls -> PollRecords] /\ poll'[q] = [at |-> "idle", gen |-> 0]
        /\ \A other \in Polls : other # q => poll'[other] = poll[other]
        BY <1>1, PollTyped DEF SigInv, PollEnds
  <1>3. q \notin Nat /\ \A p \in Polls : poll[p].at = "reading" <=> ice = p
        BY SignalingAssumption DEF SigInv, Queue
  <1>4. poll'[q].at # "reading"
        BY <1>2
  <1>5. \A p \in Polls : poll'[p].at = "reading" <=> ice' = p
        BY <1>2, <1>3, <1>4, SignalingAssumption
  <1>6. \A n \in 1 .. Len(offers) : ice = n <=> ice' = n
        BY <1>3, Numbers
  <1>7. ice' \in (0 .. Len(offers)) \cup Polls
        BY Numbers DEF SigInv, SigTyped
  <1>8. Queue'
        BY <1>5, <1>6 DEF SigInv, Queue, Over
  <1> QED
    BY <1>2, <1>7, <1>8

\* What a poll hands out are candidates.
LEMMA NewsTyped ==
    ASSUME SigInv
    PROVE  FilterIce \in SUBSET Texts
  <1>1. FilterIce \subseteq Response.texts
        BY DEF FilterIce
  <1>2. Response.texts \in SUBSET Texts
        BY ResponseTyped DEF Bases
  <1> QED
    BY <1>1, <1>2

\* A poll reads the candidates and hands out those that are not of the baseline.
LEMMA PollIceKeeps ==
    ASSUME SigInv, NEW q \in Polls, PollIce(q)
    PROVE  SigInv'
  <1>1. /\ poll[q].at = "reading" /\ PollEnds(q) /\ ice' = 0
        /\ offers' = offers /\ held' = held /\ remote' = remote /\ shown' = shown
        /\ \/ signaling' = signaling /\ handed' = handed
           \/ /\ signaling' = [signaling EXCEPT !.polled = [known |-> TRUE, texts |-> FilterIce]]
              /\ handed' = remote.slot.of
        BY DEF PollIce
  <1>2. /\ signaling' \in Signals /\ signaling'.gen = signaling.gen
           /\ signaling'.started = signaling.started
        /\ signaling'.creds = signaling.creds /\ signaling'.baseline = signaling.baseline
        /\ signaling'.ufrag = signaling.ufrag
    <2>1. CASE signaling' = signaling
          BY <2>1 DEF SigInv, SigTyped
    <2>2. CASE signaling' = [signaling EXCEPT !.polled = [known |-> TRUE, texts |-> FilterIce]]
      <3> DEFINE news == [known |-> TRUE, texts |-> FilterIce]
      <3>1. news \in Bases
            BY NewsTyped DEF Bases
      <3> HIDE DEF news
      <3>2. signaling' = [gen |-> signaling.gen, started |-> signaling.started,
              creds |-> signaling.creds,
                          answers |-> signaling.answers, polled |-> news,
                          baseline |-> signaling.baseline, ufrag |-> signaling.ufrag]
            BY <2>2, StateFields DEF SigInv, news
      <3> QED
        BY <3>1, <3>2, StateFields DEF SigInv, Signals
    <2> QED
      BY <1>1, <2>1, <2>2
  <1>3. handed' \in Nat /\ handed' \in {handed, remote.slot.of}
        BY <1>1, Numbers
  <1>4. poll' \in [Polls -> PollRecords] /\ ice' \in (0 .. Len(offers)) \cup Polls /\ Queue'
        BY <1>1, <1>2, PollLeaves
  <1>5. SigTyped'
        BY <1>1, <1>2, <1>3, <1>4 DEF SigInv, SigTyped
  <1> QED
    BY <1>1, <1>2, <1>3, <1>4, <1>5, OffersStand DEF SigInv

\* A poll fails or is refused.
LEMMA IcePollFailsKeeps ==
    ASSUME SigInv, NEW q \in Polls, IcePollFails(q)
    PROVE  SigInv'
  <1>1. /\ PollEnds(q) /\ ice' = IF poll[q].at = "reading" THEN 0 ELSE ice
        /\ offers' = offers /\ held' = held /\ signaling' = signaling
        /\ remote' = remote /\ shown' = shown /\ handed' = handed
        BY DEF IcePollFails
  <1>2. poll' \in [Polls -> PollRecords] /\ ice' \in (0 .. Len(offers)) \cup Polls /\ Queue'
        BY <1>1, PollLeaves
  <1>3. SigTyped'
        BY <1>1, <1>2 DEF SigInv, SigTyped
  <1> QED
    BY <1>1, <1>2, <1>3, OffersStand DEF SigInv

\* Steps of nobody.
LEMMA SigStutters ==
    ASSUME SigInv, UNCHANGED sigVars
    PROVE  SigInv'
  <1>1. /\ offers' = offers /\ held' = held /\ signaling' = signaling /\ ice' = ice /\ poll' = poll
        /\ remote' = remote /\ shown' = shown /\ handed' = handed
        BY DEF sigVars
  <1>2. SigTyped' /\ Queue'
        BY <1>1 DEF SigInv, SigTyped, Queue, Over
  <1> QED
    BY <1>1, <1>2, OffersStand DEF SigInv

\* One step per action of SigNext.
LEMMA SigStepKeeps ==
    ASSUME SigInv, [SigNext]_sigVars
    PROVE  SigInv'
  <1>1. CASE \E kind \in {"peer", "restart", "quality", "chat"} : MakeOffer(kind)
        BY <1>1, MakeOfferKeeps
  <1>2. ASSUME NEW n \in 1 .. Len(offers), ExchangeStep(n)
        PROVE  SigInv'
        BY <1>2, LockOfferKeeps, ReadPreviousKeeps, ReadBaselineKeeps, BeginOfferKeeps,
           SendOfferKeeps,
           TakeAnswerKeeps, OfferFailsKeeps DEF ExchangeStep
  <1>3. ASSUME NEW q \in Polls, AskIce(q) \/ LockPoll(q) \/ PollIce(q) \/ IcePollFails(q)
        PROVE  SigInv'
        BY <1>3, AskIceKeeps, LockPollKeeps, PollIceKeeps, IcePollFailsKeeps
  <1>4. CASE Answer
        BY <1>4, AnswerKeeps
  <1>5. CASE ShowIce
        BY <1>5, ShowIceKeeps
  <1>6. CASE UNCHANGED sigVars
        BY <1>6, SigStutters
  <1> QED
    BY <1>1, <1>2, <1>3, <1>4, <1>5, <1>6 DEF SigNext

\* The invariant of the signaling of one session, for any offers, polls and addresses: each step of
\* signaling.rs and flow.rs keeps it, whatever answers come late and whichever offers fail.
THEOREM SignalingSound == SigSpec => []SigInv
  <1>1. SigInit => SigInv
        BY SigInitHolds
  <1>2. SigInv /\ [SigNext]_sigVars => SigInv'
        BY SigStepKeeps
  <1> QED
    BY <1>1, <1>2, PTL DEF SigSpec

\* Types of the state.
THEOREM SignalingTyped == SigSpec => []SigTypeOK
  <1>1. SigInv => SigTypeOK
    <2>1. ASSUME SigInv
          PROVE  SigTypeOK
      <3>1. /\ signaling.gen \in 0 .. Len(offers) /\ signaling.creds \in 0 .. Len(offers)
            BY <2>1, Numbers DEF SigInv, Progressed
      <3>2. signaling.ufrag \in 0 .. MaxOffers
            BY <2>1, Numbers, SignalingAssumption DEF SigInv, Progressed, SigTyped
      <3> QED
        BY <2>1, <3>1, <3>2 DEF SigInv, Queue, SigTypeOK, Offer, AtWork
    <2> QED
      BY <2>1
  <1> QED
    BY <1>1, SignalingSound, PTL

\* An answer an offer waited for is not the one that was there before.
LEMMA AnswerIsLater ==
    ASSUME SigInv, [SigNext]_sigVars, NEW n \in 1 .. Len(offers), offers[n].at = "fresh",
             offers'[n].at = "done"
    PROVE  remote.answer # held.before
  <1>1. TakeAnswer(n)
    <2>1. ASSUME NEW kind \in {"peer", "restart", "quality", "chat"}, MakeOffer(kind)
          PROVE  FALSE
      <3>1. offers'[n].at = offers[n].at
        <4> DEFINE made == [kind |-> kind, at |-> "waiting",
                            creds |-> IF kind \in {"peer", "restart"} THEN Len(offers) + 1
                                      ELSE Offer(Len(offers)).creds]
        <4>1. offers' = Settled(Append(offers, made))
              BY <2>1 DEF MakeOffer
        <4> HIDE DEF made
        <4>2. /\ Len(Append(offers, made)) = Len(offers) + 1 /\ Append(offers, made)[n] = offers[n]
              BY DEF SigInv, SigTyped
        <4>3. n \in 1 .. Len(Append(offers, made))
              BY <4>2, Numbers
        <4>4. Settled(Append(offers, made))[n].at = Append(offers, made)[n].at
              BY <4>3 DEF Settled
        <4> QED
          BY <4>1, <4>2, <4>4
      <3> QED
        BY <3>1
    <2>2. ASSUME NEW m \in 1 .. Len(offers), NEW step \in Stages, Advance(m, step), step # "done"
          PROVE  FALSE
      <3>1. offers'[n].at = IF n = m THEN step ELSE offers[n].at
            BY <2>2, Advanced DEF SigInv
      <3> QED
        BY <3>1, <2>2
    <2>3. ASSUME NEW m \in 1 .. Len(offers), NEW how \in {"done", "failed"}, EndExchange(m, how)
          PROVE  m = n /\ how = "done"
      <3>1. offers'[n].at = IF n = m THEN how ELSE offers[n].at
            BY <2>3, EndedTyped DEF SigInv
      <3> QED
        BY <3>1
    <2>4. offers' # offers
          OBVIOUS
    <2>5. ASSUME NEW m \in 1 .. Len(offers), ExchangeStep(m)
          PROVE  TakeAnswer(n)
      <3>1. ASSUME LockOffer(m) \/ ReadPrevious(m) \/ ReadBaseline(m) \/ BeginOffer(m)
                   \/ SendOffer(m)
            PROVE  FALSE
        <4>1. \E step \in Stages \ {"done"} : Advance(m, step)
              BY <3>1
                 DEF LockOffer, ReadPrevious, ReadBaseline, BeginOffer, SendOffer, Stages, AtWork
        <4> QED
          BY <4>1, <2>2
      <3>2. ASSUME OfferFails(m)
            PROVE  FALSE
            BY <3>2, <2>3 DEF OfferFails
      <3>3. ASSUME TakeAnswer(m)
            PROVE  m = n
            BY <3>3, <2>3 DEF TakeAnswer
      <3> QED
        BY <2>5, <3>1, <3>2, <3>3 DEF ExchangeStep
    <2>6. ASSUME NEW q \in Polls, AskIce(q) \/ LockPoll(q) \/ PollIce(q) \/ IcePollFails(q)
          PROVE  FALSE
          BY <2>4, <2>6 DEF AskIce, LockPoll, PollIce, IcePollFails
    <2>7. ~Answer /\ ~ShowIce /\ ~UNCHANGED sigVars
          BY <2>4 DEF Answer, ShowIce, sigVars
    <2> QED
      BY <2>1, <2>5, <2>6, <2>7 DEF SigNext
  <1>2. remote.answer # 0 /\ remote.answer # held.previous
        BY <1>1 DEF TakeAnswer, FilterStaleAnswer, Offer
  <1>3. held.before \in {0, held.previous} \/ held.before < remote.answer
        BY DEF SigInv, Before
  <1> QED
    BY <1>2, <1>3, Numbers

\* While the service still shows the old candidates, a poll of new credentials finds nothing new.
LEMMA StaleIsFiltered ==
    ASSUME SigInv, ~shown.late, remote.slot = shown.slot, remote.slot.of # signaling.ufrag
    PROVE  FilterIce = {}
  <1>1. CASE remote.slot.of = 0
    <2>1. Response.texts = {}
          BY <1>1 DEF Response, SigInv, Progressed
    <2> QED
      BY <2>1 DEF FilterIce
  <1>2. CASE remote.slot.of # 0
    <2>1. signaling.baseline = Response /\ Response.known
          BY <1>2 DEF SigInv, Based, Response
    <2>2. ASSUME NEW text \in Response.texts, ~IsEnd(text)
          PROVE  ~BelongsToCurrent(text)
      <3>1. text = Text(remote.slot.of)
            BY <2>2 DEF Response, IsEnd
      <3>2. text[2] # 0 => text[2] = remote.slot.of
            BY <3>1 DEF Text
      <3> QED
        BY <2>1, <3>2 DEF BelongsToCurrent
    <2> DEFINE listed == {t \in Response.texts : ~IsEnd(t)}
               current == {t \in listed : BelongsToCurrent(t)}
               end == IF current = listed /\ (~signaling.baseline.known \/ current # {})
                      THEN Response.texts \ listed ELSE {}
    <2>3. current = {}
          BY <2>2
    <2>4. end = {}
          BY <2>1, <2>3
    <2>5. FilterIce = IF current \cup end = signaling.polled.texts THEN {} ELSE current \cup end
          BY DEF FilterIce
    <2> QED
      BY <2>3, <2>4, <2>5
  <1> QED
    BY <1>1, <1>2

\* So what a poll hands out is of the current credentials, but for the one exception.
LEMMA HandedIsCurrent ==
    ASSUME SigInv, [SigNext]_sigVars, signaling'.polled.known, signaling'.polled # signaling.polled
    PROVE  remote.slot.of = signaling.ufrag \/ remote.slot # shown.slot \/ shown.late
  <1>1. PICK q \in Polls : PollIce(q)
    <2>1. ASSUME NEW n \in 1 .. Len(offers), BeginOffer(n)
          PROVE  FALSE
          BY <2>1, StateFields DEF BeginOffer, NoIce, SigInv
    <2>2. ASSUME NEW n \in 1 .. Len(offers), TakeAnswer(n)
          PROVE  FALSE
      <3>1. signaling' = ApplyAnswer(signaling, n)
            BY <2>2 DEF TakeAnswer
      <3>2. ApplyAnswer(signaling, n).polled = signaling.polled
            BY StateFields DEF ApplyAnswer, SigInv, Channel
      <3> QED
        BY <3>1, <3>2
    <2>3. signaling' # signaling
          OBVIOUS
    <2>4. ASSUME NEW n \in 1 .. Len(offers), ExchangeStep(n)
          PROVE  FALSE
          BY <2>1, <2>2, <2>3, <2>4
             DEF ExchangeStep, LockOffer, ReadPrevious, ReadBaseline, SendOffer, OfferFails
    <2> QED
      BY <2>3, <2>4 DEF SigNext, MakeOffer, AskIce, LockPoll, IcePollFails, Answer, ShowIce, sigVars
  <1>2. FilterIce # {}
        BY <1>1 DEF PollIce
  <1> QED
    BY <1>2, StaleIsFiltered

\* StaleRefused for any offers, polls and addresses: an offer that waits for a fresh answer is not given
\* the one that was there before, and the candidates of old credentials are not handed out as new, unless
\* the offer of the new ones was given the late answer of an offer the page had given up.
THEOREM StaleIsRefused == SigSpec => StaleRefused
  <1>1. ASSUME SigInv, [SigNext]_sigVars
        PROVE  /\ \A n \in 1 .. Len(offers) :
                     Offer(n).at = "fresh" /\ offers'[n].at = "done" => remote.answer # held.before
               /\ signaling'.polled.known /\ signaling'.polled # signaling.polled
                     => remote.slot.of = signaling.ufrag \/ remote.slot # shown.slot \/ shown.late
        BY <1>1, AnswerIsLater, HandedIsCurrent DEF Offer
  <1> QED
    BY <1>1, SignalingSound, PTL DEF SigSpec, StaleRefused
===============================================================================
