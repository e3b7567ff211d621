------------------------------ MODULE Signaling ------------------------------
(***************************************************************************)
(* The exchange of SDP and ICE of one streaming session.  The service has  *)
(* one place for the last answer and one for the last candidates; neither  *)
(* says which offer it belongs to, and what is there stays until it is     *)
(* replaced.  A call the page gave up runs on in the flow, so exchanges    *)
(* and polls of several offers meet at the locks of the session.           *)
(***************************************************************************)
EXTENDS Naturals, Sequences

CONSTANTS MaxOffers,   \* offers of the page (bound)
          Polls,       \* polls that may be under way at once (bound)
          Addresses    \* addresses a remote candidate may have

\* Polls are told from offers, which are numbered.
ASSUME SignalingAssumption == MaxOffers \in Nat /\ \A q \in Polls : q \notin Nat

VARIABLES offers,      \* the page's offers in order: kind, ICE credentials, step of the exchange
          held,        \* the locals of the exchange that holds the locks
          signaling,   \* SessionSignalingState
          ice,         \* who holds mutation.ice: 0, an offer or a poll
          poll,        \* each poll: its step and the generation it was asked for
          remote,      \* the service: the last offer it got, the answer and candidates it shows
          shown,       \* what the service showed when the offer of the current credentials began,
                       \* and whether that offer was given the late answer of one before it
          handed       \* the ICE credentials of the last candidates given to the page

sigVars == <<offers, held, signaling, ice, poll, remote, shown, handed>>

NoIce == [known |-> FALSE, texts |-> {}]
NoSlot == [of |-> 0, found |-> FALSE, end |-> FALSE]
NotHeld == [before |-> 0, slot |-> NoSlot, previous |-> 0, base |-> NoIce]

SigInit ==
    /\ offers = <<>> /\ held = NotHeld /\ ice = 0 /\ handed = 0
    /\ shown = [slot |-> NoSlot, late |-> FALSE]
    /\ signaling = [gen |-> 0, started |-> FALSE, creds |-> 0, answers |-> [media |-> 0, chat |-> 0],
                    polled |-> NoIce, baseline |-> NoIce, ufrag |-> 0]
    /\ poll = [q \in Polls |-> [at |-> "idle", gen |-> 0]]
    /\ remote \in [posted : {0}, answer : {0}, ufrag : {0}, slot : {NoSlot},
                   marks : BOOLEAN, renews : {FALSE},
                   address : [1 .. MaxOffers -> Addresses]]
    /\ remote.marks => \A m, n \in 1 .. MaxOffers : remote.address[m] = remote.address[n]

----------------------------------------------------------------------------
(* Candidates.  What can be compared is their text: the address, and the   *)
(* ICE user name when the service marks candidates with it.                *)

Text(ufrag) == <<remote.address[ufrag], IF remote.marks THEN ufrag ELSE 0>>

\* One snapshot as the gateway returns it: nothing, or a list with or without an end mark.
Response ==
    [known |-> remote.slot.of # 0,
     texts |-> (IF remote.slot.found THEN {Text(remote.slot.of)} ELSE {})
               \cup (IF remote.slot.end THEN {<<"end", 0>>} ELSE {})]

IsEnd(text) == text[1] = "end"

BelongsToCurrent(text) ==
    IF text[2] # 0 /\ signaling.ufrag # 0 THEN text[2] = signaling.ufrag
    ELSE text \notin signaling.baseline.texts

\* What of a snapshot is handed out: an end mark only with candidates it can belong to.
FilterIce ==
    LET listed == {t \in Response.texts : ~IsEnd(t)}
        current == {t \in listed : BelongsToCurrent(t)}
        end == IF current = listed /\ (~signaling.baseline.known \/ current # {})
               THEN Response.texts \ listed ELSE {}
    IN IF current \cup end = signaling.polled.texts THEN {} ELSE current \cup end

----------------------------------------------------------------------------
(* The page: one negotiation at a time, but it does not wait for a call it *)
(* gave up.  New peers and restarts have new ICE credentials; quality and  *)
(* voice are renegotiated on a connection that has its candidates.         *)

Offer(n) == offers[n]
Channel(n) == IF Offer(n).kind = "chat" THEN "chat" ELSE "media"
Connected == signaling.ufrag # 0 /\ handed = signaling.ufrag /\ Offer(Len(offers)).at = "done"

\* Of an offer that is over, and that another one followed, only the outcome is kept.
Settled(list) ==
    [n \in 1 .. Len(list) |-> IF n < Len(list) /\ list[n].at \in {"done", "failed"}
                              THEN [kind |-> "past", at |-> list[n].at, creds |-> 0] ELSE list[n]]

MakeOffer(kind) ==
    /\ Len(offers) < MaxOffers
    /\ kind # "peer" => offers # <<>>
    /\ kind \in {"quality", "chat"} => Connected
    /\ offers' = Settled(Append(offers,
           [kind |-> kind, at |-> "waiting",
            creds |-> IF kind \in {"peer", "restart"} THEN Len(offers) + 1 ELSE Offer(Len(offers)).creds]))
    /\ UNCHANGED <<held, signaling, ice, poll, remote, shown, handed>>

----------------------------------------------------------------------------
(* exchange_offer.  The negotiation lock admits the offers in their order; *)
(* its holder then takes the ice lock, so one step stands for both.        *)

NewIce(n) == Offer(n).kind = "restart" \/ (Offer(n).kind # "chat" /\ signaling.creds # Offer(n).creds)
RequireFresh(n) == NewIce(n) \/ Offer(n).kind \in {"restart", "chat"}

Advance(n, step) == offers' = [offers EXCEPT ![n].at = step]
EndExchange(n, how) ==
    /\ offers' = Settled([offers EXCEPT ![n].at = how])
    /\ held' = IF ice = n THEN NotHeld ELSE held
Posted(n) == [remote EXCEPT !.posted = n, !.renews = Offer(n).kind \in {"peer", "restart"}]

LockOffer(n) ==
    /\ Offer(n).at = "waiting" /\ ice = 0
    /\ \A m \in 1 .. n - 1 : Offer(m).at # "waiting"
    /\ ice' = n
    /\ Advance(n, "previous")
    /\ held' = [NotHeld EXCEPT !.before = remote.answer, !.slot = remote.slot]
    /\ UNCHANGED <<signaling, poll, remote, shown, handed>>

\* Mutant: only a restart looks for an answer that is already there.
ReadPreviousOfRestart(n) ==
    /\ Offer(n).at = "previous"
    /\ LET looks == Offer(n).kind = "restart"
           previous == IF remote.answer # 0 THEN remote.answer ELSE signaling.answers[Channel(n)]
       IN held' = [held EXCEPT !.previous = IF looks THEN previous ELSE 0]
    /\ Advance(n, "baseline")
    /\ UNCHANGED <<signaling, ice, poll, remote, shown, handed>>

\* The answer that is there before the offer is sent.
ReadPrevious(n) ==
    /\ Offer(n).at = "previous"
    /\ LET looks == RequireFresh(n) /\ (signaling.started \/ Offer(n).kind = "restart")
           previous == IF remote.answer # 0 THEN remote.answer ELSE signaling.answers[Channel(n)]
       IN held' = [held EXCEPT !.previous = IF looks THEN previous ELSE 0]
    /\ Advance(n, "baseline")
    /\ UNCHANGED <<signaling, ice, poll, remote, shown, handed>>

\* Mutant: the baseline is what the page was handed, the service is not asked.
BaselineOfPolls(n) ==
    /\ Offer(n).at = "baseline"
    /\ LET looks == NewIce(n) /\ (signaling.creds # 0 \/ signaling.polled.known)
           base == IF signaling.polled.known THEN signaling.polled ELSE signaling.baseline
       IN held' = [held EXCEPT !.base = IF looks THEN base ELSE NoIce]
    /\ Advance(n, "begin")
    /\ UNCHANGED <<signaling, ice, poll, remote, shown, handed>>

\* The candidates that are there before the offer is sent.
ReadBaseline(n) ==
    /\ Offer(n).at = "baseline"
    /\ LET looks == NewIce(n) /\ (signaling.creds # 0 \/ signaling.polled.known)
           base == IF Response.known THEN Response
                   ELSE IF signaling.polled.known THEN signaling.polled ELSE signaling.baseline
       IN held' = [held EXCEPT !.base = IF looks THEN base ELSE NoIce]
    /\ Advance(n, "begin")
    /\ UNCHANGED <<signaling, ice, poll, remote, shown, handed>>

BeginOffer(n) ==
    /\ Offer(n).at = "begin"
    /\ signaling' = IF NewIce(n)
                    THEN [signaling EXCEPT !.started = TRUE, !.gen = @ + 1, !.creds = Offer(n).creds,
                                           !.baseline = held.base, !.polled = NoIce]
                    ELSE [signaling EXCEPT !.started = TRUE]
    \* Whether a fresh answer is required was decided before the credentials were stored.
    /\ Advance(n, IF RequireFresh(n) THEN "sendFresh" ELSE "send")
    /\ shown' = IF NewIce(n) THEN [slot |-> held.slot, late |-> FALSE] ELSE shown
    /\ held' = [held EXCEPT !.base = NoIce, !.slot = NoSlot]
    /\ UNCHANGED <<ice, poll, remote, handed>>

SendOffer(n) ==
    /\ Offer(n).at \in {"sendFresh", "send"}
    /\ remote' = Posted(n)
    /\ Advance(n, IF Offer(n).at = "sendFresh" THEN "fresh" ELSE "any")
    /\ UNCHANGED <<held, signaling, ice, poll, shown, handed>>

FilterStaleAnswer(n) ==
    Offer(n).at = "fresh" => remote.answer \notin {held.previous, signaling.answers[Channel(n)]}

\* An answer with the ICE credentials of the last one makes its candidates current again.
ApplyAnswer(state, n) ==
    LET ufrag == remote.ufrag
        media == [state EXCEPT !.baseline = IF ufrag = state.ufrag THEN NoIce ELSE @, !.ufrag = ufrag]
    IN [(IF Channel(n) = "media" THEN media ELSE state) EXCEPT !.answers[Channel(n)] = remote.answer]

TakeAnswer(n) ==
    /\ Offer(n).at \in {"fresh", "any"}
    /\ remote.answer # 0 /\ FilterStaleAnswer(n)
    /\ signaling' = ApplyAnswer(signaling, n)
    /\ EndExchange(n, "done") /\ ice' = 0
    /\ shown' = [shown EXCEPT !.late = @ \/ (Channel(n) = "media" /\ Offer(n).at = "fresh" /\ remote.answer # n)]
    /\ UNCHANGED <<poll, remote, handed>>

\* The deadline passes or a request fails; a post that failed may have arrived.
OfferFails(n) ==
    /\ Offer(n).at \notin {"done", "failed"}
    /\ EndExchange(n, "failed")
    /\ ice' = IF ice = n THEN 0 ELSE ice
    /\ \/ remote' = remote
       \/ Offer(n).at \in {"sendFresh", "send"} /\ remote' = Posted(n)
    /\ UNCHANGED <<signaling, poll, shown, handed>>

----------------------------------------------------------------------------
(* poll_ice.                                                               *)

\* The page polls once it has the answer of an offer of its own ICE.
AskIce(q) ==
    /\ poll[q].at = "idle"
    /\ offers # <<>> /\ Offer(Len(offers)).at = "done" /\ Offer(Len(offers)).kind \in {"peer", "restart"}
    /\ poll' = [poll EXCEPT ![q] = [at |-> "waiting", gen |-> signaling.gen]]
    /\ UNCHANGED <<offers, held, signaling, ice, remote, shown, handed>>

IceGenerationCurrent(q) == poll[q].gen = signaling.gen

PollEnds(q) == poll' = [poll EXCEPT ![q] = [at |-> "idle", gen |-> 0]]

LockPoll(q) ==
    /\ poll[q].at = "waiting" /\ ice = 0
    /\ IF IceGenerationCurrent(q)
       THEN poll' = [poll EXCEPT ![q].at = "reading"] /\ ice' = q
       ELSE PollEnds(q) /\ ice' = ice
    /\ UNCHANGED <<offers, held, signaling, remote, shown, handed>>

PollIce(q) ==
    /\ poll[q].at = "reading"
    /\ LET news == FilterIce
       IN IF news = {} THEN UNCHANGED <<signaling, handed>>
          ELSE /\ signaling' = [signaling EXCEPT !.polled = [known |-> TRUE, texts |-> news]]
               /\ handed' = remote.slot.of
    /\ PollEnds(q) /\ ice' = 0
    /\ UNCHANGED <<offers, held, remote, shown>>

IcePollFails(q) ==
    /\ poll[q].at # "idle"
    /\ PollEnds(q)
    /\ ice' = IF poll[q].at = "reading" THEN 0 ELSE ice
    /\ UNCHANGED <<offers, held, signaling, remote, shown, handed>>

----------------------------------------------------------------------------
(* The service.  It answers the last offer it got.  A renegotiation keeps  *)
(* the remote ICE credentials, a new peer or a restart may keep those of   *)
(* the candidates that are shown.                                          *)

Answer ==
    /\ remote.answer # remote.posted
    /\ \E ufrag \in {remote.posted, remote.slot.of} \ {0} :
          /\ ufrag = remote.posted => remote.renews
          /\ remote' = [remote EXCEPT !.answer = remote.posted, !.ufrag = ufrag]
    /\ UNCHANGED <<offers, held, signaling, ice, poll, shown, handed>>

ShowIce ==
    /\ remote.answer # 0
    /\ \/ /\ remote.ufrag # remote.slot.of
          /\ remote' = [remote EXCEPT !.slot = [of |-> remote.ufrag, found |-> FALSE, end |-> FALSE]]
       \/ remote.slot.of # 0 /\ ~remote.slot.found /\ remote' = [remote EXCEPT !.slot.found = TRUE]
       \/ remote.slot.found /\ ~remote.slot.end /\ remote' = [remote EXCEPT !.slot.end = TRUE]
    /\ UNCHANGED <<offers, held, signaling, ice, poll, shown, handed>>

ExchangeStep(n) ==
    \/ LockOffer(n) \/ ReadPrevious(n) \/ ReadBaseline(n) \/ BeginOffer(n) \/ SendOffer(n)
    \/ TakeAnswer(n) \/ OfferFails(n)

SigNext ==
    \/ \E kind \in {"peer", "restart", "quality", "chat"} : MakeOffer(kind)
    \/ \E n \in 1 .. Len(offers) : ExchangeStep(n)
    \/ \E q \in Polls : AskIce(q) \/ LockPoll(q) \/ PollIce(q) \/ IcePollFails(q)
    \/ Answer \/ ShowIce

SigSpec == SigInit /\ [][SigNext]_sigVars

----------------------------------------------------------------------------
(* Properties.                                                             *)

\* Types of the signaling state; the holder of the ice lock is at work.
SigTypeOK ==
    /\ signaling.gen \in 0 .. Len(offers) /\ signaling.creds \in 0 .. Len(offers)
    /\ signaling.ufrag \in 0 .. MaxOffers
    /\ \A n \in 1 .. Len(offers) :
          (ice = n) <=> Offer(n).at \in {"previous", "baseline", "begin", "sendFresh", "send", "fresh", "any"}
    /\ \A q \in Polls : poll[q].at = "reading" <=> ice = q

\* What the service kept from before an offer is not taken for its answer: an
\* offer that changes the ICE credentials, restarts or renegotiates voice is
\* never given the answer that was there before it (exchange_offer's previous
\* answer), and the page is never handed candidates, or their end, of other ICE
\* credentials that were there when its offer was made, neither by a late poll
\* of an earlier offer nor after offers that failed at any step (filter_ice).
\* The exception is an offer that was itself given the late answer of an offer
\* before it, which failed at the page but was sent: exchange_offer only knows
\* the answer that was there when it began, and takes any other for its own.
StaleRefused ==
    [][/\ \A n \in 1 .. Len(offers) :
             Offer(n).at = "fresh" /\ offers'[n].at = "done" => remote.answer # held.before
       /\ signaling'.polled.known /\ signaling'.polled # signaling.polled
             => remote.slot.of = signaling.ufrag \/ remote.slot # shown.slot \/ shown.late]_sigVars
=============================================================================
