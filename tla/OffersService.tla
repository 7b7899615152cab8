---------------------------- MODULE OffersService ----------------------------
(***************************************************************************)
(* OffersService: an offer for a hired application, which its candidate      *)
(* accepts or declines until it expires.  No job expires offers: a reader   *)
(* that finds one SENT past its date updates it.  Offer.applicationId is     *)
(* unique, so the table is indexed by applications.                          *)
(***************************************************************************)
EXTENDS Schema, Requests

VARIABLES
    offers,    \* Offer
    lapsed,    \* the applications whose offer's expiresAt is in the past
    answers    \* every status written to an offer after SENT, by commit

offerTables == <<offers, lapsed, answers>>

OfferStatus == {"SENT", "ACCEPTED", "DECLINED", "EXPIRED"}
Answer == {"ACCEPTED", "DECLINED"}
Outcome == Answer \cup {"EXPIRED"}

\* None is no status.
ASSUME OfferAssumption == None \notin OfferStatus

OfferTablesInit ==
    /\ offers = [a \in Application |-> None]
    /\ lapsed = {}
    /\ answers = [a \in Application |-> <<>>]

\* The clock passes an offer's expiresAt.
Lapse(a) ==
    /\ offers[a] # None /\ a \notin lapsed
    /\ lapsed' = lapsed \cup {a}
    /\ UNCHANGED <<tables, req, offers, answers>>

-----------------------------------------------------------------------------
(* create(): the application is read HIRED, expiresAt is found to be in the *)
(* future, and the row is inserted unless there is one (P2002).             *)

\* Mutation of CreateOfferRead: an offer for any application not rejected.
CreateOfferReadUnhired(r, a) ==
    /\ Arrives(r)
    /\ a \in Applications /\ applications[a].status # "REJECTED"
    /\ Goto(r, [pc |-> "offer", app |-> a])
    /\ UNCHANGED <<tables, offerTables>>

CreateOfferRead(r, a) ==
    /\ Arrives(r)
    /\ a \in Applications
    /\ Goto(r, IF applications[a].status = "HIRED"
               THEN [pc |-> "offer", app |-> a] ELSE Done)
    /\ UNCHANGED <<tables, offerTables>>

CreateOfferInsert(r) ==
    /\ At(r, "offer")
    /\ IF offers[req[r].app] = None
       THEN offers' = [offers EXCEPT ![req[r].app] = "SENT"]
       ELSE UNCHANGED offers
    /\ Finish(r)
    /\ UNCHANGED <<tables, lapsed, answers>>

-----------------------------------------------------------------------------
(* Every other handler starts by reading the offer and expiring it if it is *)
(* due; an offer just expired answers none of their questions but a read's. *)

Due(a) == offers[a] = "SENT" /\ a \in lapsed

\* Mutation of ReadOffer: the status is not checked.
ReadOfferAny(r, a, wanted, state) ==
    /\ Arrives(r)
    /\ offers[a] # None
    /\ Goto(r, IF Due(a) THEN [pc |-> "expire", app |-> a] ELSE state)

ReadOffer(r, a, wanted, state) ==
    /\ Arrives(r)
    /\ offers[a] # None
    /\ Goto(r, IF Due(a) THEN [pc |-> "expire", app |-> a]
               ELSE IF offers[a] = wanted THEN state ELSE Done)

WriteOffer(a, status) ==
    /\ offers' = [offers EXCEPT ![a] = status]
    /\ answers' = [answers EXCEPT ![a] = Append(@, status)]
    /\ UNCHANGED <<tables, lapsed>>

ExpireIfNeeded(r) ==
    /\ At(r, "expire")
    /\ WriteOffer(req[r].app, "EXPIRED")
    /\ Finish(r)

\* getForJob(), getMine() and listForOrg().
GetOffer(r, a) ==
    ReadOffer(r, a, "SENT", Done) /\ UNCHANGED <<tables, offerTables>>

RespondRead(r, a) ==
    /\ \E answer \in Answer :
         ReadOffer(r, a, "SENT", [pc |-> "respond", app |-> a, answer |-> answer])
    /\ UNCHANGED <<tables, offerTables>>

RespondUpdate(r) ==
    /\ At(r, "respond")
    /\ WriteOffer(req[r].app, req[r].answer)
    /\ Finish(r)

-----------------------------------------------------------------------------
JobApplicationOfferController(r) ==
    \E a \in Application : CreateOfferRead(r, a) \/ GetOffer(r, a)

ApplicationOfferController(r) ==
    \E a \in Application : GetOffer(r, a) \/ RespondRead(r, a)

BeginOffer(r) == JobApplicationOfferController(r) \/ ApplicationOfferController(r)

ContinueOffer(r) ==
    \/ CreateOfferInsert(r)
    \/ ExpireIfNeeded(r)
    \/ RespondUpdate(r)
=============================================================================
