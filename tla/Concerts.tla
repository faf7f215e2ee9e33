------------------------------ MODULE Concerts ------------------------------
(***************************************************************************)
(* Concerts, venues, performers, ticket types and campaigns as staff edit  *)
(* them (services/events).  Dates, texts and prices are left out, as are   *)
(* the states of campaigns, which ConcertAdmin has.                        *)
(***************************************************************************)
EXTENDS Products, FiniteSetsExt

CONSTANTS
  Venues, Concerts,
  Offers,          \* what uq_ticket_types_concert_tier_method tells apart: pairs of tier and sale method
  Capacities,      \* the capacities a concert may be given
  TotalQuantities  \* the sizes a ticket type may be given

VARIABLES
  venues,          \* rows of venues
  concert,         \* concerts: [company, venue, status, capacity], or Absent
  performers,      \* concert_performers: [concert, artist]
  ticketType,      \* ticket_types of a concert: [total, sold], or Absent
  campaigns        \* <<concert, offer>> with a lottery or direct-sale campaign

concertVars == <<venues, concert, performers, ticketType, campaigns>>

\* on_sale stands for the three _EVENT_OPEN_STATUSES
Statuses == {"scheduled", "on_sale", "cancelled"}

\* columns of concerts and ticket_types; of concert_performers the artist,
\* with chk_concert_performers_one_of
ConcertRow == [company : Companies, venue : Venues, status : Statuses, capacity : Capacities]
TicketTypeRow == [total : TotalQuantities, sold : Nat]
Performers == {a \in AlbumArtists : a.idol = None \/ a.group = None}

ManagesConcert(who, c) == Exists(concert[c]) /\ InScope(who, concert[c].company)

\* managers may not touch dates and capacities of a concert on sale
Frozen(who, c) == who \in Managers /\ concert[c].status = "on_sale"

Offered(types, c) == MapThenSumSet(LAMBDA o : IF Exists(types[<<c, o>>]) THEN types[<<c, o>>].total ELSE 0, Offers)

\* trg_ticket_types_capacity, which sums the siblings of the row written
CapacityTrigger(types, c) == Offered(types, c) <= concert[c].capacity

-----------------------------------------------------------------------------
(***************************************************************************)
(* Venues and concerts                                                     *)
(***************************************************************************)
AddVenue(v) ==
  /\ v \notin venues
  /\ venues' = venues \cup {v}
  /\ UNCHANGED <<concert, performers, ticketType, campaigns>>

UpdateVenue(v) == v \in venues /\ UNCHANGED concertVars

DeleteVenue(v) ==
  /\ v \in venues
  /\ \A c \in Concerts : Exists(concert[c]) => concert[c].venue # v
  /\ venues' = venues \ {v}
  /\ UNCHANGED <<concert, performers, ticketType, campaigns>>

AddConcert(who, c, company, v, capacity, status) ==
  /\ concert[c] = Absent
  /\ InScope(who, company)
  /\ company \in companies
  /\ v \in venues
  /\ concert' = [concert EXCEPT ![c] = [company |-> company, venue |-> v, status |-> status, capacity |-> capacity]]
  /\ UNCHANGED <<venues, performers, ticketType, campaigns>>

\* the capacity is not compared with the ticket types already there
UpdateConcert(who, c, v, capacity, status) ==
  /\ ManagesConcert(who, c)
  /\ ~(Frozen(who, c) /\ capacity # concert[c].capacity)
  /\ v \in venues
  /\ concert' = [concert EXCEPT ![c].venue = v, ![c].capacity = capacity, ![c].status = status]
  /\ UNCHANGED <<venues, performers, ticketType, campaigns>>

\* a soft delete, which keeps tickets and entries
DeleteConcert(who, c) ==
  /\ ManagesConcert(who, c)
  /\ concert' = [concert EXCEPT ![c].status = "cancelled"]
  /\ UNCHANGED <<venues, performers, ticketType, campaigns>>

AssignPerformer(who, c, a) ==
  /\ a \in Performers
  /\ ManagesConcert(who, c)
  /\ ArtistExists(a)
  /\ performers' = performers \cup {[concert |-> c, artist |-> a]}
  /\ UNCHANGED <<venues, concert, ticketType, campaigns>>

RemovePerformer(who, link) ==
  /\ link \in performers
  /\ ManagesConcert(who, link.concert)
  /\ performers' = performers \ {link}
  /\ UNCHANGED <<venues, concert, ticketType, campaigns>>

(***************************************************************************)
(* Ticket types and campaigns                                              *)
(***************************************************************************)
AddTicketType(who, c, o, n) ==
  /\ ManagesConcert(who, c)
  /\ ticketType[<<c, o>>] = Absent
  /\ ticketType' = [ticketType EXCEPT ![<<c, o>>] = [total |-> n, sold |-> 0]]
  /\ CapacityTrigger(ticketType', c)
  /\ UNCHANGED <<venues, concert, performers, campaigns>>

ManagesTicketType(who, c, o) == Exists(ticketType[<<c, o>>]) /\ ManagesConcert(who, c)

\* the trigger sees writes of total_quantity only: an edit of the price
\* passes on a concert that offers too much already
UpdateTicketType(who, c, o, n) ==
  /\ ManagesTicketType(who, c, o)
  /\ ~(Frozen(who, c) /\ n # ticketType[<<c, o>>].total)
  /\ n >= ticketType[<<c, o>>].sold
  /\ ticketType' = [ticketType EXCEPT ![<<c, o>>].total = n]
  /\ n # ticketType[<<c, o>>].total => CapacityTrigger(ticketType', c)
  /\ UNCHANGED <<venues, concert, performers, campaigns>>

\* tickets and campaigns go with it, in the database
DeleteTicketType(who, c, o) ==
  /\ ManagesTicketType(who, c, o)
  /\ ticketType' = [ticketType EXCEPT ![<<c, o>>] = Absent]
  /\ campaigns' = campaigns \ {<<c, o>>}
  /\ UNCHANGED <<venues, concert, performers>>

\* a ticket sold by draw, checkout or capture, as ConcertSales has them
SellTicket(c, o) ==
  /\ Exists(ticketType[<<c, o>>])
  /\ ticketType[<<c, o>>].sold < ticketType[<<c, o>>].total
  /\ ticketType' = [ticketType EXCEPT ![<<c, o>>].sold = @ + 1]
  /\ UNCHANGED <<venues, concert, performers, campaigns>>

\* of either kind: the kind is the sale method of the ticket type
AddCampaign(who, c, o) ==
  /\ ManagesTicketType(who, c, o)
  /\ campaigns' = campaigns \cup {<<c, o>>}
  /\ UNCHANGED <<venues, concert, performers, ticketType>>

UpdateCampaign(who, c, o) ==
  /\ <<c, o>> \in campaigns
  /\ ManagesTicketType(who, c, o)
  /\ UNCHANGED concertVars

DeleteCampaign(who, c, o) ==
  /\ <<c, o>> \in campaigns
  /\ ManagesTicketType(who, c, o)
  /\ campaigns' = campaigns \ {<<c, o>>}
  /\ UNCHANGED <<venues, concert, performers, ticketType>>

-----------------------------------------------------------------------------
ConcertsTypeOK ==
  /\ venues \subseteq Venues
  /\ concert \in [Concerts -> ConcertRow \cup {Absent}]
  /\ performers \subseteq [concert : Concerts, artist : Performers]
  /\ ticketType \in [Concerts \X Offers -> TicketTypeRow \cup {Absent}]
  /\ campaigns \subseteq Concerts \X Offers

\* Nothing of a concert refers to a row that was deleted.
ConcertRefsExist ==
  /\ \A c \in Concerts : Exists(concert[c]) =>
       concert[c].company \in companies /\ concert[c].venue \in venues
  /\ \A link \in performers : Exists(concert[link.concert]) /\ ArtistExists(link.artist)
  /\ \A co \in Concerts \X Offers : Exists(ticketType[co]) => Exists(concert[co[1]])
  /\ \A co \in campaigns : Exists(ticketType[co])
=============================================================================
