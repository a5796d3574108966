------------------------------ MODULE OrderData ------------------------------
(***************************************************************************)
(* Orders as the program moves them around: the record a Kafka message     *)
(* decodes to (internal/models), and the row the four tables of            *)
(* migrations/000001 keep of it.  Only the fields the program's control    *)
(* depends on are kept.                                                    *)
(***************************************************************************)
EXTENDS Naturals

CONSTANTS
  Uids,        \* order_uid values
  Customers,   \* customer_id values, which are also user names
  Orders,      \* the orders that pass processMessage's validation
  NoOrder,     \* a row that is not there
  NsPerMicro   \* nanoseconds in a microsecond: the resolution of TIMESTAMPTZ

(***************************************************************************)
(* The statements of AddOrder, by the table they insert into.  The schema  *)
(* is narrower than the validation tags (INTEGER columns for uint fields,  *)
(* VARCHAR(100) for an e-mail of any length), so a validated order may be  *)
(* refused by one of them: refusedBy names it.                             *)
(***************************************************************************)
Tables == {"orders", "delivery", "payment", "item"}

ASSUME OrdersAssumption ==
  Orders \subseteq [uid       : Uids,
                    customer  : Customers,
                    date      : Nat,
                    items     : Nat \ {0},
                    refusedBy : Tables \cup {"none"}]

ASSUME MicroAssumption == NsPerMicro \in Nat \ {0}

Storable(o) == o.refusedBy = "none"

(* What comes back from the database: date_created cut to microseconds. *)
RowOf(o) == [o EXCEPT !.date = (@ \div NsPerMicro) * NsPerMicro]

Rows == {RowOf(o) : o \in Orders}

(* What the cache and a response may carry: the message's form or the row's. *)
Entries == Orders \cup Rows

ASSUME NoOrderAssumption == NoOrder \notin Entries

(* An order in either form is the one the row r was made from. *)
Represents(o, r) == o = r \/ RowOf(o) = r
==============================================================================
