------------------------------ MODULE OrderTerms ------------------------------
(***************************************************************************)
(* The terms of an order on their way to the exchange and back: what       *)
(* Encoder makes of them, and what the order channel (DropCopy), the open  *)
(* orders and the details of a stale order (OrderEntry) tell the order     *)
(* management system (OMS) of them, by the tables of map.cpp.              *)
(*                                                                         *)
(* The details are asked for over REST while the creation of the order may *)
(* still be on its way, by a connection of its own.  "There is no such     *)
(* order" (code 25204) is then the truth, and reported as REJECTED.        *)
(*                                                                         *)
(* The exchange is external.  An account holds its positions in one of two *)
(* modes: hedge_mode keeps a long and a short position of a symbol apart,  *)
(* one_way_mode nets them.                                                 *)
(***************************************************************************)
EXTENDS Naturals

CONSTANTS
  Nothing,    \* no message, order or field
  HoldModes,  \* modes the account may be in
  MaxFills    \* bound: fills of the order

ASSUME TermsAssumption ==
  /\ HoldModes \subseteq {"hedge_mode", "one_way_mode"} /\ MaxFills \in Nat
  /\ Nothing \notin {"gtc", "ioc", "fok", "post_only", "undefined", "long", "short"}

VARIABLES
  hold,      \* the account's mode
  asked,     \* CreateOrder: the terms the OMS asked for
  message,   \* the terms of the place-order message, once sent
  order,     \* the exchange: the terms it took, with the order's status
  refused,   \* the exchange refused the order, or it was lost on its way
  details,   \* OrderEntry: the order-details request in flight, with its answer
  early,     \* history: 25204 was answered while the order was on its way
  position,  \* the exchange: quantity of the position the order acts on
  fills,     \* the exchange: how often the order was filled
  reports    \* what the OMS was told, since the order exists

exchange == <<order, refused, position, fills>>
vars == <<hold, asked, message, exchange, details, early, reports>>

TimeInForce == {"UNDEFINED", "GFD", "GTC", "OPG", "IOC", "FOK", "GTX", "GTD",
                "AT_THE_CLOSE", "GOOD_THROUGH_CROSSING", "AT_CROSSING",
                "GOOD_FOR_TIME", "GFA", "GFM"}

\* passive: execution_instructions has PARTICIPATE_DO_NOT_INITIATE.
CreateOrder == [side : {"BUY", "SELL"}, effect : {"UNDEFINED", "OPEN", "CLOSE"},
                type : {"MARKET", "LIMIT"}, tif : TimeInForce, passive : BOOLEAN]

-----------------------------------------------------------------------------
(* map.cpp: to the exchange *)

ToSide(s)      == CASE s = "BUY" -> "buy" [] s = "SELL" -> "sell"
ToOrderType(t) == CASE t = "MARKET" -> "market" [] t = "LIMIT" -> "limit"

\* What the exchange does not know is sent as undefined.
ToTimeInForce(t) == CASE t = "GTC" -> "gtc" [] t = "IOC" -> "ioc" [] t = "FOK" -> "fok"
                      [] OTHER -> "undefined"

\* Mutant of ToPosSide: the side alone decides.
ToPosSideOfSide(effect, side) == IF side = "BUY" THEN "long" ELSE "short"

ToPosSide(effect, side) ==
  CASE effect = "UNDEFINED"                -> "undefined"
    [] effect = "OPEN"  /\ side = "BUY"  -> "long"
    [] effect = "OPEN"  /\ side = "SELL" -> "short"
    [] effect = "CLOSE" /\ side = "BUY"  -> "short"
    [] effect = "CLOSE" /\ side = "SELL" -> "long"

(* map.cpp: from the exchange *)

FromSide(s)      == CASE s = "buy" -> "BUY" [] s = "sell" -> "SELL"
FromOrderType(t) == CASE t = "market" -> "MARKET" [] t = "limit" -> "LIMIT"

\* Mutants of FromTimeInForce: only what is not immediate is told apart, post_only
\* is reported as GTX.
FromTimeInForceGtx(t) == CASE t = "ioc" -> "IOC" [] t = "fok" -> "FOK"
                           [] t = "gtc" -> "GTC" [] t = "post_only" -> "GTX"
FromTimeInForceShort(t) == CASE t \in {"gtc", "post_only"} -> "GTC" [] OTHER -> "IOC"

FromTimeInForce(t) == CASE t = "ioc" -> "IOC" [] t = "fok" -> "FOK"
                        [] t \in {"gtc", "post_only"} -> "GTC"

\* Mutant of FromPosSide: the position side alone decides.
FromPosSideOnly(p, side) == CASE p = "net"   -> "UNDEFINED"
                              [] p = "long"  -> "OPEN"
                              [] p = "short" -> "CLOSE"

FromPosSide(p, side) ==
  CASE p = "net"                      -> "UNDEFINED"
    [] p = "long"  /\ side = "buy"  -> "OPEN"
    [] p = "long"  /\ side = "sell" -> "CLOSE"
    [] p = "short" /\ side = "buy"  -> "CLOSE"
    [] p = "short" /\ side = "sell" -> "OPEN"

\* Of the 26 values of trade_side, those an order can have: liquidations and
\* deliveries have no order of the OMS.
FromTradeSide(t) ==
  CASE t \in {"open", "open_long", "open_short"}    -> "OPEN"
    [] t \in {"close", "close_long", "close_short"} -> "CLOSE"
    [] t \in {"buy_single", "sell_single"}          -> "UNDEFINED"

FromOrderStatus(s) == CASE s \in {"live", "new", "partially_filled"} -> "WORKING"
                        [] s = "filled"    -> "COMPLETED"
                        [] s = "cancelled" -> "CANCELED"

-----------------------------------------------------------------------------
(* The gateway *)

\* Encoder's place_order and place_order_ws: only a limit order has a time in
\* force, which PARTICIPATE_DO_NOT_INITIATE replaces.
Terms(c) ==
  [side    |-> ToSide(c.side),
   type    |-> ToOrderType(c.type),
   tif     |-> CASE c.type = "MARKET" -> Nothing
                 [] c.type = "LIMIT" /\ c.passive -> "post_only"
                 [] OTHER -> ToTimeInForce(c.tif),
   posSide |-> IF c.effect = "UNDEFINED" THEN Nothing ELSE ToPosSide(c.effect, c.side)]

PlaceOrder ==
  /\ message = Nothing
  /\ message' = Terms(asked)
  /\ UNCHANGED <<hold, asked, exchange, details, early, reports>>

Working == order # Nothing /\ order.status \in {"live", "new", "partially_filled"}

\* A report of order o, its position effect told in one of two ways.
Report(o, effect) ==
  [side |-> FromSide(o.side), type |-> FromOrderType(o.type), tif |-> FromTimeInForce(o.tif),
   effect |-> effect, status |-> FromOrderStatus(o.status)]

\* The report made of code 25204: the answer has no order, so the terms are blank.
Rejected ==
  [side |-> "UNDEFINED", type |-> "UNDEFINED", tif |-> "UNDEFINED",
   effect |-> "UNDEFINED", status |-> "REJECTED"]

\* DropCopy: the order channel.
OrderUpdate ==
  /\ order # Nothing
  /\ reports' = reports \cup {Report(order, FromTradeSide(order.tradeSide))}
  /\ UNCHANGED <<hold, asked, message, exchange, details, early>>

\* OrderEntry: the open orders.
UnfilledOrdersAck ==
  /\ Working
  /\ reports' = reports \cup {Report(order, FromPosSide(order.posSide, order.side))}
  /\ UNCHANGED <<hold, asked, message, exchange, details, early>>

\* OrderEntry: check_request_queue asks for the details of a stale order.  (One request
\* at a time is looked at: answers do not depend on one another.)
GetOrderDetails ==
  /\ message # Nothing /\ details = Nothing
  /\ details' = [code |-> "none", item |-> Nothing]
  /\ UNCHANGED <<hold, asked, message, exchange, early, reports>>

\* Mutant of OrderDetailsAck: every error is taken for 25204.
OrderDetailsAckAny ==
  /\ details # Nothing /\ details.code # "none"
  /\ details' = Nothing
  /\ reports' = reports \cup
       (IF details.code = "0"
        THEN {Report(details.item, FromPosSide(details.item.posSide, details.item.side))}
        ELSE {Rejected})
  /\ UNCHANGED <<hold, asked, message, exchange, early>>

\* An order, 25204, or an error that is only logged.
OrderDetailsAck ==
  /\ details # Nothing /\ details.code # "none"
  /\ details' = Nothing
  /\ reports' = reports \cup
       CASE details.code = "0" ->
              {Report(details.item, FromPosSide(details.item.posSide, details.item.side))}
         [] details.code = "25204" -> {Rejected}
         [] details.code = "other" -> {}
  /\ UNCHANGED <<hold, asked, message, exchange, early>>

-----------------------------------------------------------------------------
(* The exchange *)

\* What trade_side and pos_side it gives the order it makes of message m.
TradeSides(m) ==
  IF hold = "one_way_mode" THEN {IF m.side = "buy" THEN "buy_single" ELSE "sell_single"}
  ELSE CASE m.posSide = "long"  /\ m.side = "buy"  -> {"open", "open_long"}
         [] m.posSide = "long"  /\ m.side = "sell" -> {"close", "close_long"}
         [] m.posSide = "short" /\ m.side = "buy"  -> {"close", "close_short"}
         [] m.posSide = "short" /\ m.side = "sell" -> {"open", "open_short"}

PosSides(m) == IF hold = "one_way_mode" THEN {"long", "short", "net"} ELSE {m.posSide}

\* In hedge mode an order needs a position side.  A time in force it does not
\* know is refused, or taken as the default.
Accept ==
  /\ message # Nothing /\ order = Nothing /\ ~refused
  /\ hold = "hedge_mode" => message.posSide # Nothing
  /\ \E t \in TradeSides(message), p \in PosSides(message), s \in {"live", "new"} :
       order' = [side |-> message.side, type |-> message.type,
                 tif |-> CASE message.tif = Nothing     -> "ioc"
                           [] message.tif = "undefined" -> "gtc"
                           [] OTHER                     -> message.tif,
                 tradeSide |-> t, posSide |-> p, status |-> s]
  /\ UNCHANGED <<hold, asked, message, refused, position, fills, details, early, reports>>

Refuse ==
  /\ message # Nothing /\ order = Nothing /\ ~refused
  /\ refused' = TRUE
  /\ UNCHANGED <<hold, asked, message, order, position, fills, details, early, reports>>

\* In hedge mode a buy grows a long position and shrinks a short one.
Execute ==
  /\ Working /\ fills < MaxFills
  /\ fills' = fills + 1
  /\ \E s \in {"partially_filled", "filled"} : order' = [order EXCEPT !.status = s]
  /\ IF hold = "hedge_mode"
     THEN IF order.side = "buy" <=> order.posSide = "long"
          THEN position' = position + 1
          ELSE position > 0 /\ position' = position - 1
     ELSE UNCHANGED position
  /\ UNCHANGED <<hold, asked, message, refused, details, early, reports>>

Cancel ==
  /\ Working
  /\ order' = [order EXCEPT !.status = "cancelled"]
  /\ UNCHANGED <<hold, asked, message, refused, position, fills, details, early, reports>>

\* The details: the order as it is, 25204 if the exchange does not have it yet or
\* not any more, or any other error.
OrderDetails ==
  /\ details # Nothing /\ details.code = "none"
  /\ \/ /\ order # Nothing
        /\ details' = [code |-> "0", item |-> order]
        /\ UNCHANGED early
     \/ /\ ~Working
        /\ details' = [code |-> "25204", item |-> Nothing]
        /\ early' = (early \/ (order = Nothing /\ ~refused))
     \/ /\ details' = [code |-> "other", item |-> Nothing]
        /\ UNCHANGED early
  /\ UNCHANGED <<hold, asked, message, exchange, reports>>

-----------------------------------------------------------------------------
Init ==
  /\ hold \in HoldModes
  /\ asked \in CreateOrder
  /\ message = Nothing /\ order = Nothing /\ refused = FALSE
  /\ details = Nothing /\ early = FALSE
  /\ position = MaxFills /\ fills = 0
  /\ reports = {}

Next == \/ PlaceOrder \/ OrderUpdate \/ UnfilledOrdersAck
        \/ GetOrderDetails \/ OrderDetailsAck
        \/ Accept \/ Refuse \/ Execute \/ Cancel \/ OrderDetails

Spec == Init /\ [][Next]_vars

-----------------------------------------------------------------------------
(* Properties *)

TypeOK ==
  /\ hold \in HoldModes /\ asked \in CreateOrder
  /\ refused \in BOOLEAN /\ early \in BOOLEAN
  /\ position \in 0 .. 2 * MaxFills /\ fills \in 0 .. MaxFills
  /\ reports \subseteq
       {Rejected} \cup [side : {"BUY", "SELL"}, effect : {"UNDEFINED", "OPEN", "CLOSE"},
                       type : {"MARKET", "LIMIT"}, tif : {"GTC", "IOC", "FOK"},
                       status : {"WORKING", "COMPLETED", "CANCELED"}]

Supported == asked.type = "LIMIT" /\ asked.tif \in {"GTC", "IOC", "FOK"}

\* The reports that tell terms: all but the one of code 25204, whose terms are blank.
Termed == reports \ {Rejected}

\* What the OMS is told are the terms it asked for, by every channel; and an order
\* that must not take liquidity is post-only at the exchange.  (PostOnly itself
\* is reported as GTC, and the instruction is not reported.)
TermsKept ==
  /\ \A r \in Termed :
       /\ r.side = asked.side /\ r.type = asked.type
       /\ Supported /\ ~asked.passive => r.tif = asked.tif
  /\ asked.passive /\ asked.type = "LIMIT" /\ order # Nothing => order.tif = "post_only"

\* In hedge mode both channels tell the effect that was asked for, ...
EffectKept ==
  hold = "hedge_mode" => \A r \in Termed : r.effect = asked.effect

\* ... and that is the effect it has: an order that opens never shrinks a position,
\* one that closes never grows it.
EffectMeant ==
  hold = "hedge_mode" =>
    /\ asked.effect = "OPEN"  => position = MaxFills + fills
    /\ asked.effect = "CLOSE" => position = MaxFills - fills

\* The order is not filled any more: it is done, or it will never exist.
Gone == IF order = Nothing THEN refused ELSE ~Working

\* An order that is reported completed, canceled or rejected is not filled any more,
\* however long the report was on its way.  The exception is REJECTED after an
\* answer 25204 that overtook the creation: such an order may still come to life.
DoneIsDone ==
  /\ (\E r \in reports : r.status \in {"COMPLETED", "CANCELED"}) => Gone
  /\ Rejected \in reports => Gone \/ early
=============================================================================
