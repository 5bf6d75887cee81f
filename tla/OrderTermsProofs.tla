--------------------------- MODULE OrderTermsProofs ---------------------------
(***************************************************************************)
(* What the tables of map.cpp make of an order on its way to the exchange  *)
(* and back, for all terms, both hold modes and any number of fills.       *)
(***************************************************************************)
EXTENDS OrderTerms, TLAPS

PlacedOrder ==
  [side : {"buy", "sell"}, type : {"market", "limit"},
   tif : {"gtc", "ioc", "fok", "post_only"},
   tradeSide : {"open", "open_long", "open_short", "close", "close_long", "close_short",
                "buy_single", "sell_single"},
   posSide : {"long", "short", "net"},
   status : {"live", "new", "partially_filled", "filled", "cancelled"}]

\* An order that has the terms asked for.
Placed(o) ==
  /\ o \in PlacedOrder
  /\ FromSide(o.side) = asked.side /\ FromOrderType(o.type) = asked.type
  /\ asked.passive /\ asked.type = "LIMIT" => o.tif = "post_only"
  /\ Supported /\ ~asked.passive => FromTimeInForce(o.tif) = asked.tif
  /\ hold = "hedge_mode" => /\ FromTradeSide(o.tradeSide) = asked.effect
                            /\ FromPosSide(o.posSide, o.side) = asked.effect

\* What a report may say of the order: the terms asked for, and done when it is gone.
Told(r) ==
  /\ r \in [side : {"BUY", "SELL"}, effect : {"UNDEFINED", "OPEN", "CLOSE"},
           type : {"MARKET", "LIMIT"}, tif : {"GTC", "IOC", "FOK"},
           status : {"WORKING", "COMPLETED", "CANCELED"}]
  /\ r.side = asked.side /\ r.type = asked.type
  /\ Supported /\ ~asked.passive => r.tif = asked.tif
  /\ hold = "hedge_mode" => r.effect = asked.effect
  /\ r.status \in {"COMPLETED", "CANCELED"} => Gone

\* An answer in flight has the terms asked for, and what it says to be done is gone.
DetailsTrue ==
  details # Nothing =>
    /\ details.code = "0" => /\ Placed(details.item)
                             /\ details.item.status \in {"filled", "cancelled"} => Gone
    /\ details.code = "25204" => Gone \/ early
    /\ details.code \in {"none", "0", "25204", "other"}

\* The invariant: whatever is on the way has the terms asked for.
TermsInv ==
  /\ TypeOK
  /\ message = Nothing \/ message = Terms(asked)
  /\ order = Nothing \/ Placed(order)
  /\ order = Nothing \/ ~refused
  /\ DetailsTrue
  /\ MaxFills - fills <= position /\ position <= MaxFills + fills
  /\ TermsKept /\ EffectKept /\ EffectMeant /\ DoneIsDone

-----------------------------------------------------------------------------
(* The tables *)

\* There and back a side and a type stay what they are, and so does a time in force
\* the exchange knows.
LEMMA ThereAndBack ==
  /\ \A s \in {"BUY", "SELL"} : ToSide(s) \in {"buy", "sell"} /\ FromSide(ToSide(s)) = s
  /\ \A t \in {"MARKET", "LIMIT"} : /\ ToOrderType(t) \in {"market", "limit"}
                                    /\ FromOrderType(ToOrderType(t)) = t
  /\ \A t \in {"GTC", "IOC", "FOK"} : /\ ToTimeInForce(t) \in {"gtc", "ioc", "fok"}
                                      /\ FromTimeInForce(ToTimeInForce(t)) = t
  /\ \A t \in TimeInForce : ToTimeInForce(t) \in {"gtc", "ioc", "fok", "undefined"}
BY DEF ToSide, FromSide, ToOrderType, FromOrderType, ToTimeInForce, FromTimeInForce,
       TimeInForce

\* The position an order acts on tells its effect back.
LEMMA EffectThereAndBack ==
  ASSUME NEW e \in {"OPEN", "CLOSE"}, NEW s \in {"BUY", "SELL"}
  PROVE  /\ ToPosSide(e, s) \in {"long", "short"}
         /\ FromPosSide(ToPosSide(e, s), ToSide(s)) = e
BY DEF ToPosSide, FromPosSide, ToSide

\* So does the trade side the exchange gives it.
LEMMA TradeSideTells ==
  ASSUME hold = "hedge_mode", NEW m, m.posSide \in {"long", "short"},
         m.side \in {"buy", "sell"}, NEW t \in TradeSides(m)
  PROVE  /\ t \in {"open", "open_long", "open_short", "close", "close_long", "close_short"}
         /\ FromTradeSide(t) = FromPosSide(m.posSide, m.side)
BY DEF TradeSides, FromTradeSide, FromPosSide

LEMMA TableTypes ==
  /\ \A s \in {"buy", "sell"} : FromSide(s) \in {"BUY", "SELL"}
  /\ \A t \in {"market", "limit"} : FromOrderType(t) \in {"MARKET", "LIMIT"}
  /\ \A t \in {"gtc", "ioc", "fok", "post_only"} : FromTimeInForce(t) \in {"GTC", "IOC", "FOK"}
  /\ \A s \in {"live", "new", "partially_filled"} : FromOrderStatus(s) = "WORKING"
  /\ \A s \in {"filled", "cancelled"} : FromOrderStatus(s) \in {"COMPLETED", "CANCELED"}
  /\ \A t \in {"open", "open_long", "open_short", "close", "close_long", "close_short",
               "buy_single", "sell_single"} :
       FromTradeSide(t) \in {"UNDEFINED", "OPEN", "CLOSE"}
  /\ \A p \in {"long", "short", "net"} : \A s \in {"buy", "sell"} :
       FromPosSide(p, s) \in {"UNDEFINED", "OPEN", "CLOSE"}
BY DEF FromSide, FromOrderType, FromTimeInForce, FromOrderStatus, FromTradeSide, FromPosSide

-----------------------------------------------------------------------------
(* The steps *)

\* The order the exchange makes of the message has the terms asked for.
LEMMA AcceptPlaces ==
  ASSUME TermsInv, Accept
  PROVE  Placed(order)'
<1>1. /\ asked \in CreateOrder /\ message = Terms(asked)
      /\ hold \in {"hedge_mode", "one_way_mode"}
      /\ hold = "hedge_mode" => message.posSide # Nothing
      /\ asked' = asked /\ hold' = hold
  BY TermsAssumption DEF TermsInv, TypeOK, Accept
<1>2. PICK t \in TradeSides(message), p \in PosSides(message), s \in {"live", "new"} :
        order' = [side |-> message.side, type |-> message.type,
                  tif |-> CASE message.tif = Nothing     -> "ioc"
                            [] message.tif = "undefined" -> "gtc"
                            [] OTHER                     -> message.tif,
                  tradeSide |-> t, posSide |-> p, status |-> s]
  BY DEF Accept
<1>3. /\ asked.side \in {"BUY", "SELL"} /\ asked.effect \in {"UNDEFINED", "OPEN", "CLOSE"}
      /\ asked.type \in {"MARKET", "LIMIT"} /\ asked.tif \in TimeInForce
  BY <1>1 DEF CreateOrder
<1>4. /\ message.side = ToSide(asked.side) /\ message.type = ToOrderType(asked.type)
      /\ message.posSide = IF asked.effect = "UNDEFINED" THEN Nothing
                           ELSE ToPosSide(asked.effect, asked.side)
      /\ message.tif = CASE asked.type = "MARKET" -> Nothing
                         [] asked.type = "LIMIT" /\ asked.passive -> "post_only"
                         [] OTHER -> ToTimeInForce(asked.tif)
  BY <1>1 DEF Terms
<1>5. /\ order'.side = message.side /\ order'.type = message.type
      /\ order'.tradeSide = t /\ order'.posSide = p /\ order'.status = s
      /\ order'.tif = CASE message.tif = Nothing     -> "ioc"
                        [] message.tif = "undefined" -> "gtc"
                        [] OTHER                     -> message.tif
      /\ order' = [side |-> order'.side, type |-> order'.type, tif |-> order'.tif,
                   tradeSide |-> t, posSide |-> p, status |-> s]
  BY <1>2
<1>6. /\ order'.side \in {"buy", "sell"} /\ order'.type \in {"market", "limit"}
      /\ FromSide(order'.side) = asked.side /\ FromOrderType(order'.type) = asked.type
  BY <1>3, <1>4, <1>5, ThereAndBack
<1>7. /\ order'.tif \in {"gtc", "ioc", "fok", "post_only"}
      /\ asked.passive /\ asked.type = "LIMIT" => order'.tif = "post_only"
      /\ Supported /\ ~asked.passive => FromTimeInForce(order'.tif) = asked.tif
  <2>1. CASE asked.type = "MARKET"
    <3>1. message.tif = Nothing  BY <1>4, <2>1
    <3>2. order'.tif = "ioc"  BY <1>5, <3>1, TermsAssumption
    <3> QED BY <2>1, <3>2 DEF Supported
  <2>2. CASE asked.type = "LIMIT" /\ asked.passive
    <3>1. message.tif = "post_only"  BY <1>4, <2>2
    <3>2. order'.tif = "post_only"  BY <1>5, <3>1, TermsAssumption
    <3> QED BY <2>2, <3>2
  <2>3. CASE asked.type = "LIMIT" /\ ~asked.passive
    <3>1. message.tif = ToTimeInForce(asked.tif)  BY <1>4, <2>3
    <3>2. message.tif \in {"gtc", "ioc", "fok", "undefined"}  BY <1>3, <3>1, ThereAndBack
    <3>3. order'.tif = IF message.tif = "undefined" THEN "gtc" ELSE message.tif
      BY <1>5, <3>2, TermsAssumption
    <3>4. Supported => message.tif \in {"gtc", "ioc", "fok"}
                       /\ FromTimeInForce(message.tif) = asked.tif
      BY <3>1, ThereAndBack DEF Supported
    <3> QED BY <2>3, <3>2, <3>3, <3>4
  <2> QED BY <1>3, <2>1, <2>2, <2>3
<1>8. CASE hold = "hedge_mode"
  <2>1. asked.effect \in {"OPEN", "CLOSE"}  BY <1>1, <1>3, <1>4, <1>8
  <2>2. /\ message.posSide = ToPosSide(asked.effect, asked.side)
        /\ message.posSide \in {"long", "short"}
        /\ FromPosSide(message.posSide, message.side) = asked.effect
    BY <1>3, <1>4, <2>1, EffectThereAndBack
  <2>3. p = message.posSide  BY <1>8 DEF PosSides
  <2>4. /\ t \in {"open", "open_long", "open_short", "close", "close_long", "close_short"}
        /\ FromTradeSide(t) = asked.effect
    BY <1>5, <1>6, <1>8, <2>2, TradeSideTells
  <2>5. order' \in PlacedOrder
    BY <1>5, <1>6, <1>7, <2>2, <2>3, <2>4 DEF PlacedOrder
  <2>6. FromPosSide(order'.posSide, order'.side) = asked.effect  BY <1>5, <2>2, <2>3
  <2> QED BY <1>1, <1>5, <1>6, <1>7, <2>4, <2>5, <2>6 DEF Placed, Supported
<1>9. CASE hold = "one_way_mode"
  <2>1. t \in {"buy_single", "sell_single"} /\ p \in {"long", "short", "net"}
    BY <1>9 DEF TradeSides, PosSides
  <2>2. order' \in PlacedOrder  BY <1>5, <1>6, <1>7, <2>1 DEF PlacedOrder
  <2> QED BY <1>1, <1>6, <1>7, <1>9, <2>2 DEF Placed, Supported
<1> QED BY <1>1, <1>8, <1>9

\* A report of an order that was placed tells the terms asked for, by either of the
\* two ways to tell its effect.
LEMMA ReportTells ==
  ASSUME NEW o, Placed(o), o.status \in {"filled", "cancelled"} => Gone,
         NEW effect \in {FromTradeSide(o.tradeSide), FromPosSide(o.posSide, o.side)}
  PROVE  Told(Report(o, effect))
<1> DEFINE r == Report(o, effect)
<1>1. /\ o \in PlacedOrder
      /\ FromSide(o.side) = asked.side /\ FromOrderType(o.type) = asked.type
      /\ Supported /\ ~asked.passive => FromTimeInForce(o.tif) = asked.tif
      /\ hold = "hedge_mode" => effect = asked.effect
  BY DEF Placed
<1>2. /\ o.side \in {"buy", "sell"} /\ o.type \in {"market", "limit"}
      /\ o.tif \in {"gtc", "ioc", "fok", "post_only"}
      /\ o.tradeSide \in {"open", "open_long", "open_short", "close", "close_long",
                         "close_short", "buy_single", "sell_single"}
      /\ o.posSide \in {"long", "short", "net"}
      /\ \/ o.status \in {"live", "new", "partially_filled"}
         \/ o.status \in {"filled", "cancelled"}
  BY <1>1 DEF PlacedOrder
<1>3. /\ r = [side |-> FromSide(o.side), type |-> FromOrderType(o.type),
              tif |-> FromTimeInForce(o.tif), effect |-> effect,
              status |-> FromOrderStatus(o.status)]
      /\ r.side = FromSide(o.side) /\ r.type = FromOrderType(o.type)
      /\ r.tif = FromTimeInForce(o.tif) /\ r.effect = effect
      /\ r.status = FromOrderStatus(o.status)
  BY DEF Report
<1>4. effect \in {"UNDEFINED", "OPEN", "CLOSE"}  BY <1>2, TableTypes
<1>5. /\ FromOrderStatus(o.status) \in {"WORKING", "COMPLETED", "CANCELED"}
      /\ FromOrderStatus(o.status) \in {"COMPLETED", "CANCELED"} => Gone
  <2>1. CASE o.status \in {"live", "new", "partially_filled"}
    <3>1. FromOrderStatus(o.status) = "WORKING"  BY <2>1, TableTypes
    <3> QED BY <3>1
  <2>2. CASE o.status \in {"filled", "cancelled"}  BY <2>2, TableTypes
  <2> QED BY <1>2, <2>1, <2>2
<1>6. /\ FromSide(o.side) \in {"BUY", "SELL"} /\ FromOrderType(o.type) \in {"MARKET", "LIMIT"}
      /\ FromTimeInForce(o.tif) \in {"GTC", "IOC", "FOK"}
  BY <1>2, TableTypes
<1> HIDE DEF r
<1>7. r \in [side : {"BUY", "SELL"}, effect : {"UNDEFINED", "OPEN", "CLOSE"},
             type : {"MARKET", "LIMIT"}, tif : {"GTC", "IOC", "FOK"},
             status : {"WORKING", "COMPLETED", "CANCELED"}]
  BY <1>3, <1>4, <1>5, <1>6
<1>8. Told(r)  BY <1>1, <1>3, <1>5, <1>7 DEF Told
<1> QED BY <1>8 DEF r

\* A step of the gateway that reports what may be told, or REJECTED for an order that
\* is gone or was asked for too early, or nothing, keeps the invariant.
LEMMA ReportKeeps ==
  ASSUME TermsInv, UNCHANGED <<hold, asked, exchange, early>>,
         message' = message \/ message' = Terms(asked),
         DetailsTrue',
         \/ reports' = reports
         \/ \E r : Told(r) /\ reports' = reports \cup {r}
         \/ (Gone \/ early) /\ reports' = reports \cup {Rejected}
  PROVE  TermsInv'
<1>1. /\ TypeOK /\ TermsKept /\ EffectKept /\ EffectMeant /\ DoneIsDone
      /\ order = Nothing \/ ~refused
      /\ hold' = hold /\ asked' = asked /\ order' = order /\ refused' = refused
      /\ position' = position /\ fills' = fills /\ early' = early
  BY DEF TermsInv, exchange
<1>2. (Supported' <=> Supported) /\ (Working' <=> Working) /\ (Gone' <=> Gone)
  BY <1>1 DEF Supported, Working, Gone
<1>3. \A r \in reports' \ reports : Told(r) \/ (r = Rejected /\ (Gone \/ early))
  OBVIOUS
<1>4. TypeOK'
  <2>1. \A r \in reports' : r \in reports \/ Told(r) \/ r = Rejected  BY <1>3
  <2> QED BY <1>1, <2>1 DEF TypeOK, Told, Rejected
<1>5. \A r \in Termed' : r \in Termed \/ Told(r)  BY <1>3 DEF Termed, Rejected
<1>6. TermsKept'  BY <1>1, <1>2, <1>5 DEF TermsKept, Told
<1>7. EffectKept'  BY <1>1, <1>5 DEF EffectKept, Told
<1>8. EffectMeant'  BY <1>1 DEF EffectMeant
<1>9. DoneIsDone'
  <2>1. ASSUME NEW r \in reports', r.status \in {"COMPLETED", "CANCELED"} PROVE Gone
    <3>1. r # Rejected  BY <2>1 DEF Rejected
    <3>2. r \in reports \/ Told(r)  BY <1>3, <3>1
    <3> QED BY <1>1, <2>1, <3>2 DEF DoneIsDone, Told
  <2>2. ~Told(Rejected)
    <3>1. Rejected.status = "REJECTED"  BY DEF Rejected
    <3>2. Told(Rejected) => Rejected.status \in {"WORKING", "COMPLETED", "CANCELED"}
      BY DEF Told
    <3> QED BY <3>1, <3>2
  <2>3. ASSUME Rejected \in reports' PROVE Gone \/ early
    BY <1>1, <1>3, <2>2, <2>3 DEF DoneIsDone
  <2>4. Rejected' = Rejected  BY DEF Rejected
  <2> QED BY <1>1, <1>2, <2>1, <2>3, <2>4 DEF DoneIsDone
<1>10. /\ message' = Nothing \/ message' = Terms(asked')
       /\ order' = Nothing \/ Placed(order)'
       /\ order' = Nothing \/ ~refused'
       /\ MaxFills - fills' <= position' /\ position' <= MaxFills + fills'
  BY <1>1 DEF TermsInv, Placed, Supported, Terms
<1> QED BY <1>4, <1>6, <1>7, <1>8, <1>9, <1>10 DEF TermsInv

\* An order with a final status is gone.
LEMMA OrderIsTrue ==
  ASSUME order # Nothing
  PROVE  order.status \in {"filled", "cancelled"} => Gone
BY DEF Gone, Working

\* What is in flight stays true while the exchange does not move.
LEMMA DetailsStay ==
  ASSUME DetailsTrue, UNCHANGED <<hold, asked, exchange, details, early>>
  PROVE  DetailsTrue'
<1>1. /\ hold' = hold /\ asked' = asked /\ order' = order /\ refused' = refused
      /\ details' = details /\ early' = early
  BY DEF exchange
<1>2. Gone' <=> Gone  BY <1>1 DEF Gone, Working
<1>3. Placed(details.item)' <=> Placed(details.item)  BY <1>1 DEF Placed, Supported
<1> QED BY <1>1, <1>2, <1>3 DEF DetailsTrue

\* The exchange answers with the order as it is, or 25204 for one it does not have.
LEMMA OrderDetailsKeeps ==
  ASSUME TermsInv, OrderDetails
  PROVE  TermsInv'
<1>1. /\ TypeOK /\ TermsKept /\ EffectKept /\ EffectMeant /\ DoneIsDone
      /\ order = Nothing \/ Placed(order)
      /\ hold' = hold /\ asked' = asked /\ message' = message /\ order' = order
      /\ refused' = refused /\ position' = position /\ fills' = fills /\ reports' = reports
      /\ early \in BOOLEAN /\ refused \in BOOLEAN
  BY DEF TermsInv, OrderDetails, exchange, TypeOK
<1>2. PICK c, o :
        /\ c \in {"0", "25204", "other"}
        /\ details' = [code |-> c, item |-> o]
        /\ c = "0" => order # Nothing /\ o = order
        /\ c = "25204" => ~Working /\ early' = (early \/ (order = Nothing /\ ~refused))
        /\ c # "25204" => early' = early
  BY DEF OrderDetails
<1>3. (Gone' <=> Gone) /\ (Supported' <=> Supported)
  BY <1>1 DEF Gone, Working, Supported
<1>4. details'.code = c /\ details'.item = o  BY <1>2
<1>5. early' \in BOOLEAN /\ (early => early')
  <2>1. CASE c = "25204"
    <3>1. early' = (early \/ (order = Nothing /\ ~refused))  BY <1>2, <2>1
    <3> QED BY <3>1, Zenon
  <2>2. CASE c # "25204"
    <3>1. early' = early  BY <1>2, <2>2
    <3> QED BY <1>1, <3>1, Zenon
  <2> QED BY <2>1, <2>2
<1>6. c = "25204" => Gone \/ early'  BY <1>1, <1>2 DEF Gone
<1>7. c = "0" => /\ order # Nothing /\ Placed(order)' /\ o = order
                 /\ order.status \in {"filled", "cancelled"} => Gone
  BY <1>1, <1>2, OrderIsTrue DEF Placed, Supported
<1>8. c = "0" => Placed(details.item)'  BY <1>1, <1>4, <1>7 DEF Placed
<1>9. DetailsTrue'  BY <1>1, <1>2, <1>3, <1>4, <1>6, <1>7, <1>8 DEF DetailsTrue
<1>10. TypeOK'  BY <1>1, <1>5 DEF TypeOK, Rejected
<1>11. TermsKept' /\ EffectKept' /\ EffectMeant'
  BY <1>1, <1>3 DEF TermsKept, EffectKept, EffectMeant, Termed, Rejected
<1>12. DoneIsDone'  BY <1>1, <1>3, <1>5 DEF DoneIsDone, Rejected
<1>13. /\ message' = Nothing \/ message' = Terms(asked')
       /\ order' = Nothing \/ Placed(order)'
       /\ order' = Nothing \/ ~refused'
       /\ MaxFills - fills' <= position' /\ position' <= MaxFills + fills'
  BY <1>1 DEF TermsInv, Placed, Supported, Terms
<1> QED BY <1>9, <1>10, <1>11, <1>12, <1>13 DEF TermsInv

\* In hedge mode an order fills on the side of its effect.
LEMMA EffectDirection ==
  ASSUME TermsInv, order # Nothing, hold = "hedge_mode"
  PROVE  /\ asked.effect = "OPEN"  => (order.side = "buy" <=> order.posSide = "long")
         /\ asked.effect = "CLOSE" => ~(order.side = "buy" <=> order.posSide = "long")
<1>1. Placed(order)  BY DEF TermsInv
<1>2. order.side \in {"buy", "sell"} /\ order.posSide \in {"long", "short", "net"}
  BY <1>1 DEF Placed, PlacedOrder
<1>3. FromPosSide(order.posSide, order.side) = asked.effect  BY <1>1 DEF Placed
<1> QED BY <1>2, <1>3 DEF FromPosSide

\* A fill or a cancellation: only the status of the order changes, and with a fill
\* the position.
LEMMA WorkingMoves ==
  ASSUME TermsInv, Execute \/ Cancel
  PROVE  TermsInv'
<1>1. /\ TypeOK /\ TermsKept /\ EffectKept /\ EffectMeant /\ DoneIsDone
      /\ Working /\ order # Nothing /\ Placed(order)
      /\ MaxFills - fills <= position /\ position <= MaxFills + fills
      /\ ~refused /\ ~Gone /\ DetailsTrue
      /\ UNCHANGED <<hold, asked, message, refused, details, early, reports>>
  BY DEF TermsInv, Execute, Cancel, Working, Gone
<1>2. PICK s \in {"partially_filled", "filled", "cancelled"} :
        order' = [order EXCEPT !.status = s]
  BY DEF Execute, Cancel
<1>3. order \in PlacedOrder  BY <1>1 DEF Placed
<1>4. /\ order' \in PlacedOrder /\ order'.side = order.side /\ order'.type = order.type
      /\ order'.tif = order.tif /\ order'.tradeSide = order.tradeSide
      /\ order'.posSide = order.posSide
  BY <1>2, <1>3 DEF PlacedOrder
<1>5. Placed(order)'  BY <1>1, <1>4 DEF Placed, Supported
<1>6. /\ MaxFills \in Nat /\ position \in Nat /\ fills \in Nat
      /\ position \in 0 .. 2 * MaxFills /\ fills \in 0 .. MaxFills
  BY <1>1, TermsAssumption DEF TypeOK
<1>7. /\ position' \in 0 .. 2 * MaxFills /\ fills' \in 0 .. MaxFills
      /\ MaxFills - fills' <= position' /\ position' <= MaxFills + fills'
      /\ EffectMeant'
  <2>1. CASE Cancel
    <3>1. position' = position /\ fills' = fills  BY <2>1 DEF Cancel
    <3> QED BY <1>1, <1>6, <3>1 DEF EffectMeant
  <2>2. CASE Execute
    <3>1. /\ fills < MaxFills /\ fills' = fills + 1
          /\ \/ hold = "hedge_mode" /\ (order.side = "buy" <=> order.posSide = "long")
                /\ position' = position + 1
             \/ hold = "hedge_mode" /\ ~(order.side = "buy" <=> order.posSide = "long")
                /\ position > 0 /\ position' = position - 1
             \/ hold # "hedge_mode" /\ position' = position
      BY <2>2 DEF Execute
    <3>2. /\ position' \in 0 .. 2 * MaxFills /\ fills' \in 0 .. MaxFills
          /\ MaxFills - fills' <= position' /\ position' <= MaxFills + fills'
      BY <1>1, <1>6, <3>1
    <3>3. ASSUME hold = "hedge_mode", asked.effect = "OPEN"
          PROVE  position' = MaxFills + fills'
      <4>1. position = MaxFills + fills  BY <1>1, <3>3 DEF EffectMeant
      <4>2. position' = position + 1  BY <1>1, <3>1, <3>3, EffectDirection
      <4> QED BY <1>6, <3>1, <4>1, <4>2
    <3>4. ASSUME hold = "hedge_mode", asked.effect = "CLOSE"
          PROVE  position' = MaxFills - fills'
      <4>1. position = MaxFills - fills  BY <1>1, <3>4 DEF EffectMeant
      <4>2. position' = position - 1  BY <1>1, <3>1, <3>4, EffectDirection
      <4> QED BY <1>6, <3>1, <4>1, <4>2
    <3>5. EffectMeant'  BY <1>1, <3>3, <3>4 DEF EffectMeant
    <3> QED BY <3>2, <3>5
  <2> QED BY <2>1, <2>2
<1>8. TypeOK'  BY <1>1, <1>7 DEF TypeOK
<1>9. TermsKept'
  <2>1. Supported' <=> Supported  BY <1>1 DEF Supported
  <2>2. Termed' = Termed  BY <1>1 DEF Termed, Rejected
  <2> QED BY <1>1, <1>4, <2>1, <2>2 DEF TermsKept
<1>10. EffectKept'  BY <1>1 DEF EffectKept, Termed, Rejected
<1>11. DetailsTrue'
  <2>1. ASSUME details # Nothing, details.code = "0"
        PROVE  Placed(details.item)' /\ details.item.status \notin {"filled", "cancelled"}
    BY <1>1, <2>1 DEF DetailsTrue, Placed, Supported
  <2> QED BY <1>1, <2>1 DEF DetailsTrue
<1>12. message' = Nothing \/ message' = Terms(asked')  BY <1>1 DEF TermsInv, Terms
<1>13. DoneIsDone'  BY <1>1 DEF DoneIsDone, Rejected
<1> QED BY <1>1, <1>5, <1>7, <1>8, <1>9, <1>10, <1>11, <1>12, <1>13 DEF TermsInv

LEMMA TermsInit == Init => TermsInv
<1> SUFFICES ASSUME Init PROVE TermsInv
  OBVIOUS
<1>1. /\ order = Nothing /\ message = Nothing /\ reports = {}
      /\ refused = FALSE /\ details = Nothing /\ early = FALSE
      /\ position = MaxFills /\ fills = 0 /\ hold \in HoldModes /\ asked \in CreateOrder
      /\ MaxFills \in Nat
  BY TermsAssumption DEF Init
<1>2. Termed = {} /\ Rejected \notin reports  BY <1>1 DEF Termed
<1>3. TypeOK
  <2>1. position \in 0 .. 2 * MaxFills /\ fills \in 0 .. MaxFills  BY <1>1
  <2>2. refused \in BOOLEAN /\ early \in BOOLEAN  BY <1>1
  <2> QED BY <1>1, <2>1, <2>2 DEF TypeOK
<1> QED BY <1>1, <1>2, <1>3 DEF TermsInv, TermsKept, EffectKept, EffectMeant, DoneIsDone,
                                DetailsTrue

\* The exchange takes the order, or it does not.
LEMMA AcceptKeeps ==
  ASSUME TermsInv, Accept \/ Refuse
  PROVE  TermsInv'
<1>1. /\ TypeOK /\ TermsKept /\ EffectKept /\ EffectMeant /\ DoneIsDone /\ DetailsTrue
      /\ order = Nothing /\ ~refused /\ ~Gone
      /\ MaxFills - fills <= position /\ position <= MaxFills + fills
      /\ hold' = hold /\ asked' = asked /\ message' = message /\ position' = position
      /\ fills' = fills /\ details' = details /\ early' = early /\ reports' = reports
  BY DEF TermsInv, Accept, Refuse, Gone
<1>2. /\ Accept => Placed(order)' /\ refused' = refused
      /\ Refuse => order' = Nothing /\ refused' = TRUE
  BY <1>1, AcceptPlaces DEF Accept, Refuse
<1>3. TypeOK'  BY <1>1, <1>2 DEF TypeOK, Rejected
<1>4. EffectKept' /\ EffectMeant'  BY <1>1 DEF EffectKept, EffectMeant, Termed, Rejected
<1>5. TermsKept'
  <2>1. (Supported' <=> Supported) /\ Termed' = Termed  BY <1>1 DEF Supported, Termed, Rejected
  <2>2. asked'.passive /\ asked'.type = "LIMIT" /\ order' # Nothing => order'.tif = "post_only"
    BY <1>2 DEF Placed
  <2> QED BY <1>1, <2>1, <2>2 DEF TermsKept
<1>6. DoneIsDone'  BY <1>1 DEF DoneIsDone, Rejected
<1>7. DetailsTrue'
  <2>1. details.code = "0" /\ details # Nothing =>
          Placed(details.item)' /\ details.item.status \notin {"filled", "cancelled"}
    BY <1>1 DEF DetailsTrue, Placed, Supported
  <2> QED BY <1>1, <2>1 DEF DetailsTrue
<1>8. message' = Nothing \/ message' = Terms(asked')  BY <1>1 DEF TermsInv, Terms
<1> QED BY <1>1, <1>2, <1>3, <1>4, <1>5, <1>6, <1>7, <1>8 DEF TermsInv

LEMMA TermsNext == TermsInv /\ [Next]_vars => TermsInv'
<1> SUFFICES ASSUME TermsInv, [Next]_vars PROVE TermsInv'
  OBVIOUS
<1>1. CASE PlaceOrder
  <2>1. /\ message' = Terms(asked)
        /\ UNCHANGED <<hold, asked, exchange, details, early, reports>>
    BY <1>1 DEF PlaceOrder
  <2>2. DetailsTrue'  BY <2>1, DetailsStay DEF TermsInv
  <2> QED BY <2>1, <2>2, ReportKeeps
<1>2. CASE OrderUpdate
  <2> DEFINE r == Report(order, FromTradeSide(order.tradeSide))
  <2>1. /\ order # Nothing /\ Placed(order) /\ reports' = reports \cup {r}
        /\ UNCHANGED <<hold, asked, message, exchange, details, early>>
    BY <1>2 DEF OrderUpdate, TermsInv
  <2>2. Told(r)  BY <2>1, OrderIsTrue, ReportTells
  <2>3. DetailsTrue'  BY <2>1, DetailsStay DEF TermsInv
  <2> HIDE DEF r
  <2> QED BY <2>1, <2>2, <2>3, ReportKeeps
<1>3. CASE UnfilledOrdersAck
  <2> DEFINE r == Report(order, FromPosSide(order.posSide, order.side))
  <2>1. /\ order # Nothing /\ Placed(order) /\ reports' = reports \cup {r}
        /\ UNCHANGED <<hold, asked, message, exchange, details, early>>
    BY <1>3 DEF UnfilledOrdersAck, TermsInv, Working
  <2>2. Told(r)  BY <2>1, OrderIsTrue, ReportTells
  <2>3. DetailsTrue'  BY <2>1, DetailsStay DEF TermsInv
  <2> HIDE DEF r
  <2> QED BY <2>1, <2>2, <2>3, ReportKeeps
<1>4. CASE GetOrderDetails
  <2>1. /\ details' = [code |-> "none", item |-> Nothing]
        /\ UNCHANGED <<hold, asked, message, exchange, early, reports>>
    BY <1>4 DEF GetOrderDetails
  <2>2. DetailsTrue'  BY <2>1 DEF DetailsTrue
  <2> QED BY <2>1, <2>2, ReportKeeps
<1>5. CASE OrderDetailsAck
  <2> DEFINE r == Report(details.item, FromPosSide(details.item.posSide, details.item.side))
  <2>1. /\ details # Nothing /\ details.code # "none" /\ details' = Nothing
        /\ reports' = reports \cup CASE details.code = "0"     -> {r}
                                      [] details.code = "25204" -> {Rejected}
                                      [] details.code = "other" -> {}
        /\ DetailsTrue /\ UNCHANGED <<hold, asked, message, exchange, early>>
    BY <1>5 DEF OrderDetailsAck, TermsInv
  <2>2. details.code = "0" => Told(r)  BY <2>1, ReportTells DEF DetailsTrue
  <2>3. details.code = "25204" => Gone \/ early  BY <2>1 DEF DetailsTrue
  <2>4. DetailsTrue'  BY <2>1 DEF DetailsTrue
  <2>5. details.code \in {"0", "25204", "other"}  BY <2>1 DEF DetailsTrue
  <2> HIDE DEF r
  <2>6. CASE details.code = "0"
    <3>1. reports' = reports \cup {r}  BY <2>1, <2>6
    <3> QED BY <2>1, <2>2, <2>4, <2>6, <3>1, ReportKeeps
  <2>7. CASE details.code = "25204"
    <3>1. reports' = reports \cup {Rejected}  BY <2>1, <2>7
    <3> QED BY <2>1, <2>3, <2>4, <2>7, <3>1, ReportKeeps
  <2>8. CASE details.code = "other"
    <3>1. reports' = reports  BY <2>1, <2>8
    <3> QED BY <2>1, <2>4, <3>1, ReportKeeps
  <2> QED BY <2>5, <2>6, <2>7, <2>8
<1>6. CASE Accept \/ Refuse  BY <1>6, AcceptKeeps
<1>7. CASE Execute \/ Cancel  BY <1>7, WorkingMoves
<1>8. CASE OrderDetails  BY <1>8, OrderDetailsKeeps
<1>9. CASE UNCHANGED vars
  <2>1. UNCHANGED <<hold, asked, message, exchange, details, early, reports>>
    BY <1>9 DEF vars
  <2>2. DetailsTrue'  BY <2>1, DetailsStay DEF TermsInv
  <2> QED BY <2>1, <2>2, ReportKeeps
<1> QED BY <1>1, <1>2, <1>3, <1>4, <1>5, <1>6, <1>7, <1>8, <1>9 DEF Next

-----------------------------------------------------------------------------
(* The theorems *)

LEMMA TermsAlways == Spec => []TermsInv
BY TermsInit, TermsNext, PTL DEF Spec

\* The reports have the values of the OMS, or are the blank one of code 25204, and the
\* position stays within the fills.
THEOREM TypeCorrect == Spec => []TypeOK
<1>1. TermsInv => TypeOK  BY DEF TermsInv
<1> QED BY TermsAlways, <1>1, PTL

\* map.cpp: side, type and time in force come back as they were sent, whatever the
\* mode of the account, and who must not take liquidity is post-only.
THEOREM TermsCorrect == Spec => []TermsKept
<1>1. TermsInv => TermsKept  BY DEF TermsInv
<1> QED BY TermsAlways, <1>1, PTL

\* map.cpp: in hedge mode trade_side, and pos_side with side, both tell the effect
\* that place_order asked for.
THEOREM EffectCorrect == Spec => []EffectKept
<1>1. TermsInv => EffectKept  BY DEF TermsInv
<1> QED BY TermsAlways, <1>1, PTL

\* map.cpp: pos_side is chosen so that opening grows a position by every fill, and
\* closing shrinks it, for any number of fills.
THEOREM MeantCorrect == Spec => []EffectMeant
<1>1. TermsInv => EffectMeant  BY DEF TermsInv
<1> QED BY TermsAlways, <1>1, PTL

\* order_entry.cpp:627-632, map.cpp:211-233: no order that can still be filled is
\* reported completed or canceled, nor rejected unless the exchange was asked for its
\* details while its creation was still on its way.
THEOREM DoneCorrect == Spec => []DoneIsDone
<1>1. TermsInv => DoneIsDone  BY DEF TermsInv
<1> QED BY TermsAlways, <1>1, PTL
=============================================================================
