-------------------------------- MODULE MCStreams --------------------------------
(***************************************************************************)
(* PublicData and Holdings for TLC: what clients are shown of the market   *)
(* and of their account.  The two share no variable, so that a behaviour   *)
(* in which one moves and the other rests shows all there is to see.       *)
(***************************************************************************)
EXTENDS Holdings, FiniteSets, TLC

CONSTANTS Symbols, Bids, Asks, MaxLots, MaxChanges, MaxTrades, MaxBatch, MaxDrops

ASSUME MarketAssumption ==
  /\ Bids \subseteq Nat \ {0} /\ Asks \subseteq Nat \ {0} /\ Bids \cap Asks = {}
  /\ IsFiniteSet(Bids) /\ IsFiniteSet(Asks) /\ MaxLots \in Nat
  /\ MaxChanges \in Nat /\ MaxTrades \in Nat /\ MaxBatch \in Nat /\ MaxDrops \in Nat

VARIABLES
  public,  \* whether the market moves, or the account
  status, incoming, bids, asks, trades, book, top, reported, past, printed,
  sequence, kept, missed, drops, changes, prints

Public == INSTANCE PublicData

\* What PublicData promises.
View == INSTANCE MarketView WITH
  Books <- Public!Books, Empty <- Public!Empty,
  truth <- past, count <- printed, view <- book, at <- sequence, spoiled <- kept,
  tape <- reported

market == <<status, incoming, bids, asks, trades, book, top, reported, past, printed,
            sequence, kept, missed, drops, changes, prints>>

\* (Where the market moves, the kind of holdings makes no difference.)
StreamsInit == public \in BOOLEAN /\ Init /\ Public!Init /\ (public => kind = "funds")

StreamsNext ==
  \/ public /\ Public!Next /\ UNCHANGED <<public, vars>>
  \/ ~public /\ Next /\ UNCHANGED <<public, market>>

StreamsSpec == StreamsInit /\ [][StreamsNext]_<<public, vars, market>>

StreamsSymmetry == Permutations(Symbols)

\* The types of both modules.
TypesOK == TypeOK /\ Public!TypeOK

\* The properties of PublicData, stated there.
TopAgrees  == Public!TopAgrees
TradesOnce == Public!TradesOnce

\* PublicData keeps the promise of MarketView: books go forward only, through those the
\* exchange had, and trades are told in their order.
ImplementsMarketView == View!Spec
=============================================================================
