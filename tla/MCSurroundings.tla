--------------------------- MODULE MCSurroundings ---------------------------
(***************************************************************************)
(* The components around the order path, checked one at a time: the risk   *)
(* gate, the depth of StandX, the alpha of Binance, the change of          *)
(* precision and the life of the processes share no variable, so a         *)
(* behaviour of this module is a behaviour of one of them.                 *)
(***************************************************************************)
EXTENDS RiskGate, DepthFeed, BinanceFeed, Quoting, Startup

(* Half a spread of two units and one at least, a skew of 1.5, a second     *)
(* level at 1.5 times the distance and a leverage of 2.5.                   *)
TheStrategy ==
  [tick_size |-> 1, lot_size |-> 1, step_ns |-> 1, window_steps |-> 1,
   update_interval_steps |-> 1, looking_depth |-> 1, order_levels |-> 1,
   spread_level_multiplier |-> 3, vol_to_half_spread |-> 0, half_spread |-> 0,
   half_spread_bps |-> 2, min_half_spread_bps |-> 1, skew |-> 3, c1 |-> 0, c1_ticks |-> 1,
   min_order_qty_dollar |-> 1, max_order_qty_dollar |-> NotSet,
   alpha_source |-> "binance", leverage |-> 5]

FirstListing == [tick |-> 1, lot |-> 1, least |-> 1]
TwoPrecisions == {FirstListing, [tick |-> 10, lot |-> 10, least |-> 10]}
OneBook == {[bid |-> 28, ask |-> 29, volatility |-> 0, alpha |-> 2, position |-> -3, qty |-> 15]}

LiveConfig ==
  [symbols |-> <<"BTC-USD">>, orderbook_levels |-> 20, history_minutes |-> 10,
   strategy |-> TheStrategy, depth_stale |-> 1, symbol_info |-> TRUE,
   position |-> [enabled |-> TRUE, interval |-> 1, stale |-> 2],
   pnl |-> [enabled |-> TRUE, interval |-> 1, stale |-> 2],
   order |-> [enabled |-> TRUE, absolute_max |-> NotSet, rejections |-> 3,
              breaker_recovery |-> 1, safety_recovery |-> 1]]

(* Live bots, with a leverage of 2.5 and of 2, observers, and live bots     *)
(* that must be refused.                                                    *)
OfferedConfigs ==
  {LiveConfig,
   [LiveConfig EXCEPT !.strategy.leverage = 4],
   [LiveConfig EXCEPT !.order.enabled = FALSE],
   [LiveConfig EXCEPT !.order.enabled = FALSE, !.position.enabled = FALSE, !.pnl.enabled = FALSE],
   [LiveConfig EXCEPT !.pnl.enabled = FALSE],
   [LiveConfig EXCEPT !.position.stale = 1],
   [LiveConfig EXCEPT !.symbols = <<"BTC-USD", "ETH-USD">>],
   [LiveConfig EXCEPT !.strategy.leverage = 1],
   [LiveConfig EXCEPT !.order.safety_recovery = 0],
   [LiveConfig EXCEPT !.symbol_info = FALSE]}

----------------------------------------------------------------------------
VARIABLE part \* the component of this behaviour

partVars == <<part, vars, depthVars, binanceVars, priceVars, lifeVars>>

(* Each part starts in all its states, the others in one; the precision is  *)
(* the finer one at first.                                                  *)
PartInit ==
  /\ part \in {"risk", "depth", "binance", "quoting", "life"}
  /\ Init /\ DepthInit /\ BinanceInit /\ QuotingInit /\ LifeInit
  /\ part # "depth" => sequenced
  /\ part # "binance" => futures
  /\ listed = FirstListing

Risk(A) == part = "risk" /\ A /\ UNCHANGED <<part, depthVars, binanceVars, priceVars, lifeVars>>
Depths(A) == part = "depth" /\ A /\ UNCHANGED <<part, vars, binanceVars, priceVars, lifeVars>>
Binance(A) == part = "binance" /\ A /\ UNCHANGED <<part, vars, depthVars, priceVars, lifeVars>>
Precision(A) == part = "quoting" /\ A /\ UNCHANGED <<part, vars, depthVars, binanceVars, lifeVars>>
Life(A) == part = "life" /\ A /\ UNCHANGED <<part, vars, depthVars, binanceVars, priceVars>>

PartNext ==
  \/ Risk(Next) \/ Depths(DepthNext) \/ Binance(BinanceNext)
  \/ Precision(QuotingNext) \/ Life(LifeNext)

(* The fairness of DepthFairSpec, BinanceFairSpec and QuotingFairSpec.  The *)
(* part never changes, so fairness of a disjunction over the parts is that  *)
(* of each disjunct in the behaviours of its part.                          *)
PartSpec ==
  /\ PartInit /\ [][PartNext]_partVars
  /\ WF_partVars(Depths(Clock) \/ Binance(Market) \/ Precision(InfoPoller))
  /\ WF_partVars(Depths(Tick) \/ Binance(Send) \/ Precision(Switch))
  /\ WF_partVars(Depths(EventLoop) \/ Binance(Client))
  /\ WF_partVars(Depths(Dialer) \/ Binance(Poller))

----------------------------------------------------------------------------
(* The types of the five.                                                   *)
PartTypeOK == TypeOK /\ DepthTypeOK /\ BinanceTypeOK /\ QuotingTypeOK /\ LifeTypeOK

(* BookCatchesUp (BinanceFeed) and PrecisionCatchesUp (Quoting), each in    *)
(* the behaviours of its part: once the exchange's book, or the precision   *)
(* it lists, stays as it is, the bot comes to have the same.                *)
ExchangeCaughtUp ==
  <>[](/\ part = "binance" => book.levels = BookAt(Len(history))
       /\ part = "quoting" => shared = listed /\ managed = listed)
=============================================================================
