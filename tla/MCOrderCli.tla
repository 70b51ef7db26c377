----------------------------- MODULE MCOrderCli -----------------------------
(***************************************************************************)
(* A small order day for TLC: one symbol at one price, a buy and a sell    *)
(* intent, and a market that passes the gate or trips it.                  *)
(***************************************************************************)
EXTENDS OrderCli

Limit(side, qty) ==
    [symbol |-> "005930", side |-> side, qty |-> qty, order_type |-> "limit", limit_price |-> 10000]

SellTwo == {Limit("sell", 2)}
BuyOneSellOne == {Limit("buy", 1), Limit("sell", 1)}
BuyTwo == {Limit("buy", 2)}

Calm ==
    [kill_switch |-> FALSE, orders_last_minute |-> 0, realized_pnl_krw |-> 0,
     orderable_cash_krw |-> 100000, est_commission_krw |-> 3,
     quote |-> [last |-> 10000, upper_limit |-> 13000, lower_limit |-> 7000, tick |-> 10,
                halted |-> FALSE]]
Halted == [Calm EXCEPT !.quote.halted = TRUE]

CalmOrHalted == {Calm, Halted}
CalmOnly == {Calm}

DayLimits ==
    [max_order_notional_krw |-> 50000, max_position_notional_krw |-> 100000,
     max_orders_per_minute |-> 5, max_daily_loss_krw |-> 10000, symbol_whitelist |-> {}]
=============================================================================
