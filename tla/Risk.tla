-------------------------------- MODULE Risk --------------------------------
(***************************************************************************)
(* The pre-trade gate of src/execution/risk.py and the tick table of       *)
(* src/execution/ticks.py.  A missing limit price is NoPrice.              *)
(***************************************************************************)
EXTENDS Integers, Sequences

NoPrice == -1

TICK_TABLE == << <<500000, 1000>>, <<200000, 500>>, <<50000, 100>>, <<20000, 50>>,
                 <<5000, 10>>, <<2000, 5>>, <<0, 1>> >>

\* The first row whose floor the price reaches.
tick_of(price) ==
    LET i == CHOOSE k \in DOMAIN TICK_TABLE :
                /\ price >= TICK_TABLE[k][1]
                /\ \A j \in 1..(k - 1) : price < TICK_TABLE[j][1]
    IN  TICK_TABLE[i][2]

is_tick_aligned(price) == price >= 1 /\ price % tick_of(price) = 0

reference_price(intent, quote) ==
    IF intent.order_type = "limit" THEN intent.limit_price
    ELSE IF intent.side = "buy" THEN quote.upper_limit ELSE quote.last

\* reference_price() itself rejects a limit order that carries no price.
HasReferencePrice(intent) == ~(intent.order_type = "limit" /\ intent.limit_price = NoPrice)

(***************************************************************************)
(* The checks, in the order in which check_intent makes them: each is a    *)
(* code and the condition that raises it.                                  *)
(***************************************************************************)
Checks(intent, quote, limits, ctx) ==
    LET buy      == intent.side = "buy"
        limit    == intent.order_type = "limit"
        ref      == reference_price(intent, quote)
        notional == intent.qty * ref
    IN  << <<"kill_switch", ctx.kill_switch>>,
           <<"account_mismatch", ctx.blocked>>,
           <<"unknown_pending", ctx.unknown_pending>>,
           <<"symbol_not_allowed",
               limits.symbol_whitelist # {} /\ intent.symbol \notin limits.symbol_whitelist>>,
           <<"qty_invalid", intent.qty < 1>>,
           <<"price_invalid", limit <=> intent.limit_price = NoPrice>>,
           <<"trading_halted", quote.halted>>,
           <<"tick_table_mismatch", quote.last >= 1 /\ tick_of(quote.last) # quote.tick>>,
           <<"price_off_tick", limit /\ ~is_tick_aligned(intent.limit_price)>>,
           <<"price_out_of_band",
               limit /\ intent.limit_price \notin quote.lower_limit..quote.upper_limit>>,
           <<"order_rate_limit", ctx.orders_last_minute >= limits.max_orders_per_minute>>,
           <<"daily_loss_limit", buy /\ ctx.realized_pnl_krw <= -limits.max_daily_loss_krw>>,
           <<"notional_limit", notional > limits.max_order_notional_krw>>,
           <<"position_limit",
               buy /\ (ctx.position_qty + ctx.open_buy_qty + intent.qty) * ref
                         > limits.max_position_notional_krw>>,
           <<"insufficient_cash",
               buy /\ notional + ctx.est_commission_krw > ctx.orderable_cash_krw>>,
           <<"insufficient_position",
               ~buy /\ intent.qty > ctx.position_qty - ctx.open_sell_qty>> >>

\* The code the gate raises, or "ok".
check_intent(intent, quote, limits, ctx) ==
    LET checks == Checks(intent, quote, limits, ctx)
        raised == {k \in DOMAIN checks : checks[k][2]}
    IN  IF ~HasReferencePrice(intent) THEN "price_invalid"
        ELSE IF raised = {} THEN "ok"
        ELSE checks[CHOOSE k \in raised : \A j \in raised : k <= j][1]
=============================================================================
