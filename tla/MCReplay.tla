------------------------------ MODULE MCReplay ------------------------------
(***************************************************************************)
(* A backtest of four names, three of them of the AI sector, over sessions *)
(* that turn the market around: a rally, a slide, a crash in a VIX crisis, *)
(* a second and slower day of it, and an EDR alarm in a thin market.       *)
(***************************************************************************)
EXTENDS ReplayBook, TLC

CONSTANTS nvda, avgo, mu, tsla

MCEquities == <<tsla, nvda, mu, avgo>>
MCByBeta == <<mu, tsla, nvda, avgo>>
MCAiSector == {nvda, avgo, mu}

Scored(a, b, c, d) == nvda :> a @@ avgo :> b @@ mu :> c @@ tsla :> d
MCConvictions == {Scored(9, 8, 7, 8), Scored(10, 8, 7, 8)}

MCDecayDays == <<1, 2>>

Quiet ==
    [stocks |-> Scored(0, 0, 0, 0), sleeve |-> [SGOL |-> 0, DBMF |-> 0], fund |-> 0, coin |-> 0,
     regime |-> "RISK_ON", tier |-> "NORMAL", edr |-> FALSE, behind |-> {}, leads |-> {},
     depth |-> 100000, calm |-> TRUE, scoreFell |-> TRUE, premium |-> 2, mark |-> 1,
     calls |-> 2]

MCSessions ==
    {Quiet,
     [Quiet EXCEPT !.stocks = Scored(12, 4, 20, 8), !.coin = 25, !.leads = {mu},
                   !.sleeve = [SGOL |-> 25, DBMF |-> 5], !.fund = -3],
     [Quiet EXCEPT !.stocks = Scored(-14, -10, -22, -16), !.coin = -20, !.regime = "NEUTRAL",
                   !.tier = "STRESS", !.behind = {mu}, !.calm = FALSE, !.mark = 8,
                   !.premium = 6],
     [Quiet EXCEPT !.stocks = Scored(-12, -10, -15, -8), !.coin = -25, !.regime = "CRASH",
                   !.tier = "CRISIS", !.fund = 6, !.scoreFell = FALSE, !.calm = FALSE, !.mark = 12,
                   !.premium = 9, !.behind = {nvda, mu}],
     [Quiet EXCEPT !.stocks = Scored(1, 2, 1, 3), !.regime = "CRASH", !.tier = "STRESS",
                   !.scoreFell = FALSE, !.calm = FALSE, !.mark = 6, !.premium = 7],
     [Quiet EXCEPT !.stocks = Scored(2, -2, -4, 0), !.regime = "WATCH", !.edr = TRUE,
                   !.depth = 150, !.sleeve = [SGOL |-> 3, DBMF |-> 20], !.coin = -5,
                   !.behind = {avgo}]}
=============================================================================
