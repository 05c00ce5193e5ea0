------------------------------ MODULE MCRegime ------------------------------
(***************************************************************************)
(* Two mornings of three attempts over four markets: a calm one, one that  *)
(* is a hair under a boundary with SKEW at its record, a funding crisis,   *)
(* and a crash of the size of 2020. The news is a bridge file that keeps   *)
(* what is in it, RSS items with and without a date, and a filing.         *)
(***************************************************************************)
EXTENDS RegimeSweep

Calm ==
    [fred |-> [FED_FUNDS_RATE |-> 450] @@ "10Y_TREASURY_YIELD" :> 420 @@
              [VIX_INDEX |-> 1500, HY_CREDIT_SPREAD |-> 320, T10Y2Y |-> 30, EQUITY_PCR |-> 65],
     pmi |-> 5300, quarters |-> <<105, 104, 103, 102>>,
     future |-> 10100, spot |-> 10000, coinbase |-> 10000, volumes |-> <<90, 80>>,
     skew |-> 12000, endpoints |-> {"funding", "interest", "liquidation", "longshort", "price"},
     funding |-> 900, interest |-> 80, liquidated |-> 10, long |-> 5200, change |-> 100,
     es |-> 20, vixFuture |-> 160, calendar |-> {},
     flow |-> 50, naaim |-> 80, aaii |-> 15, news |-> <<>>]

\* 49.8% without, and 56.8% with SKEW, funding rate and margin debt.
Stretched ==
    [Calm EXCEPT !.fred = [@ EXCEPT !["VIX_INDEX"] = 4000, !["HY_CREDIT_SPREAD"] = 648,
                                    !["EQUITY_PCR"] = 95],
                 !.pmi = 4950, !.quarters = <<130, 131, 120, 100>>, !.skew = 18312,
                 !.funding = 2600, !.spot = 0, !.future = 9700,
                 !.calendar = {[severity |-> "HIGH", days |-> 4], [severity |-> "LOW", days |-> 3]}]

Crisis ==
    [Calm EXCEPT !.fred = [@ EXCEPT !["VIX_INDEX"] = 8200, !["HY_CREDIT_SPREAD"] = 1087,
                                    !["EQUITY_PCR"] = 135],
                 !.pmi = 4150, !.funding = -300, !.endpoints = {"funding", "liquidation"},
                 !.liquidated = 300, !.future = 0, !.volumes = <<200>>, !.skew = 0,
                 !.es = -400, !.vixFuture = 600, !.flow = -350, !.naaim = 10, !.aaii = -40]

MCOutages == {{}, {"GATEWAY", "COINGLASS", "MARGIN"}, {"PMI"}, {"BROKER"}}

Item(id, says, type, entities, source, form, at) ==
    [id |-> id, says |-> says, type |-> type, entities |-> entities, source |-> source,
     form |-> form, at |-> at]

Invasion == Item("invasion", {8, 9}, "UNKNOWN", {}, "bridge", "zoned", 20)
Default == Item("default", {14}, "CREDIT_EVENT", {"Oracle"}, "bridge", "naive", 20)
Ruling == Item("ruling", {}, "LEGAL_RULING", {"Google"}, "rss", "undated", 0)
Deal == Item("deal", {6, 7}, "MA_ANNOUNCEMENT", {"TSMC"}, "rss", "opaque", 0)
Embargo == Item("embargo", {1, 2}, "REGULATORY_FILING", {"TSMC"}, "bridge", "zoned", -60)

MCWorlds ==
    {[Calm EXCEPT !.news = <<Deal, Invasion, Default>>],
     Stretched, [Stretched EXCEPT !.news = <<Ruling, Invasion>>],
     [Crisis EXCEPT !.news = <<Deal, Embargo, Invasion>>]}

MCDependencies == [NVDA |-> [names |-> {"Alphabet", "Oracle"}, sensitivity |-> "CRITICAL"],
                   AMD |-> [names |-> {"TSMC"}, sensitivity |-> "HIGH"],
                   ETN |-> [names |-> {"Google"}, sensitivity |-> "MEDIUM"]]
MCAliases == {<<"Google", "Alphabet">>, <<"Alphabet", "Google">>}
=============================================================================
