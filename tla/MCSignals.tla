----------------------------- MODULE MCSignals ------------------------------
(***************************************************************************)
(* Three Mondays, the first and the last of which begin a month of         *)
(* earnings, with two attempts each, over two entities per tracker that    *)
(* bear on MU. The sources rise, stand still or fall, by more than every   *)
(* threshold or by less.                                                   *)
(***************************************************************************)
EXTENDS SignalHistories

MCEntities == [JPVI |-> <<"Microsoft", "Meta">>, SCCR |-> <<"TSMC", "Microsoft">>,
               PFVT |-> <<"Google", "Samsung">>, ELVT |-> <<"Microsoft", "Meta">>]

MCWorlds == {[jobs |-> 100, patents |-> 40, shipments |-> 500, tone |-> 10],
             [jobs |-> 130, patents |-> 60, shipments |-> 510, tone |-> 55],
             [jobs |-> 70, patents |-> 30, shipments |-> 700, tone |-> -20]}

MCTheses == {NoThesis, [gate3 |-> 20, source |-> "Cat A", fem |-> "NORMAL->NORMAL",
                        regime |-> "NEUTRAL"]}

Fault(t, kind, at) == [tracker |-> t, kind |-> kind, at |-> at]

MCFaults == {Fault("JPVI", "down", 0), Fault("PFVT", "down", 0), Fault("ELVT", "down", 0),
             Fault("SCCR", "down", 0), Fault("ELVT", "short", 0), Fault("ELVT", "garbled", 1),
             Fault("ELVT", "raises", 2), Fault("JPVI", "dies", 2), Fault("ELVT", "dies", 1),
             Fault("SCCR", "dies", 2), Fault("PFVT", "dies", 1)}
=============================================================================
