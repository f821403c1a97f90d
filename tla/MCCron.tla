------------------------------- MODULE MCCron -------------------------------
(* An expression that allows only February, asked on days of January.        *)
EXTENDS Cron

MCExpressions ==
  {[sec |-> <<One(0)>>, min |-> <<One(0)>>, hour |-> <<One(h)>>, mday |-> <<m>>, mon |-> <<One(2)>>,
    wday |-> <<Star>>] : h \in 0..11, m \in {Star, One(28), From(1, 31)}}

MCStarts == {Time(2023, 1, mday, 12, 0, 0) : mday \in 27..30}
=============================================================================
