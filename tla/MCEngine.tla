------------------------------ MODULE MCEngine ------------------------------
\* A small instance of Engine: two subscriptions and a last-resort account, and
\* readings on both sides of every threshold.
EXTENDS Engine

CONSTANTS daemon, command

TwoAndOne   == 1..3
Kinds       == [a \in TwoAndOne |-> IF a = 3 THEN "credit" ELSE "subscription"]
TheDaemon   == {daemon}
TheCommand  == {command}
AtEighty    == [w \in Window |-> 80]

NoExtra == [state |-> "disabled", pct |-> None, used |-> None, limit |-> None]
Paying  == [state |-> "enabled", pct |-> 50, used |-> 4, limit |-> 20]
Of(session, weekly, model, in, burn) ==
    [util  |-> [session |-> session, weekly |-> weekly, model |-> model],
     reset |-> [session |-> in, weekly |-> 5000, model |-> 5000],
     extra |-> IF session = None THEN Paying ELSE NoExtra,
     blind |-> 5, burn |-> burn, limited |-> FALSE]

Roomy   == Of(20, 30, None, 200, None)
Burner  == Of(40, 30, None, 100, [rate |-> 12, window |-> "session"])
WeekLow == Of(60, 75, None, 290, None)      \* past hover's threshold only
Week    == Of(10, 100, None, 250, None)
Dying   == Of(99, 40, None, 30, None)       \* past its threshold, back within the hour
LastBit == Of(10, 99, 100, 250, None)       \* a model's cap is blown, the week nearly
Full    == Of(100, 40, 30, 30, None)
Spender == Of(None, None, None, None, None)

\* Each account on its side of what the two are compared by.
One == {Roomy, WeekLow, Full}
Two == {Burner, Dying, LastBit, Week}
SpreadReadings == [a \in TwoAndOne |-> IF a = 1 THEN One ELSE IF a = 2 THEN Two ELSE {Spender}]

\* EngineNoPingPong is proved under this.
ASSUME LastResortIsUnmeasured
=============================================================================
