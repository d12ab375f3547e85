------------------------------ MODULE MCTimer ------------------------------
EXTENDS TimerUsers

Two == {"s", "t"}
Apart == {{"plain"}, {"cache", "throttle"}}
=============================================================================
