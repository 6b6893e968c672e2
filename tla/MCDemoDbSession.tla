-------------------------- MODULE MCDemoDbSession --------------------------
EXTENDS DemoDbSession
CONSTANTS a, b
TwoTabs == {a, b}
OneCaller == {a}
NoTabs == {}
OneLockless == {b}
=============================================================================
