----------------------------- MODULE MCFirmware -----------------------------
\* One build with two plans per solution, two requests and two workers; or one compile by
\* itself, in either mode.
EXTENDS Codegen
CONSTANTS c1, c2

TwoPlans == {<<c1, c2>>}
=============================================================================
