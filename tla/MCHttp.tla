------------------------------- MODULE MCHttp -------------------------------
EXTENDS HttpInvariant

Address(lower) == [valid |-> TRUE, lower |-> lower]
AnEmail == {Address("a")}
=============================================================================
