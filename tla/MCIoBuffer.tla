----------------------------- MODULE MCIoBuffer -----------------------------
EXTENDS IoBuffer

DataDef == {<<"a", "n", "a">>}
=============================================================================
