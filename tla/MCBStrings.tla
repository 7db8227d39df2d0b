----------------------------- MODULE MCBStrings -----------------------------
EXTENDS BStrings
MCTexts == {<<>>, <<97>>, <<97, 65>>, <<32, 97, 97>>}
MCFills == {32, 97}
=============================================================================
