----------------------------- MODULE MCRecipe -----------------------------
EXTENDS Recipe

CONSTANTS mashing, boiling, low, high

\* a boiling power above 100 percent, and an empty one, are refused
MCRefused == {<<boiling, 2, high>>, <<boiling, 2, Empty>>}

Line(k, words) == [kind |-> k, words |-> words, blank |-> FALSE]

MCRecipes == {<<Line(mashing, <<>>), Line(boiling, <<Star, low>>), Line(mashing, <<high>>)>>}
=============================================================================
