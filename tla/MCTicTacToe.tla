----------------------------- MODULE MCTicTacToe -----------------------------
EXTENDS TicTacToe
==============================================================================
