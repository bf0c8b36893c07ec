------------------------------ MODULE MCDirtyLog ------------------------------
(* A small instance of DirtyLog for TLC: 2-byte pages, 2-page words. *)
EXTENDS DirtyLog

CONSTANTS w1, w2

\* A region that ends in the middle of a page.
OddStart  == <<0>>
OddLength == <<3>>
===============================================================================
