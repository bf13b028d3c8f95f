----------------------------- MODULE MCTestLogger -----------------------------
(* TestLogger on a small instance: the two serial ports of the zcu104       *)
(* configurations, two images and two attempts each.                        *)
EXTENDS TestLogger
===============================================================================
