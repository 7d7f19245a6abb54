----------------------------- MODULE MCGpioLpc32xx ----------------------------
(* GpioLpc32xx for TLC: pins of the same number on chips that share registers, *)
(* an input, and device tree nodes whose bank or pin does not exist.        *)
EXTENDS GpioLpc32xx

MCSpec_args == {<<2, 5>>, <<3, 5>>, <<4, 15>>, <<5, 5>>, <<6, 0>>, <<0, 8>>}
MCBoot == {{}, 0 .. 31}
===============================================================================
