-------------------------------- MODULE MCI2c --------------------------------
(* The I2C driver for TLC: two clients that share two transfer objects,    *)
(* with a write of one byte and a read of two.                            *)
EXTENDS I2cDriver

SmallShapes == {<<1, 0>>, <<0, 2>>}
=============================================================================
