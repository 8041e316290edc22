--------------------------- MODULE MCSCD30Driver ---------------------------
(* SCD30Driver with texts at the edges of what its types hold, noise of    *)
(* one bit and of bursts of up to eight, which the checksum must see, and  *)
(* a location that begins with a digit.                                    *)
EXTENDS SCD30Driver

Text(chars, meaning) == [text |-> chars, meaning |-> meaning]

(* "400", "00000415", "000004150", "70000", "1.15" and "x".                *)
MCTexts == {Text(<<52, 48, 48>>, 40000),
            Text(<<48, 48, 48, 48, 48, 52, 49, 53>>, 41500),
            Text(<<48, 48, 48, 48, 48, 52, 49, 53, 48>>, 415000),
            Text(<<55, 48, 48, 48, 48>>, 7000000),
            Text(<<49, 46, 49, 53>>, 115),
            Text(<<120>>, NotANumber)}

(* Single bits at the borders of the three bytes, and bursts within a byte *)
(* and over the borders.                                                   *)
MCNoise == {{0}, {7}, {8}, {15}, {16}, {23},
            0..7, 4..11, {12, 15, 19}, {8, 15}, {9, 16}, 16..23}

(* No word of a measurement is like another.                               *)
MCMeasurements == {<<{30, 23, 18, 3}, {30, 24, 21, 5, 0}, {30, 25, 17, 9}>>,
                   <<{30, 26, 16, 1}, {30, 24, 20, 14}, {30, 25, 22, 7, 2}>>}

MCLocation == <<55>>

(* What the theorem CalibrationsArrive assumes of the texts.               *)
ASSUME MCTextsMeanNumbers == TextsMeanNumbers

============================================================================
