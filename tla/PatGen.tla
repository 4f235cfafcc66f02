-------------------------------- MODULE PatGen --------------------------------
(***************************************************************************)
(* lib/pat_gen.py: a bit pattern as an oscilloscope would have sampled it, *)
(* in the middle of an array.  Arrays are functions on 0..n-1, as in       *)
(* Python; times are in units of which a bit lasts bit_time.               *)
(***************************************************************************)
EXTENDS Integers, Sequences

\* int(1 / (bit_rate * sample_period))
samples_per_bit(bit_time, sample_period) == bit_time \div sample_period

\* The exception for a pattern that does not fit is made, not raised.
TooLong(pattern, output_length, spb) == Len(pattern) * spb > output_length

\* Padding, the pattern around the middle, padding; an odd sample is lost.
scipy_array_from_pattern(pattern, output_length, spb, val_one, val_zero, val_pad) ==
  LET num_of_samples == Len(pattern) * spb
      half_samples   == num_of_samples \div 2
      half_output    == output_length \div 2
      bit(sample)    == pattern[(sample + num_of_samples \div 2) \div spb + 1]
  IN  [j \in 0..(2 * half_output - 1) |->
         LET sample == j - half_output
         IN  IF sample \notin (-half_samples)..(half_samples - 1) THEN val_pad
             ELSE IF bit(sample) = 0 THEN val_zero ELSE val_one]
=============================================================================
