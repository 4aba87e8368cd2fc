------------------------------ MODULE MCHealth ------------------------------
(* The pages the health run uses. *)
EXTENDS HealthRow

A(flags, status, remaining, size, temp, maxTemp) ==
  [validation_flags |-> flags, health_status |-> status,
   percentage_remaining |-> remaining, vendor_data_size |-> size, times |-> 7,
   media_temp |-> temp, controller_temp |-> (temp + 1) % (2 * Half),
   max_media_temp |-> maxTemp, max_controller_temp |-> (maxTemp + 3) % (2 * Half)]

\* Full pages, one of them of a DIMM below zero and in two states of health;
\* one with less than nothing left, one that knows nothing and one without a
\* status or vendor's data.
SomePages ==
  {A(Flag, 5, 60, 4, Half + 3, 6), A(Flag, 0, 100, 0, 5, 2),
   A(Flag \ {"media_temp", "vendor"}, 2, 130, 4, 2, Half + 1),
   A({}, 3, 9, 4, 1, 1),
   A({"vendor", "controller_temp"}, 4, 20, 0, 6, 3)}
=============================================================================
