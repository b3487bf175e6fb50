------------------------------ MODULE PcpsGrid ------------------------------
(***************************************************************************)
(* The pure algorithms of pcps_assisted_acquisition_cc.cc: the Doppler     *)
(* grid builder (redefine_grid), the assistance window (get_assistance),   *)
(* the peak search (search_maximum) and the test-statistic decision        *)
(* (general_work, case 3).                                                  *)
(*                                                                         *)
(* A search grid is a function from (Doppler row, code-delay column) to    *)
(* the accumulated squared-magnitude energy of that cell: the contents of  *)
(* d_grid_data.  Rows are 0 .. n-1, columns 0 .. FftSize-1.                *)
(***************************************************************************)
EXTENDS Integers

\* The cells of a grid with n Doppler rows and fft code-delay columns.
Cells(n, fft) == (0 .. n - 1) \X (0 .. fft - 1)

\* A freshly allocated (or reset) grid: every cell zero.
ZeroGrid(n, fft) == [c \in Cells(n, fft) |-> 0]

\* The number of Doppler hypotheses, floor(|max - min| / step): the
\* operands are integers, so floor() of the quotient is integer division.
NumDopplerPoints(dmin, dmax, step) ==
    (IF dmax >= dmin THEN dmax - dmin ELSE dmin - dmax) \div step

\* The frequency of Doppler hypothesis i.
DopplerHz(dmin, step, i) == dmin + step * i

\* The search window built from an assistance record: twice the
\* uncertainty around Doppler0 when the uncertainty is at least 1000 Hz,
\* 1000 Hz either side otherwise.
AssistedWindow(rec) ==
    LET w == IF rec.dopplerUncertainty >= 1000
             THEN rec.dopplerUncertainty * 2
             ELSE 1000
    IN  [min |-> rec.Doppler0 - w, max |-> rec.Doppler0 + w]

\* volk_gnsssdr_32f_index_max_32u on row i: the first column holding the
\* row's maximum (the kernel replaces its candidate only on a strictly
\* greater value).
IndexMax(g, i, fft) ==
    CHOOSE j \in 0 .. fft - 1 :
        /\ \A k \in 0 .. fft - 1 : g[i, j] >= g[i, k]
        /\ \A k \in 0 .. j - 1 : g[i, k] < g[i, j]

\* The loop of search_maximum over rows i .. n-1, carrying magt,
\* index_doppler and index_time.  A row whose maximum strictly exceeds
\* magt becomes the best row, but magt is then read at the column of the
\* PREVIOUS best (d_grid_data[i][index_time]) before index_time is updated.
RECURSIVE SearchRows(_, _, _, _, _)
SearchRows(g, n, fft, i, acc) ==
    IF i >= n THEN acc
    ELSE LET t == IndexMax(g, i, fft)
         IN  SearchRows(g, n, fft, i + 1,
                 IF g[i, t] > acc.magt
                 THEN [magt |-> g[i, acc.index_time],
                       index_doppler |-> i, index_time |-> t]
                 ELSE acc)

\* search_maximum: the peak the code reports, before FFT normalisation.
SearchMaximum(g, n, fft) ==
    SearchRows(g, n, fft, 0, [magt |-> 0, index_doppler |-> 0, index_time |-> 0])

\* d_test_statistics > d_threshold, where
\*   d_test_statistics = 2 * fft * (magt / fft^4) / (power * wells).
\* The threshold is the rational thrNum / thrDen; every operand is
\* non-negative, so the comparison is done cross-multiplied.  With a zero
\* input power the float quotient is +inf (magt > 0), which exceeds any
\* threshold, or NaN (magt = 0), which exceeds none.
Exceeds(magt, power, wells, fft, thrNum, thrDen) ==
    IF power = 0
    THEN magt > 0
    ELSE 2 * fft * magt * thrDen > thrNum * fft^4 * power * wells

=============================================================================
