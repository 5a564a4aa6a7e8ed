----------------------------- MODULE NativeImage -----------------------------
(***************************************************************************)
(* What the native library computes: the shifts and spectra of             *)
(* cvComplex.cpp, the vector of jni_illparameter.cpp, the difference       *)
(* images of jni_qDPC.cpp, and the way runProcess feeds them.              *)
(*                                                                         *)
(* A Mat is its size and the value at each row and column.  A spectrum has *)
(* the frequency at each place, not its amplitude: the question is where a *)
(* value ends up.  Gray values are integers and their ratios are kept as   *)
(* multiples of 1/Scale, which every sum in use divides.                   *)
(*                                                                         *)
(* Each behaviour is one call with one choice of arguments.                *)
(* External, from how the code uses it: cv::dft, cv::getOptimalDFTSize,    *)
(* cv::divide, cv::Mat::ones, copyTo and the range checks of cv::Mat.      *)
(***************************************************************************)
EXTENDS Integers

CONSTANTS
    MaxSide,    \* bound: rows and columns of an image that is shifted
    MaxGray,    \* bound: gray values of a difference image
    Scale,      \* a common multiple of the sums of two gray values
    Lit,        \* the pixels of a difference image inside its circle
    Missing,    \* imread of a file that is not there
    Failed,     \* an exception
    Undefined   \* a division by 0, or a read outside an image

ASSUME ImageAssumption ==
    /\ {MaxSide, MaxGray, Scale} \subseteq Nat \ {0}
    /\ \A sum \in 1..(4 * MaxGray) : Scale % sum = 0   \* doubled ones too

VARIABLES
    call,    \* the function and its arguments
    result   \* what it returned

Places(rows, cols) == (0..(rows - 1)) \X (0..(cols - 1))

Mat(rows, cols, value(_)) ==
    [rows |-> rows, cols |-> cols, at |-> [p \in Places(rows, cols) |-> value(p)]]

(* An image in which every pixel is different.                             *)
Distinct(rows, cols) == LET Itself(p) == p IN Mat(rows, cols, Itself)

zeros(rows, cols) == LET Zero(p) == 0 IN Mat(rows, cols, Zero)

(* An exception is no image, and no image is undefined.                    *)
Side == 1..(2 * MaxSide)

Images == [rows : Side, cols : Side,
           at : UNION {[Places(rows, cols) -> Nat \X Nat] : rows, cols \in Side}]

ASSUME OutcomeAssumption ==
    /\ Failed \notin Images
    /\ Undefined \notin [Lit -> Nat]
    /\ Missing \notin [Lit -> Nat]

------------------------------------------------------------------------------
(* Shifts.                                                                 *)

Rect(x, y, width, height) == [x |-> x, y |-> y, width |-> width, height |-> height]

Within(r, mat) ==
    /\ 0 <= r.x /\ 0 <= r.width /\ r.x + r.width <= mat.cols
    /\ 0 <= r.y /\ 0 <= r.height /\ r.y + r.height <= mat.rows

Covers(r, p) == p[1] \in r.y..(r.y + r.height - 1) /\ p[2] \in r.x..(r.x + r.width - 1)

(* img(gate).copyTo(Mat(result, out))                                      *)
CopyTo(img, move, dest) ==
    LET Pixel(p) ==
            IF Covers(move.out, p)
            THEN img.at[<<(p[1] - move.out.y) + move.gate.y, (p[2] - move.out.x) + move.gate.x>>]
            ELSE dest.at[p]
    IN Mat(dest.rows, dest.cols, Pixel)

(* The remainder of C: it has the sign of the dividend.                    *)
Rem(a, b) == IF a >= 0 THEN a % b ELSE -((-a) % b)

(* Variant: a negative remainder is taken as it is.                        *)
ShiftOfAsIs(x, w) == Rem(x, w)

(* A shift to the left or upwards is made one to the right or downwards.   *)
ShiftOf(x, w) == IF Rem(x, w) < 0 THEN Rem(x, w) + w ELSE Rem(x, w)

(* Four rectangles are copied one after the other; when source and result  *)
(* share their data, the later ones read what the earlier ones wrote.      *)
circularShift(img, dest, x, y, shared) ==
    LET w == img.cols
        h == img.rows
        shiftR == ShiftOf(x, w)
        shiftD == ShiftOf(y, h)
        Move(gate, out) == [gate |-> gate, out |-> out]
        move1 == Move(Rect(0, 0, w - shiftR, h - shiftD),
                      Rect(shiftR, shiftD, w - shiftR, h - shiftD))
        move2 == Move(Rect(w - shiftR, 0, shiftR, h - shiftD),
                      Rect(0, shiftD, shiftR, h - shiftD))
        move3 == Move(Rect(0, h - shiftD, w - shiftR, shiftD),
                      Rect(shiftR, 0, w - shiftR, shiftD))
        move4 == Move(Rect(w - shiftR, h - shiftD, shiftR, shiftD),
                      Rect(0, 0, shiftR, shiftD))
        After(move, mat) == CopyTo(IF shared THEN mat ELSE img, move, mat)
    IN IF \A move \in {move1, move2, move3, move4} :
            Within(move.gate, img) /\ Within(move.out, dest)
       THEN After(move4, After(move3, After(move2, After(move1, dest))))
       ELSE Failed

Ceil2(n) == (n + 1) \div 2
Floor2(n) == n \div 2

(* Variant: the result is written over the input.                          *)
ShiftByOver(input, inPlace, x, y) ==
    circularShift(input, IF inPlace THEN input ELSE zeros(input.rows, input.cols), x, y, inPlace)

(* A Mat that is its own output gets a new one, made with rows and columns *)
(* exchanged.                                                              *)
ShiftBy(input, inPlace, x, y) ==
    circularShift(input, IF inPlace THEN zeros(input.cols, input.rows)
                                    ELSE zeros(input.rows, input.cols), x, y, FALSE)

fftShift(input, inPlace) == ShiftBy(input, inPlace, Ceil2(input.cols), Ceil2(input.rows))

ifftShift(input, inPlace) == ShiftBy(input, inPlace, Floor2(input.cols), Floor2(input.rows))

(* A shift by a multiple of a side copies empty rectangles.  Whether       *)
(* copyTo accepts them depends on the OpenCV that is installed: both are   *)
(* possible.  fftShift makes one only where a side has a single pixel.     *)
EmptyCopy(rows, cols, x, y) == x % cols = 0 \/ y % rows = 0

CallShift ==
    \E rows, cols \in 1..MaxSide, x, y \in -(MaxSide + 1)..(MaxSide + 1) :
        /\ call' = [name |-> "circularShift", rows |-> rows, cols |-> cols, x |-> x, y |-> y]
        /\ \/ result' = circularShift(Distinct(rows, cols), zeros(rows, cols), x, y, FALSE)
           \/ EmptyCopy(rows, cols, x, y) /\ result' = Failed

CallThereAndBack ==
    \E rows, cols \in 1..MaxSide, inPlace \in BOOLEAN :
        /\ call' = [name |-> "ifftShift", rows |-> rows, cols |-> cols, inPlace |-> inPlace]
        /\ \/ result' = LET there == fftShift(Distinct(rows, cols), inPlace)
                        IN IF there = Failed THEN Failed ELSE ifftShift(there, inPlace)
           \/ EmptyCopy(rows, cols, Ceil2(cols), Ceil2(rows)) /\ result' = Failed

------------------------------------------------------------------------------
(* Spectra.                                                                *)

(* The next size with no prime factor but 2, 3 and 5.                      *)
getOptimalDFTSize(n) ==
    LET Smooth(m) == \A d \in 2..m : m % d = 0 => 0 \in {d % 2, d % 3, d % 5}
    IN CHOOSE m \in n..(2 * n) : Smooth(m) /\ \A k \in n..(m - 1) : ~Smooth(k)

(* The transform of the padded image has frequency <<u, v>> at that place. *)
fft2(rows, cols) == Distinct(getOptimalDFTSize(rows), getOptimalDFTSize(cols))

(* reshape, split, hconcat and transpose: all real parts, row by row, and  *)
(* then all imaginary parts.                                               *)
getFFTVector(rows, cols) ==
    LET spectrum == fftShift(fft2(rows, cols), TRUE)
        total == spectrum.rows * spectrum.cols
        Place(k) == <<k \div spectrum.cols, k % spectrum.cols>>
    IN IF spectrum = Failed THEN Failed
       ELSE [k \in 0..(2 * total - 1) |->
                [part |-> IF k < total THEN "real" ELSE "imag",
                 freq |-> spectrum.at[Place(k % total)]]]

(* The kernel counts its frequencies from the middle; it is filled with    *)
(* rows and columns exchanged.                                             *)
genFresnelKernel(rows, cols) ==
    LET Kernel(p) == <<p[1] - Floor2(cols), p[2] - Floor2(rows)>> IN Mat(cols, rows, Kernel)

(* fft2, fftShift, times the kernel, fftShift again: which frequency meets *)
(* which value of the kernel, and where it is afterwards.  The product     *)
(* reads past a kernel that is smaller than the padded spectrum.           *)
fresnelProp(rows, cols) ==
    LET spectrum == fftShift(fft2(rows, cols), TRUE)
        kernel == genFresnelKernel(rows, cols)
        Product(p) == [freq |-> spectrum.at[p], kernel |-> kernel.at[p]]
    IN IF spectrum = Failed THEN Failed
       ELSE IF DOMAIN spectrum.at # DOMAIN kernel.at THEN Undefined
       ELSE fftShift(Mat(rows, cols, Product), TRUE)

CallSpectrum ==
    \E rows, cols \in 2..(2 * MaxSide), f \in {"getFFTVector", "fresnelProp"} :
        /\ call' = [name |-> f, rows |-> rows, cols |-> cols]
        /\ result' = IF f = "getFFTVector" THEN getFFTVector(rows, cols)
                                           ELSE fresnelProp(rows, cols)

------------------------------------------------------------------------------
(* Difference images.                                                      *)

Gray == 0..MaxGray

(* x / y to the nearest integer, a half to the even one; OpenCV makes it 0 *)
(* where y is 0.                                                           *)
Divided(x, y) ==
    LET q == x \div y
        twice == 2 * (x % y)
    IN IF y = 0 THEN 0
       ELSE IF twice > y \/ (twice = y /\ q % 2 = 1) THEN q + 1 ELSE q

(* Variant: without the sum of both images in the denominator.             *)
ContrastAbsolute(a, b) == Scale * (a - b)

(* (a - b) / (a + b) in multiples of 1/Scale.                              *)
Contrast(a, b) == IF a + b = 0 THEN 0 ELSE (Scale \div (a + b)) * (a - b)

(* The contrast inside the circle and 0 around it, stretched to 0..255.    *)
(* An image that is flat is divided by 0: its values are not defined.      *)
calcDPC(image1, image2) ==
    LET value == [p \in Lit |-> Contrast(image1[p], image2[p])]
        all == {value[p] : p \in Lit} \cup {0}
        low == CHOOSE v \in all : \A u \in all : v <= u
        high == CHOOSE v \in all : \A u \in all : u <= v
    IN IF low = high THEN Undefined
       ELSE [p \in Lit |-> Divided(255 * (value[p] - low), high - low)]

CallDPC ==
    \E i1, i2 \in [Lit -> Gray] :
        /\ call' = [name |-> "calcDPC", image1 |-> i1, image2 |-> i2]
        /\ result' = calcDPC(i1, i2)

------------------------------------------------------------------------------
(* runProcess.doInBackground: one pair of images and their backgrounds, in *)
(* the green channel, as far as the difference image.                      *)

(* The green channel of Mat.ones: on an image of three channels OpenCV     *)
(* sets the first one to 1 and the others to 0.                            *)
ones == [p \in Lit |-> 0]

(* A background that is missing is replaced.                               *)
Background(bg) == IF bg = Missing THEN ones ELSE bg

(* Variant: both images of a pair are divided by one background.           *)
runProcessOneBackground(image1, image2, bg1, bg2) ==
    LET Over(image, bg) == [p \in Lit |-> Divided(image[p], Background(bg)[p])]
    IN calcDPC(Over(image1, bg1), Over(image2, bg1))

runProcess(image1, image2, bg1, bg2) ==
    LET Over(image, bg) == [p \in Lit |-> Divided(image[p], Background(bg)[p])]
    IN calcDPC(Over(image1, bg1), Over(image2, bg2))

CallProcess ==
    \E i1, i2 \in [Lit -> Gray], b1, b2 \in [Lit -> 1..MaxGray] \cup {Missing} :
        /\ call' = [name |-> "runProcess", image1 |-> i1, image2 |-> i2,
                    bg1 |-> b1, bg2 |-> b2]
        /\ result' = runProcess(i1, i2, b1, b2)

------------------------------------------------------------------------------
Init == call = [name |-> "none"] /\ result = Missing

Next ==
    /\ call.name = "none"
    /\ CallShift \/ CallThereAndBack \/ CallSpectrum \/ CallDPC \/ CallProcess

Spec == Init /\ [][Next]_<<call, result>>

------------------------------------------------------------------------------
(* Properties.                                                             *)

(* circularShift moves every pixel by the given distance around the edges, *)
(* for shifts of either sign and longer than the image: all four copies    *)
(* fit and together fill the result.  fftShift followed by ifftShift is    *)
(* the identity also for odd sides; only a Mat that is not square and is   *)
(* its own output throws, because its new Mat is made the other way round. *)
(* An OpenCV that refuses empty copies may throw for a shift by a multiple *)
(* of a side, and so for a side of one pixel, but never returns a wrong    *)
(* image.                                                                  *)
ShiftIsCyclic ==
    /\ call.name = "circularShift" =>
        \/ EmptyCopy(call.rows, call.cols, call.x, call.y) /\ result = Failed
        \/ result = LET From(p) == <<(p[1] - call.y) % call.rows, (p[2] - call.x) % call.cols>>
                    IN Mat(call.rows, call.cols, From)
    /\ call.name = "ifftShift" =>
        \/ 1 \in {call.rows, call.cols} /\ result = Failed
        \/ result = IF call.inPlace /\ call.rows # call.cols THEN Failed
                    ELSE Distinct(call.rows, call.cols)

(* The sides the app uses: even, square and not in need of padding.        *)
Regular == call.rows = call.cols /\ call.rows % 2 = 0 /\ getOptimalDFTSize(call.rows) = call.rows

Signed(u, n) == IF u < n \div 2 THEN u ELSE u - n

(* For an image like the 64 by 64 one of the app, getFFTVector lists each  *)
(* frequency twice, first all real parts and then all imaginary ones, from *)
(* the most negative frequency upwards; and in fresnelProp each frequency  *)
(* meets the value of the kernel that was computed for it and is back in   *)
(* the place where the inverse transform expects it.                       *)
SpectrumInOrder ==
    LET n == call.rows
        Ordered(k) == [part |-> IF k < n * n THEN "real" ELSE "imag",
                       freq |-> <<(((k % (n * n)) \div n) + n \div 2) % n, ((k % n) + n \div 2) % n>>]
    IN /\ call.name = "getFFTVector" /\ Regular =>
            result = [k \in 0..(2 * n * n - 1) |-> Ordered(k)]
       /\ call.name = "fresnelProp" /\ Regular =>
            \A p \in DOMAIN result.at :
                /\ result.at[p].freq = p
                /\ result.at[p].kernel = <<Signed(p[1], n), Signed(p[2], n)>>

(* The difference image shows the phase and not the lamp: a pixel that is  *)
(* twice as bright in both images, with the vignetting of the projector,   *)
(* changes nothing, and exchanging the two images inverts the gray values, *)
(* up to one level of rounding.                                            *)
DpcIgnoresShading ==
    call.name = "calcDPC" =>
        /\ \A bright \in SUBSET Lit :
            LET Shaded(i) == [p \in Lit |-> IF p \in bright THEN 2 * i[p] ELSE i[p]]
            IN calcDPC(Shaded(call.image1), Shaded(call.image2)) = result
        /\ LET swapped == calcDPC(call.image2, call.image1)
           IN IF result = Undefined THEN swapped = Undefined
              ELSE \A p \in Lit : result[p] + swapped[p] \in 254..256

(* What the 8-bit division by the backgrounds does to a pair of images.    *)
(* Rounding may erase a contrast, but it never inverts one: a pixel that   *)
(* is at least as bright in image 1 as in image 2, each measured by its    *)
(* own background, is nowhere shown darker than a pixel for which it is    *)
(* the other way round.  And a sample erases altogether if at each pixel   *)
(* both images are within half a background of one multiple k of it: the   *)
(* result is then not defined, as for a flat image.                        *)
RoundingErasesNeverInverts ==
    call.name = "runProcess" /\ Missing \notin {call.bg1, call.bg2} =>
        LET Over1(p) == call.image1[p] * call.bg2[p]   \* image1 / bg1 over a
            Over2(p) == call.image2[p] * call.bg1[p]   \* common denominator
            Near(x, k, y) == -y < 2 * (x - k * y) /\ 2 * (x - k * y) < y
            Alike(p) == \E k \in Gray : /\ Near(call.image1[p], k, call.bg1[p])
                                       /\ Near(call.image2[p], k, call.bg2[p])
        IN /\ result = Undefined
              \/ \A p, q \in Lit : Over1(p) >= Over2(p) /\ Over1(q) <= Over2(q)
                                    => result[p] >= result[q]
           /\ (\A p \in Lit : Alike(p)) => result = Undefined

(* A pair without backgrounds is processed as it is: "ones" stands for a   *)
(* background that changes nothing.                                        *)
MissingBackgroundIsNeutral ==
    call.name = "runProcess" /\ call.bg1 = Missing /\ call.bg2 = Missing =>
        result = calcDPC(call.image1, call.image2)

==============================================================================
