---------------------------- MODULE SyscallTables -----------------------------
(***************************************************************************)
(* syscall_ids: the number the kernel gives each system call, one table    *)
(* per architecture, of which a build links the one named after the        *)
(* machine.  All tables have the order of the enumeration syscall_t; -1    *)
(* stands for a call the architecture does not have.  Each is given in     *)
(* four parts.  These are the tables a build can link: the others either   *)
(* name calls that syscall_t does not have and do not compile, or carry a  *)
(* name meson has for no machine.                                          *)
(***************************************************************************)
EXTENDS Integers, Sequences

alpha_1 == <<
  -1, -1, 319, 99, 502, 33, 51, 439, 366, -1, -1, -1, -1, -1, -1, -1, -1, 300, 104, 515, 17, -1,
   -1, 368, 369, 12, 15, 16, -1, 61, 499, -1, 421, -1, 420, -1, 422, -1, 419, -1, 312, -1, -1,
   6, 546, 98, 519, -1, 306, 308, 373, 41, 90, 487, 407, 486, 408, -1, 474, 551, 409, -1, 478,
   485, 25, -1, 59, 513, 1, 405, 462, 549, 413, -1, 480, 494, 495, 13, 124, 461, 123, -1, 453,
   92, -1, 447, 387, 507, 390, 131, 2, -1, 393, 541, 384, 542, 540, 543, 91, 427, 455, 329, 529,
   95, 130, -1, 394, -1, 559, 454, 309, 430, 467, -1, 473, 367, 305, 377, -1, 89, 530, -1, 531,
   -1, 47, -1, 79, -1, 87, 361, 64, 141, 233, 63, 20, -1, 532, 100, 511, 372, -1, 344, -1, 144,
   364, 234, 150, 118, 378, 359>>
alpha_2 == <<
  24, -1, -1, 385, 47, 20, 24, -1, 307, 445, 444, 489, 446, 402, 399, 400, 523, -1, 398, 401,
   536, 537, 535, 54, -1, -1, 443, 442, -1, 506, -1, -1, 448, 441, 37, 555, 554, 556, 208, -1,
   386, 9, 458, 106, 388, 389, 406, 392, 19, 383, 68, 426, 75, 429, 517, 512, -1, -1, 449, 375,
   136, 451, 14, 452, 314, 518, 316, 71, -1, -1, 302, 552, 539, 472, 74, 437, 436, 432, 435, -1,
   434, -1, 433, 341, 200, 201, 202, 203, 217, -1, 315, 317, 73, 497, 340, -1, 342, -1, 303, -1,
   -1, -1, -1, -1, 321, -1, 45, 498, 538, 450, 547, -1, 140, 258, 181, 188, 187, 163, 252, 253,
   34, 11, 169, 35, 261, 248, 226, 161, 228, 243, 214, 159, 165, 164, 18, 142, 86, 49, 184, 117,
   256, 116, 223, 77, 225, 260, 78, 21, 65, 240>>
alpha_3 == <<
  215, 213, 216, 30, 158, 31, 32, 29, 27, 28, 245, 246, 8, 62, 81, 146, 40, 5, 46, 109, 139,
   110, 108, 38, 72, 115, 84, 149, 247, 153, 154, 107, 237, 44, 244, 55, 56, 69, 222, 93, 43,
   239, 143, 83, 50, 257, 122, 209, 218, 48, 238, 112, 157, 70, 224, 160, 227, 255, 259, 199, 0,
   241, 85, 242, 251, 250, 220, 219, 138, 207, 7, 236, -1, 376, 345, 346, 493, -1, 324, 548,
   544, 534, 42, 488, 374, 525, 526, 524, 94, 464, -1, 348, 349, 490, 520, 496, 550, 558, 504,
   505, 463, -1, 26, 350, 491, 521, 347, 148, 553, 3, 379, -1, 58, 460, 120, 311, 102, 125, 479,
   -1, 113, 410, 391, 128, 457, 510, 440, 412, -1, 137, 527, 352, 354, 353, 356, 351, 357, 355,
   -1, 492, -1, -1, -1, -1, -1, -1, -1, 335, 336, 396>>
alpha_4 == <<
  509, 331, 333, 337, -1, -1, 395, 508, 330, 332, 334, 514, 358, 204, 205, 206, 423, -1, 101,
   370, -1, 503, 114, 133, 431, 560, 466, -1, 411, 166, 326, -1, 325, -1, 132, -1, 80, -1, 301,
   88, 362, 501, 39, 82, 96, 127, -1, 371, -1, 343, -1, 126, -1, 145, 147, 105, 360, 23, -1,
   382, -1, 209, 210, 211, 212, 134, 156, 235, -1, 476, 484, 52, -1, 103, 111, 97, -1, 135, 468,
   -1, -1, -1, 67, 425, 328, 528, 522, -1, -1, -1, 304, 322, -1, 57, 459, 36, 469, -1, 500, -1,
   -1, 254, 318, 310, -1, 470, 424, -1, 414, 418, 417, 416, -1, 415, -1, 477, 481, 483, -1, 482,
   -1, 323, 381, 129, -1, -1, 60, 22, 22, 339, 10, 456, 465, 313, 516, 327, -1, 475, -1, 363,
   -1, 66, 76, -1, -1, 471, 365, 438, -1, 4, 121>>

arc_1 == <<
  -1, -1, -1, 202, 242, -1, 89, 217, 171, -1, 246, 245, 248, -1, -1, -1, -1, -1, 200, 280, 214,
   -1, 244, 90, 91, 49, -1, -1, -1, 51, 266, 405, 114, 406, 113, 403, 115, 407, 112, 404, 220,
   -1, 435, 57, 436, 203, 285, -1, -1, 106, -1, 23, -1, 24, -1, 20, 21, -1, 22, 441, -1, -1, -1,
   19, -1, -1, 221, 281, 93, 94, 48, 439, -1, 223, 47, 262, 263, 50, 52, 53, 55, -1, 54, -1, 25,
   83, 10, 273, 13, 32, -1, -1, 16, 431, 7, 432, 430, 433, -1, 80, 79, -1, 44, 82, -1, 46, 98,
   422, 449, -1, -1, 236, 100, -1, 168, 17, -1, 61, -1, -1, 177, -1, 175, -1, 176, -1, 158, -1,
   -1, 102, -1, 205, 155, -1, 172, -1, 173, 141, 278, 150, -1, 148, -1, 163, 165, 156, 204, 209,
   178, 169>>
arc_2 == <<
  174, -1, -1, 8, -1, -1, -1, -1, 105, 27, -1, 26, 28, 3, 1, 4, 292, 416, 0, 2, 426, 427, 425,
   29, -1, -1, 31, 30, -1, 272, -1, 294, 104, 219, 129, 445, 444, 446, -1, -1, 9, -1, 37, 201,
   11, 12, 18, 15, -1, 6, -1, -1, 233, 235, 283, 279, -1, -1, 238, 232, -1, 34, -1, 33, 228,
   284, 230, -1, 222, -1, 40, 442, 429, 239, 226, 185, 184, 180, 183, 419, 182, 418, 181, 216,
   187, 186, 188, 189, 227, -1, 229, 231, 215, 264, 101, -1, 42, -1, -1, -1, -1, -1, -1, -1, -1,
   -1, -1, 265, 428, 56, 437, -1, -1, -1, -1, -1, -1, -1, -1, -1, -1, -1, -1, -1, -1, -1, -1,
   -1, -1, -1, -1, -1, -1, -1, -1, -1, -1, -1, -1, -1, -1, -1, -1, -1, -1, -1, -1, -1, -1, -1>>
arc_3 == <<
  -1, -1, -1, -1, -1, -1, -1, -1, -1, -1, -1, -1, -1, -1, -1, -1, -1, -1, -1, -1, -1, -1, -1,
   -1, -1, -1, -1, -1, -1, -1, -1, -1, -1, -1, -1, -1, -1, -1, -1, -1, -1, -1, -1, -1, -1, -1,
   -1, -1, -1, -1, -1, -1, -1, -1, -1, -1, -1, -1, -1, -1, -1, -1, -1, -1, -1, -1, -1, -1, -1,
   -1, -1, -1, -1, -1, -1, -1, 241, -1, 92, 438, 434, 424, -1, 59, 41, 289, 290, 288, -1, 73,
   414, 167, 67, 69, 286, 261, 440, 448, 270, 271, 72, 413, 117, 68, 70, 287, -1, 60, 443, 63,
   213, -1, -1, 78, 65, 142, -1, 207, 243, 417, 212, 234, 14, -1, 38, 276, 218, 128, -1, -1,
   293, 134, 136, 135, 138, 139, 133, 137, 421, 240, -1, -1, -1, -1, -1, -1, -1, 125, 126, 123>>
arc_4 == <<
  275, 121, 120, 127, 423, -1, 122, 274, 118, 119, 124, 277, -1, 191, 190, 193, 192, 420, -1,
   -1, 71, 269, 211, 206, 237, 450, 99, -1, 96, 162, 152, -1, 151, -1, 144, -1, 159, -1, -1,
   161, 103, 268, 154, -1, 140, 143, -1, 149, -1, 147, -1, 145, -1, 164, 157, 208, 170, 146, -1,
   5, -1, 196, 195, 197, 194, 210, -1, 132, -1, -1, 74, -1, -1, -1, -1, 198, -1, 199, 76, -1,
   -1, -1, -1, -1, -1, 43, 291, -1, -1, -1, 225, 224, -1, -1, 36, 81, 84, -1, 267, -1, -1, 247,
   179, 116, -1, 77, 131, -1, 107, 111, 109, 108, 408, 110, 409, -1, 85, 87, 410, 86, 411, 153,
   130, -1, 45, -1, 166, -1, 39, 160, -1, 35, 97, -1, 282, -1, -1, 88, 412, -1, -1, -1, 58, -1,
   -1, 75, 260, 95, -1, 64, 66>>

arm_1 == <<
  140, 142, 149, 285, 366, 33, 51, 309, 124, -1, -1, -1, -1, -1, 270, -1, -1, 134, 282, 386, 45,
   -1, -1, 184, 185, 12, 15, 182, 212, 61, 372, 405, 264, 406, 263, 403, 265, 407, 262, 404,
   120, -1, 435, 6, 436, 283, 391, 8, -1, 129, -1, 41, 63, 358, 250, 357, 251, -1, 346, 441,
   252, -1, 351, 356, -1, -1, 11, 387, 1, 248, 334, 439, -1, -1, 352, 367, 368, 133, 94, 333,
   95, 207, 325, 55, 221, 148, 231, 379, 234, 143, 2, -1, 237, 431, 228, 432, 430, 433, 108,
   197, 327, 100, 267, 118, 93, 194, 240, 422, 449, 326, -1, 320, 339, -1, 345, 183, 141, 217,
   -1, -1, 50, 202, 49, 201, 47, 200, 80, 205, -1, 105, -1, 287, 132, 65, 20, -1, 64, 96, 384,
   171, 211, 165, 209, -1, 77, 147, 286, 295, 224, 78>>
arm_2 == <<
  24, 199, -1, 229, -1, -1, -1, -1, 128, 317, 316, 360, 318, 247, 244, 245, 399, 416, 243, 246,
   426, 427, 425, 54, -1, -1, 315, 314, -1, 378, -1, 401, 347, 311, 37, 445, 444, 446, 16, 198,
   230, 9, 330, 284, 232, 233, 249, 236, 19, 227, 107, 196, 220, 319, 389, 385, -1, -1, 400,
   219, 39, 323, 14, 324, 150, 390, 152, -1, 192, -1, 21, 442, 429, 344, 125, 279, 278, 274,
   277, 419, 276, 418, 275, 163, 304, 303, 302, 301, 144, -1, 151, 153, 91, 370, 162, -1, 169,
   34, -1, -1, -1, -1, -1, -1, -1, -1, 5, 371, 428, 322, 437, -1, -1, -1, -1, -1, -1, -1, -1,
   -1, -1, -1, -1, -1, -1, -1, -1, -1, -1, -1, -1, -1, -1, -1, -1, -1, -1, -1, -1, -1, -1, -1,
   -1, -1, -1, -1, -1, -1, -1, -1>>
arm_3 == <<
  -1, -1, -1, -1, -1, -1, -1, -1, -1, -1, -1, -1, -1, -1, -1, -1, -1, -1, -1, -1, -1, -1, -1,
   -1, -1, -1, -1, -1, -1, -1, -1, -1, -1, -1, -1, -1, -1, -1, -1, -1, -1, -1, -1, -1, -1, -1,
   -1, -1, -1, -1, -1, -1, -1, -1, -1, -1, -1, -1, -1, -1, -1, -1, -1, -1, -1, -1, -1, -1, -1,
   -1, -1, -1, 29, 271, 272, 273, 364, -1, 136, 438, 434, 424, 42, 359, 218, 395, 396, 394, 168,
   336, 414, 172, 180, 361, 392, 369, 440, 448, 376, 377, 335, 413, 26, 181, 362, 393, -1, 131,
   443, 3, 225, -1, 85, 332, 145, 88, 291, 292, 365, 417, 297, 253, 235, 38, 329, 382, 310, 0,
   -1, 40, 398, 174, 176, 175, 178, 173, 179, 177, 421, 363, -1, -1, -1, -1, -1, -1, -1, 159,
   160, 242>>
arm_4 == <<
  381, 155, 157, 161, 423, -1, 241, 380, 154, 156, 158, 383, -1, 300, 299, 298, 312, 420, 289,
   187, 239, 374, 296, 290, 321, 450, 338, -1, 256, 121, 139, 216, 138, 215, 46, 214, 81, 206,
   -1, 74, 104, 375, 57, -1, 97, 71, 204, 170, 210, 164, 208, 70, 203, 75, 66, 294, 79, 23, 213,
   226, -1, 305, 308, 306, 307, 293, 67, 186, -1, 349, 355, 73, 126, 119, 72, 281, -1, 288, 340,
   -1, -1, -1, 106, 195, 99, 266, 397, -1, -1, -1, 115, 87, -1, 83, 331, 36, -1, 341, 373, -1,
   -1, 135, 116, 103, -1, 342, 268, -1, 257, 261, 260, 259, 408, 258, 409, -1, 350, 354, 410,
   353, 411, 43, 238, 92, 193, 191, 60, -1, 52, 122, 10, 328, 337, 86, 388, 62, -1, 348, 412,
   269, -1, 190, 111, -1, -1, 343, 114, 280, -1, 4, 146>>

arm64_1 == <<
  -1, -1, -1, 202, 242, -1, 89, 217, 171, -1, -1, -1, -1, -1, -1, -1, -1, -1, 200, 280, 214, -1,
   -1, 90, 91, 49, -1, -1, -1, 51, 266, -1, 114, -1, 113, -1, 115, -1, 112, -1, 220, -1, 435,
   57, 436, 203, 285, -1, -1, 106, -1, 23, -1, 24, -1, 20, 21, -1, 22, 441, -1, -1, -1, 19, -1,
   -1, 221, 281, 93, 94, 48, 439, 223, -1, 47, 262, 263, 50, 52, 53, 55, -1, 54, 25, -1, 83, 10,
   273, 13, 32, -1, -1, 16, 431, 7, 432, 430, 433, 80, -1, -1, 44, -1, 82, 46, -1, 98, -1, 449,
   -1, -1, 236, 100, -1, 168, 17, -1, 61, -1, -1, 177, -1, 175, -1, 176, -1, 158, -1, -1, 102,
   -1, 205, 155, -1, 172, -1, 173, 141, 278, 150, -1, 148, -1, 163, 165, 156, 204, 209, 178, 169>>
arm64_2 == <<
  174, -1, -1, 8, -1, -1, -1, -1, 105, 27, -1, 26, 28, 3, 1, 4, 292, -1, 0, 2, 426, 427, 425,
   29, -1, -1, 31, 30, -1, 272, -1, 294, 104, 219, 129, 445, 444, 446, -1, -1, 9, -1, 37, 201,
   11, 12, 18, 15, 62, 6, -1, -1, 233, 235, 283, 279, 447, -1, 238, 232, -1, 34, -1, 33, 228,
   284, 230, 222, -1, -1, 40, 442, 429, 239, 226, 185, 184, 180, 183, -1, 182, -1, 181, 216,
   187, 186, 188, 189, 227, -1, 229, 231, 215, 264, 101, 79, 42, -1, -1, -1, -1, -1, -1, -1, -1,
   -1, -1, 265, 428, 56, 437, -1, -1, -1, -1, -1, -1, -1, -1, -1, -1, -1, -1, -1, -1, -1, -1,
   -1, -1, -1, -1, -1, -1, -1, -1, -1, -1, -1, -1, -1, -1, -1, -1, -1, -1, -1, -1, -1, -1, -1>>
arm64_3 == <<
  -1, -1, -1, -1, -1, -1, -1, -1, -1, -1, -1, -1, -1, -1, -1, -1, -1, -1, -1, -1, -1, -1, -1,
   -1, -1, -1, -1, -1, -1, -1, -1, -1, -1, -1, -1, -1, -1, -1, -1, -1, -1, -1, -1, -1, -1, -1,
   -1, -1, -1, -1, -1, -1, -1, -1, -1, -1, -1, -1, -1, -1, -1, -1, -1, -1, -1, -1, -1, -1, -1,
   -1, -1, -1, -1, -1, -1, -1, 241, -1, 92, 438, 434, 424, -1, 59, 41, 289, 290, 288, -1, 73,
   -1, 167, 67, 69, 286, 261, 440, 448, 270, 271, 72, -1, 117, 68, 70, 287, -1, 60, 443, 63,
   213, -1, -1, 78, 65, 142, -1, 207, 243, -1, 212, 234, 14, -1, 38, 276, 218, 128, -1, -1, 293,
   134, 136, 135, 138, 139, 133, 137, -1, 240, -1, -1, -1, -1, -1, -1, -1, 125, 126, 123>>
arm64_4 == <<
  275, 121, 120, 127, -1, -1, 122, 274, 118, 119, 124, 277, -1, 191, 190, 193, 192, -1, -1, 71,
   -1, 269, 211, 206, 237, 450, 99, -1, 96, 162, 152, -1, 151, -1, 144, -1, 159, -1, -1, 161,
   103, 268, 154, -1, 140, 143, -1, 149, -1, 147, -1, 145, -1, 164, 157, 208, 170, 146, -1, 5,
   -1, 196, 195, 197, 194, 210, -1, 132, -1, -1, 74, -1, -1, -1, -1, 198, -1, 199, 76, -1, -1,
   -1, -1, -1, 43, -1, 291, -1, -1, -1, 225, 224, -1, -1, 36, 81, 84, -1, 267, -1, -1, -1, 179,
   116, -1, 77, 131, -1, 107, 111, 109, 108, -1, 110, -1, -1, 85, 87, -1, 86, -1, 153, 130, 45,
   -1, -1, 166, -1, 39, 160, -1, 35, 97, -1, 282, -1, -1, 88, -1, -1, -1, -1, 58, -1, -1, 75,
   260, 95, -1, 64, 66>>

csky_1 == <<
  -1, -1, -1, 202, 242, -1, 89, 217, 171, -1, -1, -1, -1, -1, -1, -1, -1, -1, 200, 280, 214, -1,
   245, 90, 91, 49, -1, -1, -1, 51, 266, 405, 114, 406, 113, 403, 115, 407, 112, 404, 220, -1,
   435, 57, 436, 203, 285, -1, -1, 106, -1, 23, -1, 24, -1, 20, 21, -1, 22, 441, -1, -1, -1, 19,
   -1, -1, 221, 281, 93, 94, 48, 439, -1, 223, 47, 262, 263, 50, 52, 53, 55, -1, 54, -1, 25, 83,
   10, 273, 13, 32, -1, -1, 16, 431, 7, 432, 430, 433, -1, 80, 79, -1, 44, 82, -1, 46, 98, 422,
   449, -1, -1, 236, 100, -1, 168, 17, -1, 61, -1, -1, 177, -1, 175, -1, 176, -1, 158, -1, -1,
   102, -1, 205, 155, -1, 172, -1, 173, 141, 278, 150, -1, 148, -1, 163, 165, 156, 204, 209,
   178, 169>>
csky_2 == <<
  174, -1, -1, 8, -1, -1, -1, -1, 105, 27, -1, 26, 28, 3, 1, 4, 292, 416, 0, 2, 426, 427, 425,
   29, -1, -1, 31, 30, -1, 272, -1, 294, 104, 219, 129, 445, 444, 446, -1, -1, 9, -1, 37, 201,
   11, 12, 18, 15, -1, 6, -1, -1, 233, 235, 283, 279, -1, -1, 238, 232, -1, 34, -1, 33, 228,
   284, 230, -1, 222, -1, 40, 442, 429, 239, 226, 185, 184, 180, 183, 419, 182, 418, 181, 216,
   187, 186, 188, 189, 227, -1, 229, 231, 215, 264, 101, -1, 42, -1, -1, -1, -1, -1, -1, -1, -1,
   -1, -1, 265, 428, 56, 437, -1, -1, -1, -1, -1, -1, -1, -1, -1, -1, -1, -1, -1, -1, -1, -1,
   -1, -1, -1, -1, -1, -1, -1, -1, -1, -1, -1, -1, -1, -1, -1, -1, -1, -1, -1, -1, -1, -1, -1>>
csky_3 == <<
  -1, -1, -1, -1, -1, -1, -1, -1, -1, -1, -1, -1, -1, -1, -1, -1, -1, -1, -1, -1, -1, -1, -1,
   -1, -1, -1, -1, -1, -1, -1, -1, -1, -1, -1, -1, -1, -1, -1, -1, -1, -1, -1, -1, -1, -1, -1,
   -1, -1, -1, -1, -1, -1, -1, -1, -1, -1, -1, -1, -1, -1, -1, -1, -1, -1, -1, -1, -1, -1, -1,
   -1, -1, -1, -1, -1, -1, -1, 241, -1, 92, 438, 434, 424, -1, 59, 41, 289, 290, 288, -1, 73,
   414, 167, 67, 69, 286, 261, 440, 448, 270, 271, 72, 413, 117, 68, 70, 287, -1, 60, 443, 63,
   213, -1, -1, 78, 65, 142, -1, 207, 243, 417, 212, 234, 14, -1, -1, 276, 218, 128, -1, -1,
   293, 134, 136, 135, 138, 139, 133, 137, 421, 240, -1, -1, -1, -1, -1, -1, -1, 125, 126, 123>>
csky_4 == <<
  275, 121, 120, 127, 423, -1, 122, 274, 118, 119, 124, 277, -1, 191, 190, 193, 192, 420, -1,
   -1, 71, 269, 211, 206, 237, 450, 99, 244, 96, 162, 152, -1, 151, -1, 144, -1, 159, -1, -1,
   161, 103, 268, 154, -1, 140, 143, -1, 149, -1, 147, -1, 145, -1, 164, 157, 208, 170, 146, -1,
   5, -1, 196, 195, 197, 194, 210, -1, 132, -1, -1, 74, -1, -1, -1, -1, 198, -1, 199, 76, -1,
   -1, -1, -1, -1, -1, 43, 291, -1, -1, -1, 225, 224, -1, -1, 36, 81, 84, -1, 267, -1, -1, -1,
   179, 116, -1, 77, 131, -1, 107, 111, 109, 108, 408, 110, 409, -1, 85, 87, 410, 86, 411, 153,
   130, -1, 45, -1, 166, -1, 39, 160, -1, 35, 97, -1, 282, -1, -1, 88, 412, -1, -1, -1, 58, -1,
   -1, 75, 260, 95, -1, 64, 66>>

i386_1 == <<
  140, 142, 149, -1, 364, 33, 51, 286, 124, 27, -1, -1, -1, 384, -1, -1, -1, 134, 361, 357, 45,
   -1, -1, 184, 185, 12, 15, 182, 212, 61, 343, 405, 266, 406, 265, 403, 267, 407, 264, 404,
   120, -1, 435, 6, 436, 362, 377, 8, 127, 129, -1, 41, 63, 330, 254, 329, 255, -1, 319, 441,
   256, -1, 323, 328, -1, -1, 11, 358, 1, 252, 307, 439, 250, 272, 324, 338, 339, 133, 94, 306,
   95, 207, 298, 55, 221, 148, 231, 350, 234, 143, 2, -1, 237, 431, 228, 432, 430, 433, 108,
   197, 300, 100, 269, 118, 93, 194, 240, 422, 449, 299, 130, 275, 312, 244, 318, 183, 141, 220,
   -1, -1, 50, 202, 49, 201, 47, 200, 80, 205, -1, 105, -1, 368, 132, 65, 20, 188, 64, 96, 355,
   171, 211, 165, 209, 76, 77, 147, 367, 365, 224, 78>>
i386_2 == <<
  24, 199, -1, 229, -1, -1, -1, 112, 128, 292, 291, 332, 293, 249, 246, 247, 385, 416, 245, 248,
   426, 427, 425, 54, 101, 110, 290, 289, 117, 349, -1, -1, 283, 288, 37, 445, 444, 446, 16,
   198, 230, 9, 303, 363, 232, 233, 253, 236, 19, 227, 107, 196, 219, 274, 375, 356, 447, -1,
   294, 218, 39, 296, 14, 297, 150, 376, 152, 90, 192, 123, 21, 442, 429, 317, 125, 282, 281,
   277, 280, 419, 279, 418, 278, 163, 402, 399, 401, 400, 144, -1, 151, 153, 91, 341, 162, -1,
   169, 34, -1, -1, 28, 84, 59, 18, -1, 109, 5, 342, 428, 295, 437, -1, -1, -1, -1, -1, -1, -1,
   -1, -1, -1, -1, -1, -1, -1, -1, -1, -1, -1, -1, -1, -1, -1, -1, -1, -1, -1, -1, -1, -1, -1,
   -1, -1, -1, -1, -1, -1, -1, -1, -1>>
i386_3 == <<
  -1, -1, -1, -1, -1, -1, -1, -1, -1, -1, -1, -1, -1, -1, -1, -1, -1, -1, -1, -1, -1, -1, -1,
   -1, -1, -1, -1, -1, -1, -1, -1, -1, -1, -1, -1, -1, -1, -1, -1, -1, -1, -1, -1, -1, -1, -1,
   -1, -1, -1, -1, -1, -1, -1, -1, -1, -1, -1, -1, -1, -1, -1, -1, -1, -1, -1, -1, -1, -1, -1,
   -1, -1, -1, 29, -1, -1, -1, 336, -1, 136, 438, 434, 424, 42, 331, 217, 381, 382, 380, 168,
   309, 414, 172, 180, 333, 378, 340, 440, 448, 347, 348, 308, 413, 26, 181, 334, 379, 167, 131,
   443, 3, 225, 89, 85, 305, 145, 88, -1, 371, 337, 417, 372, 257, 235, 38, 302, 353, 287, 0,
   -1, 40, 386, 174, 176, 175, 178, 173, 179, 177, 421, 335, -1, -1, -1, -1, -1, -1, -1, 159,
   160, 242>>
i386_4 == <<
  352, 155, 157, 161, 423, -1, 241, 351, 154, 156, 158, 354, 82, 394, 393, -1, -1, 420, -1, 187,
   239, 345, 370, 369, 276, 450, 311, 243, 258, 121, 139, 216, 138, 215, 46, 214, 81, 206, -1,
   74, 104, 346, 57, -1, 97, 71, 204, 170, 210, 164, 208, 70, 203, 75, 66, 366, 79, 23, 213,
   226, 68, 397, 396, 398, 395, 373, 67, 186, 48, 321, 327, 73, 126, 119, 72, 359, 102, 360,
   313, -1, -1, 69, 106, 195, 99, 268, 383, 25, -1, -1, 115, 87, -1, 83, 304, 36, 314, -1, 344,
   -1, -1, 135, 116, 103, -1, 315, 270, 13, 259, 263, 262, 261, 408, 260, 409, -1, 322, 326,
   410, 325, 411, 43, 238, 92, 193, 191, 60, 22, 52, 122, 10, 301, 310, 86, 374, 62, 30, 320,
   412, 271, -1, 190, 111, 166, 113, 316, 114, 284, 7, 4, 146>>

ia64_1 == <<
  -1, -1, 1150, 1194, 1334, 1049, 1064, 1271, 1131, -1, -1, -1, -1, -1, -1, -1, -1, 1138, 1191,
   1341, 1060, -1, -1, 1185, 1186, 1034, 1038, 1039, -1, 1068, 1328, -1, 1255, -1, 1254, -1,
   1256, -1, 1253, -1, 1128, 1213, -1, 1029, 1460, 1192, 1347, 1030, -1, 1134, -1, 1057, 1070,
   1316, 1243, 1315, 1244, -1, 1305, 1465, 1245, -1, 1309, 1314, -1, -1, 1033, 1342, 1025, 1236,
   1293, 1463, 1234, -1, 1303, 1323, 1324, 1035, 1099, 1292, 1100, -1, 1284, 1066, -1, 1052,
   1222, 1335, 1225, 1145, -1, -1, 1228, 1455, 1219, 1456, 1454, 1457, 1212, -1, -1, 1104, 1257,
   1051, 1098, -1, 1230, -1, 1473, 1285, -1, 1260, 1299, -1, 1304, 1184, 1144, 1214, -1, -1,
   1063, -1, 1047, -1, 1062, -1, 1077, -1, -1, 1119, -1, 1196, 1079, -1, 1041, 1188, 1042, 1101,
   1339, 1075, -1, 1073, -1, 1085, 1086, 1082, 1195, 1204, 1105, 1087>>
ia64_2 == <<
  1046, -1, 1215, 1220, -1, -1, -1, -1, 1133, 1278, 1277, 1318, 1279, 1242, 1239, 1240, 1351,
   -1, 1238, 1241, 1450, 1451, 1449, 1065, -1, -1, 1275, 1274, -1, 1345, -1, -1, 1268, 1273,
   1053, 1469, 1468, 1470, 1124, -1, 1221, 1031, 1289, 1193, 1223, 1224, 1237, 1227, 1040, 1218,
   1211, -1, 1209, 1259, 1344, 1340, -1, -1, 1280, 1208, 1055, 1282, 1037, 1283, 1153, 1346,
   1154, 1151, 1172, -1, 1043, 1466, 1453, 1276, 1155, 1267, 1266, 1262, 1265, -1, 1264, -1,
   1263, 1156, 1112, 1109, 1111, 1110, 1157, -1, 1158, 1159, 1152, 1326, 1168, 1286, 1169, -1,
   -1, 1171, -1, -1, -1, -1, -1, -1, 1028, 1327, 1452, 1281, 1461, -1, -1, -1, -1, -1, -1, -1,
   -1, -1, -1, -1, -1, -1, -1, -1, -1, -1, -1, -1, -1, -1, -1, -1, -1, -1, -1, -1, -1, -1, -1,
   -1, -1, -1, -1, -1, -1, -1, -1, -1>>
ia64_3 == <<
  -1, -1, -1, -1, -1, -1, -1, -1, -1, -1, -1, -1, -1, -1, -1, -1, -1, -1, -1, -1, -1, -1, -1,
   -1, -1, -1, -1, -1, -1, -1, -1, -1, -1, -1, -1, -1, -1, -1, -1, -1, -1, -1, -1, -1, -1, -1,
   -1, -1, -1, -1, -1, -1, -1, -1, -1, -1, -1, -1, -1, -1, -1, -1, -1, -1, -1, -1, -1, -1, -1,
   -1, -1, -1, -1, -1, 1173, 1174, 1352, -1, 1140, 1462, 1458, 1448, 1058, 1317, 1207, 1355,
   1356, 1354, 1090, 1295, -1, 1170, 1148, 1319, 1348, 1325, 1464, 1472, 1332, 1333, 1294, -1,
   1048, 1149, 1320, 1349, -1, 1137, 1467, 1026, 1216, -1, 1092, 1291, 1146, 1096, 1200, 1201,
   1322, -1, 1206, 1125, 1226, 1054, 1288, 1338, 1272, 1246, -1, 1056, 1357, 1177, 1178, 1179,
   1180, 1181, 1182, 1183, -1, 1321, -1, -1, -1, -1, -1, -1, -1, 1165, 1166, 1232>>
ia64_4 == <<
  1337, 1160, 1162, 1167, -1, -1, 1231, 1336, 1161, 1163, 1164, 1353, 1089, 1108, 1106, 1107,
   1247, -1, 1198, 1187, -1, 1331, 1205, 1199, 1261, 1474, 1298, -1, 1233, 1129, 1143, -1, 1142,
   -1, 1061, -1, 1078, -1, -1, 1083, 1118, 1330, 1080, -1, 1102, 1072, -1, 1076, -1, 1074, -1,
   1071, -1, 1084, 1081, 1203, 1088, 1045, -1, 1217, -1, 1114, 1116, 1115, 1113, 1202, -1, 1176,
   -1, 1307, 1313, -1, -1, -1, -1, 1190, -1, 1197, 1297, -1, -1, -1, 1210, -1, 1103, 1258, 1350,
   -1, -1, -1, 1095, 1094, -1, 1091, 1290, 1050, 1300, -1, 1329, -1, -1, 1139, 1127, 1117, -1,
   1301, 1235, -1, 1248, 1252, 1251, 1250, -1, 1249, -1, 1308, 1310, 1312, -1, 1311, -1, 1059,
   1229, 1097, -1, -1, 1067, 1044, 1044, 1130, 1032, 1287, 1296, 1093, 1343, 1069, -1, 1306, -1,
   1036, -1, -1, 1123, -1, -1, 1302, 1126, 1270, -1, 1027, 1147>>

loongarch64_1 == <<
  -1, -1, -1, 202, 242, -1, 89, 217, 171, -1, -1, -1, -1, -1, -1, -1, -1, -1, 200, 280, 214, -1,
   -1, 90, 91, 49, -1, -1, -1, 51, 266, -1, 114, -1, 113, -1, 115, -1, 112, -1, 220, -1, 435,
   57, 436, 203, 285, -1, -1, 106, -1, 23, -1, 24, -1, 20, 21, -1, 22, 441, -1, -1, -1, 19, -1,
   -1, 221, 281, 93, 94, 48, 439, 223, -1, 47, 262, 263, 50, 52, 53, 55, -1, 54, 25, -1, 83, 10,
   273, 13, 32, -1, -1, 16, 431, 7, 432, 430, 433, -1, -1, -1, 44, -1, 82, 46, -1, 98, -1, 449,
   -1, -1, 236, 100, -1, 168, 17, -1, 61, -1, -1, 177, -1, 175, -1, 176, -1, 158, -1, -1, 102,
   -1, 205, 155, -1, 172, -1, 173, 141, 278, 150, -1, 148, -1, -1, 165, 156, 204, 209, 178, 169>>
loongarch64_2 == <<
  174, -1, -1, 8, -1, -1, -1, -1, 105, 27, -1, 26, 28, 3, 1, 4, 292, -1, 0, 2, 426, 427, 425,
   29, -1, -1, 31, 30, -1, 272, -1, 294, 104, 219, 129, 445, 444, 446, -1, -1, 9, -1, 37, 201,
   11, 12, 18, 15, 62, 6, -1, -1, 233, 235, 283, 279, -1, -1, 238, 232, -1, 34, -1, 33, 228,
   284, 230, 222, -1, -1, 40, 442, 429, 239, 226, 185, 184, 180, 183, -1, 182, -1, 181, 216,
   187, 186, 188, 189, 227, -1, 229, 231, 215, 264, 101, -1, 42, -1, -1, -1, -1, -1, -1, -1, -1,
   -1, -1, 265, 428, 56, 437, -1, -1, -1, -1, -1, -1, -1, -1, -1, -1, -1, -1, -1, -1, -1, -1,
   -1, -1, -1, -1, -1, -1, -1, -1, -1, -1, -1, -1, -1, -1, -1, -1, -1, -1, -1, -1, -1, -1, -1>>
loongarch64_3 == <<
  -1, -1, -1, -1, -1, -1, -1, -1, -1, -1, -1, -1, -1, -1, -1, -1, -1, -1, -1, -1, -1, -1, -1,
   -1, -1, -1, -1, -1, -1, -1, -1, -1, -1, -1, -1, -1, -1, -1, -1, -1, -1, -1, -1, -1, -1, -1,
   -1, -1, -1, -1, -1, -1, -1, -1, -1, -1, -1, -1, -1, -1, -1, -1, -1, -1, -1, -1, -1, -1, -1,
   -1, -1, -1, -1, -1, -1, -1, 241, -1, 92, 438, 434, 424, -1, 59, 41, 289, 290, 288, -1, 73,
   -1, 167, 67, 69, 286, 261, 440, 448, 270, 271, 72, -1, 117, 68, 70, 287, -1, 60, 443, 63,
   213, -1, -1, 78, 65, 142, -1, 207, 243, -1, 212, 234, 14, -1, -1, 276, 218, 128, -1, -1, 293,
   134, 136, 135, 138, 139, 133, 137, -1, 240, -1, -1, -1, -1, -1, -1, -1, 125, 126, 123>>
loongarch64_4 == <<
  275, 121, 120, 127, -1, -1, 122, 274, 118, 119, 124, 277, -1, 191, 190, 193, 192, -1, -1, 71,
   -1, 269, 211, 206, 237, 450, 99, -1, 96, 162, 152, -1, 151, -1, 144, -1, 159, -1, -1, 161,
   103, 268, 154, -1, 140, 143, -1, 149, -1, 147, -1, 145, -1, -1, 157, 208, 170, 146, -1, 5,
   -1, 196, 195, 197, 194, 210, -1, 132, -1, -1, 74, -1, -1, -1, -1, 198, -1, 199, 76, -1, -1,
   -1, -1, -1, 43, -1, 291, -1, -1, -1, 225, 224, -1, -1, 36, 81, 84, -1, 267, -1, -1, -1, 179,
   116, -1, 77, 131, -1, 107, 111, 109, 108, -1, 110, -1, -1, 85, 87, -1, 86, -1, 153, 130, 45,
   -1, -1, 166, -1, 39, 160, -1, 35, 97, -1, 282, -1, -1, 88, -1, -1, -1, -1, 58, -1, -1, 75,
   260, 95, -1, 64, 66>>

m68k_1 == <<
  140, 142, 149, -1, 361, 33, 51, 279, 124, 27, -1, -1, -1, -1, -1, 336, 335, 134, 358, 354, 45,
   -1, 123, 184, 185, 12, 15, 16, 198, 61, 342, 405, 261, 406, 260, 403, 262, 407, 259, 404,
   120, -1, 435, 6, 436, 359, 376, 8, 127, 129, -1, 41, 63, 326, 249, 325, 250, -1, 315, 441,
   251, -1, 319, 324, -1, -1, 11, 355, 1, 247, 300, 439, 246, 267, 320, 337, 338, 133, 94, 299,
   95, 207, 291, 55, 239, 148, 228, 348, 231, 143, 2, -1, 234, 431, 225, 432, 430, 433, 108,
   197, 293, 100, 264, 118, 93, 194, 235, 422, 449, 292, 130, 269, 305, 333, 314, 183, 141, 220,
   -1, -1, 50, 202, 49, 201, 47, 200, 80, 205, -1, 105, 166, 365, 132, 65, 20, 188, 64, 96, 352,
   171, 211, 165, 209, 76, 77, 147, 364, 362, 221, 78>>
m68k_2 == <<
  24, 199, -1, 226, -1, -1, -1, -1, 128, 285, 284, 328, 286, 245, 242, 243, -1, 416, 241, 244,
   426, 427, 425, 54, -1, -1, 283, 282, 117, 347, -1, -1, 313, 281, 37, 445, 444, 446, 182, 212,
   227, 9, 296, 360, 229, 230, 248, 233, 19, 224, 107, 196, 238, 268, 374, 353, -1, -1, 287,
   237, 39, 289, 14, 290, 150, 375, 152, 90, 192, -1, 21, 442, 429, 310, 125, 276, 275, 271,
   274, 419, 273, 418, 272, 163, 402, 399, 401, 400, 144, -1, 151, 153, 91, 340, 162, -1, 169,
   34, -1, -1, 28, 84, -1, 18, -1, -1, 5, 341, 428, 288, 437, -1, -1, -1, -1, -1, -1, -1, -1,
   -1, -1, -1, -1, -1, -1, -1, -1, -1, -1, -1, -1, -1, -1, -1, -1, -1, -1, -1, -1, -1, -1, -1,
   -1, -1, -1, -1, -1, -1, -1, -1>>
m68k_3 == <<
  -1, -1, -1, -1, -1, -1, -1, -1, -1, -1, -1, -1, -1, -1, -1, -1, -1, -1, -1, -1, -1, -1, -1,
   -1, -1, -1, -1, -1, -1, -1, -1, -1, -1, -1, -1, -1, -1, -1, -1, -1, -1, -1, -1, -1, -1, -1,
   -1, -1, -1, -1, -1, -1, -1, -1, -1, -1, -1, -1, -1, -1, -1, -1, -1, -1, -1, -1, -1, -1, -1,
   -1, -1, -1, 29, -1, -1, -1, 332, -1, 136, 438, 434, 424, 42, 327, 217, 382, 383, 381, 168,
   302, 414, 172, 180, 329, 377, 339, 440, 448, 345, 346, 301, 413, 26, 181, 330, 378, 167, 131,
   443, 3, 240, 89, 85, 298, 145, 88, -1, 368, 371, 417, 369, 252, 232, 38, 295, 351, 280, 0,
   -1, 40, 384, 174, 176, 175, 178, 173, 179, 177, 421, 331, -1, -1, -1, -1, -1, -1, -1, 159,
   160, 312>>
m68k_4 == <<
  350, 155, 157, 161, 423, -1, 311, 349, 154, 156, 158, 380, 82, 394, 393, -1, -1, 420, -1, 187,
   236, 372, 367, 366, 270, 450, 304, 334, 253, 121, 139, 216, 138, 215, 46, 214, 81, 206, -1,
   74, 104, 344, 57, -1, 97, 71, 204, 170, 210, 164, 208, 70, 203, 75, 66, 363, 79, 23, 213,
   223, 68, 397, 396, 398, 395, 370, 67, 186, 48, 317, 323, 73, 126, 119, 72, 356, 102, 357,
   306, -1, -1, 69, 106, 195, 99, 263, 379, 25, -1, -1, 115, 87, -1, 83, 297, 36, 307, -1, 343,
   -1, -1, 135, 116, 103, -1, 308, 265, 13, 254, 258, 257, 256, 408, 255, 409, -1, 318, 322,
   410, 321, 411, 43, 222, 92, 193, 191, 60, 22, 52, 122, 10, 294, 303, 86, 373, 62, 30, 316,
   412, 266, -1, 190, 111, -1, -1, 309, 114, 277, 7, 4, 146>>

microblaze_1 == <<
  140, 142, 149, 349, 362, 33, 51, 286, 124, 27, -1, -1, -1, -1, -1, -1, -1, 134, 347, 387, 45,
   -1, -1, 184, 185, 12, 15, 182, 212, 61, 373, 405, 266, 406, 265, 403, 267, 407, 264, 404,
   120, -1, 435, 6, 436, 350, 392, 8, 127, 129, -1, 41, 63, 342, 254, 341, 255, -1, 319, 441,
   256, -1, 323, 340, -1, -1, 11, 388, 1, 252, 307, 439, 250, 272, 324, 368, 369, 133, 94, 306,
   95, 207, 298, 55, 221, 148, 231, 380, 234, 143, 2, -1, 237, 431, 228, 432, 430, 433, 108,
   197, 300, 100, 269, 118, 93, 194, 240, 422, 449, 299, 130, 275, 312, 244, 318, 183, 141, 220,
   -1, -1, 50, 202, 49, 201, 47, 200, 80, 205, -1, 105, -1, 352, 132, 65, 20, 188, 64, 96, 385,
   171, 211, 165, 209, 76, 77, 147, 351, 358, 224, 78>>
microblaze_2 == <<
  24, 199, -1, 229, -1, -1, -1, 112, 128, 292, 291, 344, 293, 249, 246, 247, 399, 416, 245, 248,
   426, 427, 425, 54, 101, 110, 290, 289, 117, 379, -1, -1, 283, 288, 37, 445, 444, 446, 16,
   198, 230, 9, 303, 348, 232, 233, 253, 236, 19, 227, 107, 196, 219, 274, 390, 386, -1, -1,
   294, 218, 39, 296, 14, 297, 150, 391, 152, 90, 192, 123, 21, 442, 429, 317, 125, 282, 281,
   277, 280, 419, 279, 418, 278, 163, 331, 332, 333, 334, 144, -1, 151, 153, 91, 371, 162, -1,
   169, 34, -1, -1, 28, 84, 59, 18, -1, 109, 5, 372, 428, 295, 437, -1, -1, -1, -1, -1, -1, -1,
   -1, -1, -1, -1, -1, -1, -1, -1, -1, -1, -1, -1, -1, -1, -1, -1, -1, -1, -1, -1, -1, -1, -1,
   -1, -1, -1, -1, -1, -1, -1, -1, -1>>
microblaze_3 == <<
  -1, -1, -1, -1, -1, -1, -1, -1, -1, -1, -1, -1, -1, -1, -1, -1, -1, -1, -1, -1, -1, -1, -1,
   -1, -1, -1, -1, -1, -1, -1, -1, -1, -1, -1, -1, -1, -1, -1, -1, -1, -1, -1, -1, -1, -1, -1,
   -1, -1, -1, -1, -1, -1, -1, -1, -1, -1, -1, -1, -1, -1, -1, -1, -1, -1, -1, -1, -1, -1, -1,
   -1, -1, -1, 29, -1, -1, -1, 366, -1, 136, 438, 434, 424, 42, 343, 217, 396, 397, 395, 168,
   309, 414, 172, 180, 363, 393, 370, 440, 448, 377, 378, 308, 413, 26, 181, 364, 394, 167, 131,
   443, 3, 225, 89, 85, 305, 145, 88, 356, 355, 367, 417, 361, 257, 235, 38, 302, 383, 287, 0,
   -1, 40, 400, 174, 176, 175, 178, 173, 179, 177, 421, 365, -1, -1, -1, -1, -1, -1, -1, 159,
   160, 242>>
microblaze_4 == <<
  382, 155, 157, 161, 423, -1, 241, 381, 154, 156, 158, 384, 82, 328, 329, 330, 325, 420, 354,
   187, 239, 376, 360, 353, 276, 450, 311, 243, 258, 121, 139, 216, 138, 215, 46, 214, 81, 206,
   -1, 74, 104, 375, 57, -1, 97, 71, 204, 170, 210, 164, 208, 70, 203, 75, 66, 357, 79, 23, 213,
   226, 68, 335, 336, 337, 338, 359, 67, 186, 48, 321, 339, 73, 126, 119, 72, 345, 102, 346,
   313, -1, -1, 69, 106, 195, 99, 268, 398, 25, -1, -1, 115, 87, -1, 83, 304, 36, 314, -1, 374,
   -1, -1, 135, 116, 103, -1, 315, 270, 13, 259, 263, 262, 261, 408, 260, 409, -1, 322, 327,
   410, 326, 411, 43, 238, 92, 193, 191, 60, 22, 52, 122, 10, 301, 310, 86, 389, 62, 30, 320,
   412, 271, -1, 190, 111, 166, 113, 316, 114, 284, 7, 4, 146>>

mips64_1 == <<
  -1, 5022, 5152, 5042, 5293, 5020, 5158, 5239, 5154, 5037, -1, -1, -1, -1, -1, -1, -1, -1,
   5048, 5315, 5012, 5198, 5197, 5123, 5124, 5078, 5088, 5090, -1, 5156, 5300, -1, 5223, -1,
   5222, -1, 5224, -1, 5221, -1, 5055, -1, 5435, 5003, 5436, 5041, 5320, 5083, 5167, 5169, -1,
   5031, 5032, 5286, 5207, 5285, 5208, -1, 5272, 5441, 5209, -1, 5278, 5284, -1, -1, 5057, 5316,
   5058, 5205, 5259, 5439, 5215, -1, 5279, 5295, 5296, 5079, 5089, 5258, 5091, -1, 5250, 5070,
   -1, 5073, 5185, 5307, 5188, 5071, 5056, -1, 5191, 5431, 5182, 5432, 5430, 5433, 5005, -1, -1,
   5135, -1, 5072, 5075, -1, 5194, -1, 5449, 5251, 5170, 5228, 5269, -1, 5271, 5077, 5076, 5308,
   -1, -1, 5106, -1, 5105, -1, 5102, -1, 5113, -1, -1, 5035, -1, 5051, 5119, 5109, 5038, 5174,
   5108, 5137, 5313, 5118, -1, 5116, -1, 5095, 5096, 5122, 5050, 5054, 5178, 5094>>
mips64_2 == <<
  5100, -1, -1, 5183, -1, -1, -1, -1, 5168, 5244, 5243, 5288, 5245, 5204, 5201, 5202, 5328, -1,
   5200, 5203, 5426, 5427, 5425, 5015, -1, -1, 5274, 5273, -1, 5306, -1, -1, 5270, 5241, 5060,
   5445, 5444, 5446, 5092, -1, 5184, 5084, 5255, 5049, 5186, 5187, 5206, 5190, 5008, 5181, 5006,
   -1, 5027, 5227, 5318, 5314, -1, -1, 5246, 5026, 5081, 5248, 5131, 5249, 5146, 5319, 5148,
   5009, -1, -1, 5160, 5442, 5429, 5267, 5010, 5235, 5234, 5230, 5233, -1, 5232, -1, 5231, 5024,
   5069, 5066, 5068, 5067, 5025, -1, 5147, 5149, 5011, 5298, 5034, 5252, 5173, -1, -1, -1, -1,
   -1, -1, -1, -1, -1, 5002, 5299, 5428, 5247, 5437, -1, -1, -1, -1, -1, -1, -1, -1, -1, -1, -1,
   -1, -1, -1, -1, -1, -1, -1, -1, -1, -1, -1, -1, -1, -1, -1, -1, -1, -1, -1, -1, -1, -1, -1,
   -1, -1, -1, -1, -1>>
mips64_3 == <<
  -1, -1, -1, -1, -1, -1, -1, -1, -1, -1, -1, -1, -1, -1, -1, -1, -1, -1, -1, -1, -1, -1, -1,
   -1, -1, -1, -1, -1, -1, -1, -1, -1, -1, -1, -1, -1, -1, -1, -1, -1, -1, -1, -1, -1, -1, -1,
   -1, -1, -1, -1, -1, -1, -1, -1, -1, -1, -1, -1, -1, -1, -1, -1, -1, -1, -1, -1, -1, -1, -1,
   -1, -1, -1, 5033, -1, -1, -1, 5292, -1, 5132, 5438, 5434, 5424, 5021, 5287, 5151, 5324, 5325,
   5323, 5007, 5261, -1, 5153, 5016, 5289, 5321, 5297, 5440, 5448, 5304, 5305, 5260, -1, 5099,
   5017, 5290, 5322, 5171, 5172, 5443, 5000, 5179, -1, 5087, 5257, 5018, 5164, -1, 5044, 5294,
   -1, 5046, 5210, 5189, 5080, 5254, 5311, 5240, 5213, -1, 5082, 5327, 5013, 5125, 5014, 5127,
   5211, 5128, 5126, -1, 5291, -1, -1, -1, -1, -1, -1, -1, 5143, 5144, 5196>>
mips64_4 == <<
  5310, 5140, 5142, 5145, -1, -1, 5195, 5309, 5139, 5141, 5023, 5312, -1, 5064, 5062, 5063,
   5214, -1, -1, 5039, -1, 5302, 5045, 5043, 5229, 5450, 5268, 5242, 5212, 5166, 5121, -1, 5120,
   -1, 5104, -1, 5114, -1, -1, 5165, 5036, 5303, 5107, -1, 5138, 5112, -1, 5117, -1, 5115, -1,
   5111, -1, 5155, 5110, 5053, 5159, 5103, -1, 5180, -1, 5029, 5030, 5065, 5028, 5047, -1, 5129,
   -1, 5276, 5283, -1, -1, -1, -1, 5040, -1, 5052, 5263, -1, -1, -1, 5004, -1, 5134, -1, 5326,
   -1, -1, -1, 5163, 5162, -1, 5086, 5256, 5157, 5264, -1, 5301, -1, -1, 5136, 5097, 5101, 5199,
   5265, 5225, -1, 5216, 5220, 5219, 5218, -1, 5217, -1, 5277, 5280, 5281, -1, 5282, -1, 5098,
   5192, 5074, -1, -1, 5093, -1, 5161, 5061, 5085, 5253, 5262, -1, 5317, 5133, 5130, 5275, -1,
   5226, -1, -1, 5150, -1, -1, 5266, 5059, 5237, -1, 5001, 5019>>

parisc_1 == <<
  140, 142, 149, 35, 320, 33, 51, 264, 124, 27, -1, -1, -1, -1, -1, -1, -1, 134, 22, 341, 45,
   -1, -1, 106, 107, 12, 15, 180, -1, 61, 324, 405, 257, 406, 256, 403, 258, 407, 255, 404, 120,
   -1, 435, 6, 436, 31, 346, 8, -1, 129, -1, 41, 63, 312, 224, 311, 225, -1, 297, 441, 226, -1,
   304, 310, -1, -1, 11, 342, 1, 222, 287, 439, -1, 236, 305, 322, 323, 133, 94, 286, 95, -1,
   278, 55, 202, 148, 243, 333, 246, 143, 2, -1, 249, 431, 240, 432, 430, 433, 28, 112, 280,
   100, 299, 118, 93, 200, 210, 422, 449, 279, -1, 261, 290, -1, 296, 110, 141, 201, -1, -1, 50,
   -1, 49, -1, 47, -1, 80, -1, -1, 105, -1, 53, 132, 65, 20, -1, 64, 96, 339, 171, -1, 165, -1,
   76, 77, 147, 44, 182, 206, 78>>
parisc_2 == <<
  24, -1, -1, 241, -1, -1, -1, -1, 128, 270, 269, 314, 271, 219, 216, 217, 350, 416, 215, 218,
   426, 427, 425, 54, -1, -1, 268, 267, -1, 332, -1, 355, 300, 266, 37, 445, 444, 446, 16, -1,
   242, 9, 283, 32, 244, 245, 223, 248, 19, 239, 84, 198, 119, 260, 343, 340, -1, -1, 272, 72,
   39, 276, 14, 277, 150, 345, 152, 90, 89, -1, 21, 442, 429, 295, 125, 234, 233, 229, 232, 419,
   231, 418, 230, 163, 191, 190, 189, 188, 144, -1, 151, 153, 91, 325, 162, -1, -1, 34, -1, -1,
   -1, -1, -1, -1, -1, -1, 5, 326, 428, 275, 437, -1, -1, -1, -1, -1, -1, -1, -1, -1, -1, -1,
   -1, -1, -1, -1, -1, -1, -1, -1, -1, -1, -1, -1, -1, -1, -1, -1, -1, -1, -1, -1, -1, -1, -1,
   -1, -1, -1, -1, -1>>
parisc_3 == <<
  -1, -1, -1, -1, -1, -1, -1, -1, -1, -1, -1, -1, -1, -1, -1, -1, -1, -1, -1, -1, -1, -1, -1,
   -1, -1, -1, -1, -1, -1, -1, -1, -1, -1, -1, -1, -1, -1, -1, -1, -1, -1, -1, -1, -1, -1, -1,
   -1, -1, -1, -1, -1, -1, -1, -1, -1, -1, -1, -1, -1, -1, -1, -1, -1, -1, -1, -1, -1, -1, -1,
   -1, -1, -1, 29, -1, -1, -1, 318, -1, 136, 438, 434, 424, 42, 313, 67, 352, 353, 351, 168,
   274, 414, 172, 108, 315, 347, 321, 440, 448, 330, 331, 273, 413, 26, 109, 316, 348, -1, 131,
   443, 3, 207, -1, 85, 285, 145, 88, 98, 123, 319, 417, 184, 227, 247, 38, 282, 337, 265, 0,
   -1, 40, 354, 174, 176, 175, 178, 173, 179, 177, 421, 317, -1, -1, -1, -1, -1, -1, -1, 159,
   160, 212>>
parisc_4 == <<
  335, 155, 157, 161, 423, -1, 211, 334, 154, 156, 158, 338, -1, 187, 186, 185, 228, 420, 58,
   122, 209, 329, 183, 82, 262, 450, 289, -1, 237, 121, 139, -1, 138, -1, 46, -1, 81, -1, -1,
   74, 104, 328, 57, -1, 97, 71, -1, 170, -1, 164, -1, 70, -1, 75, 66, 181, 79, 23, -1, 238, 68,
   192, 195, 193, 194, 117, -1, 166, 48, 302, 309, 73, 126, -1, -1, 17, -1, 56, 291, -1, -1, 69,
   18, 101, 99, 298, 349, 25, -1, -1, 115, 87, -1, 83, 284, 36, 292, -1, 327, -1, -1, 135, 116,
   103, -1, 293, 259, 13, 250, 254, 253, 252, 408, 251, 409, -1, 306, 308, 410, 307, 411, 43,
   208, 92, 199, -1, 60, -1, 52, 59, 10, 281, 288, 86, 344, 62, 30, 301, 412, 336, -1, 113, 111,
   -1, -1, 294, 114, 235, 7, 4, 146>>

riscv32_1 == <<
  -1, -1, -1, 202, 242, -1, 89, 217, -1, -1, -1, -1, -1, -1, -1, -1, -1, -1, 200, 280, 214, -1,
   -1, 90, 91, 49, -1, -1, -1, 51, -1, 405, -1, 406, -1, 403, -1, 407, -1, 404, 220, -1, 435,
   57, 436, 203, 285, -1, -1, 106, -1, 23, -1, 24, -1, 20, 21, -1, 22, 441, -1, -1, -1, 19, -1,
   -1, 221, 281, 93, 94, 48, 439, -1, 223, 47, 262, 263, 50, 52, 53, 55, -1, 54, -1, 25, 83, 10,
   273, 13, 32, -1, -1, 16, 431, 7, 432, 430, 433, -1, -1, -1, -1, 44, 82, -1, 46, -1, 422, 449,
   -1, -1, 236, 100, -1, 168, 17, -1, 61, -1, -1, 177, -1, 175, -1, 176, -1, 158, -1, -1, 102,
   -1, 205, 155, -1, 172, -1, 173, 141, 278, 150, -1, 148, -1, -1, 165, 156, 204, 209, 178, -1>>
riscv32_2 == <<
  174, -1, -1, 8, -1, -1, -1, -1, 105, 27, -1, 26, 28, 3, 1, -1, -1, 416, 0, 2, 426, 427, 425,
   29, -1, -1, 31, 30, -1, 272, -1, 294, 104, 219, 129, 445, 444, 446, -1, -1, 9, -1, 37, 201,
   11, 12, 18, 15, -1, 6, -1, -1, 233, 235, 283, 279, 447, -1, 238, 232, -1, 34, -1, 33, 228,
   284, 230, -1, 222, -1, 40, 442, 429, 239, 226, 185, 184, 180, -1, 419, -1, 418, 181, 216,
   187, 186, 188, 189, 227, -1, 229, 231, 215, 264, -1, -1, 42, -1, -1, -1, -1, -1, -1, -1, -1,
   -1, -1, 265, 428, 56, 437, -1, -1, -1, -1, -1, -1, -1, -1, -1, -1, -1, -1, -1, -1, -1, -1,
   -1, -1, -1, -1, -1, -1, -1, -1, -1, -1, -1, -1, -1, -1, -1, -1, -1, -1, -1, -1, -1, -1, -1>>
riscv32_3 == <<
  -1, -1, -1, -1, -1, -1, -1, -1, -1, -1, -1, -1, -1, -1, -1, -1, -1, -1, -1, -1, -1, -1, -1,
   -1, -1, -1, -1, -1, -1, -1, -1, -1, -1, -1, -1, -1, -1, -1, -1, -1, -1, -1, -1, -1, -1, -1,
   -1, -1, -1, -1, -1, -1, -1, -1, -1, -1, -1, -1, -1, -1, -1, -1, -1, -1, -1, -1, -1, -1, -1,
   -1, -1, -1, -1, -1, -1, -1, 241, -1, 92, 438, 434, 424, -1, 59, 41, 289, 290, 288, -1, -1,
   414, 167, 67, 69, 286, 261, 440, 448, 270, 271, -1, 413, 117, 68, 70, 287, -1, 60, 443, 63,
   213, -1, -1, 78, 65, 142, -1, 207, -1, 417, 212, 234, 14, -1, -1, 276, 218, 128, 259, -1,
   293, 134, 136, 135, 138, 139, 133, -1, 421, 240, -1, -1, -1, -1, -1, -1, -1, 125, 126, 123>>
riscv32_4 == <<
  275, 121, 120, -1, 423, -1, 122, 274, 118, 119, 124, 277, -1, 191, 190, 193, -1, 420, -1, -1,
   71, 269, 211, 206, 237, 450, 99, -1, 96, 162, 152, -1, 151, -1, 144, -1, 159, -1, -1, 161,
   103, 268, 154, -1, 140, 143, -1, 149, -1, 147, -1, 145, -1, -1, 157, 208, -1, 146, -1, 5, -1,
   196, 195, 197, 194, 210, -1, 132, -1, -1, 74, -1, -1, -1, -1, 198, -1, 199, 76, -1, -1, -1,
   -1, -1, -1, 43, 291, -1, -1, -1, 225, 224, -1, -1, 36, 81, 84, -1, 267, -1, -1, -1, 179, 116,
   -1, 77, 131, -1, 107, 111, 109, -1, 408, -1, 409, -1, 85, -1, 410, -1, 411, 153, 130, -1, 45,
   -1, 166, -1, 39, 160, -1, 35, 97, -1, 282, -1, -1, -1, 412, -1, -1, -1, 58, -1, -1, 75, -1,
   95, -1, 64, 66>>

riscv64_1 == <<
  -1, -1, -1, 202, 242, -1, 89, 217, 171, -1, -1, -1, -1, -1, -1, -1, -1, -1, 200, 280, 214, -1,
   -1, 90, 91, 49, -1, -1, -1, 51, 266, -1, 114, -1, 113, -1, 115, -1, 112, -1, 220, -1, 435,
   57, 436, 203, 285, -1, -1, 106, -1, 23, -1, 24, -1, 20, 21, -1, 22, 441, -1, -1, -1, 19, -1,
   -1, 221, 281, 93, 94, 48, 439, 223, -1, 47, 262, 263, 50, 52, 53, 55, -1, 54, 25, -1, 83, 10,
   273, 13, 32, -1, -1, 16, 431, 7, 432, 430, 433, 80, -1, -1, 44, -1, 82, 46, -1, 98, -1, 449,
   -1, -1, 236, 100, -1, 168, 17, -1, 61, -1, -1, 177, -1, 175, -1, 176, -1, 158, -1, -1, 102,
   -1, 205, 155, -1, 172, -1, 173, 141, 278, 150, -1, 148, -1, 163, 165, 156, 204, 209, 178, 169>>
riscv64_2 == <<
  174, -1, -1, 8, -1, -1, -1, -1, 105, 27, -1, 26, 28, 3, 1, 4, 292, -1, 0, 2, 426, 427, 425,
   29, -1, -1, 31, 30, -1, 272, -1, 294, 104, 219, 129, 445, 444, 446, -1, -1, 9, -1, 37, 201,
   11, 12, 18, 15, 62, 6, -1, -1, 233, 235, 283, 279, 447, -1, 238, 232, -1, 34, -1, 33, 228,
   284, 230, 222, -1, -1, 40, 442, 429, 239, 226, 185, 184, 180, 183, -1, 182, -1, 181, 216,
   187, 186, 188, 189, 227, -1, 229, 231, 215, 264, 101, 79, 42, -1, -1, -1, -1, -1, -1, -1, -1,
   -1, -1, 265, 428, 56, 437, -1, -1, -1, -1, -1, -1, -1, -1, -1, -1, -1, -1, -1, -1, -1, -1,
   -1, -1, -1, -1, -1, -1, -1, -1, -1, -1, -1, -1, -1, -1, -1, -1, -1, -1, -1, -1, -1, -1, -1>>
riscv64_3 == <<
  -1, -1, -1, -1, -1, -1, -1, -1, -1, -1, -1, -1, -1, -1, -1, -1, -1, -1, -1, -1, -1, -1, -1,
   -1, -1, -1, -1, -1, -1, -1, -1, -1, -1, -1, -1, -1, -1, -1, -1, -1, -1, -1, -1, -1, -1, -1,
   -1, -1, -1, -1, -1, -1, -1, -1, -1, -1, -1, -1, -1, -1, -1, -1, -1, -1, -1, -1, -1, -1, -1,
   -1, -1, -1, -1, -1, -1, -1, 241, -1, 92, 438, 434, 424, -1, 59, 41, 289, 290, 288, -1, 73,
   -1, 167, 67, 69, 286, 261, 440, 448, 270, 271, 72, -1, 117, 68, 70, 287, -1, 60, 443, 63,
   213, -1, -1, 78, 65, 142, -1, 207, 243, -1, 212, 234, 14, -1, -1, 276, 218, 128, 259, -1,
   293, 134, 136, 135, 138, 139, 133, 137, -1, 240, -1, -1, -1, -1, -1, -1, -1, 125, 126, 123>>
riscv64_4 == <<
  275, 121, 120, 127, -1, -1, 122, 274, 118, 119, 124, 277, -1, 191, 190, 193, 192, -1, -1, 71,
   -1, 269, 211, 206, 237, 450, 99, -1, 96, 162, 152, -1, 151, -1, 144, -1, 159, -1, -1, 161,
   103, 268, 154, -1, 140, 143, -1, 149, -1, 147, -1, 145, -1, 164, 157, 208, 170, 146, -1, 5,
   -1, 196, 195, 197, 194, 210, -1, 132, -1, -1, 74, -1, -1, -1, -1, 198, -1, 199, 76, -1, -1,
   -1, -1, -1, 43, -1, 291, -1, -1, -1, 225, 224, -1, -1, 36, 81, 84, -1, 267, -1, -1, -1, 179,
   116, -1, 77, 131, -1, 107, 111, 109, 108, -1, 110, -1, -1, 85, 87, -1, 86, -1, 153, 130, 45,
   -1, -1, 166, -1, 39, 160, -1, 35, 97, -1, 282, -1, -1, 88, -1, -1, -1, -1, 58, -1, -1, 75,
   260, 95, -1, 64, 66>>

s390_1 == <<
  140, 142, 149, -1, 364, 33, 51, 278, 124, 27, -1, -1, -1, -1, -1, -1, -1, 134, 361, 351, 45,
   -1, -1, 184, 185, 12, 15, 182, 212, 61, 337, 405, 261, 406, 260, 403, 262, 407, 259, 404,
   120, -1, 435, 6, 436, 362, 375, 8, 127, 129, -1, 41, 63, 326, 249, 327, 250, -1, 312, 441,
   251, -1, 318, 323, -1, -1, 11, 354, 1, 248, 300, 439, 253, 264, 314, 332, 333, 133, 94, 299,
   95, 207, 291, 55, 221, 148, 229, 344, 232, 143, 2, -1, 235, 431, 226, 432, 430, 433, 108,
   197, 293, 100, 266, 118, 93, 194, 238, 422, 449, 292, 130, 269, 305, -1, 311, 183, 141, 220,
   -1, -1, 50, 202, 49, 201, 47, 200, 80, 205, -1, 105, -1, 368, 132, 65, 20, 188, 64, 96, 349,
   171, 211, 165, 209, 76, 77, 147, 367, 365, 236, 78>>
s390_2 == <<
  24, 199, -1, 227, -1, -1, -1, 112, 128, 285, 284, 324, 286, 247, 244, 245, 382, 416, 243, 246,
   426, 427, 425, 54, 101, -1, 283, 282, 117, 343, -1, 381, 277, 280, 37, 445, 444, 446, 16,
   198, 228, 9, 296, 363, 230, 231, 110, 234, 19, 225, 107, 196, 219, 268, 356, 350, -1, -1,
   287, 218, 39, 289, 14, 290, 150, 374, 152, 90, 192, -1, 21, 442, 429, 310, 125, 276, 275,
   271, 274, 419, 273, 418, 272, 163, 402, 399, 401, 400, 144, -1, 151, 153, 91, 335, 162, -1,
   169, 34, -1, -1, -1, -1, -1, -1, -1, -1, 5, 336, 428, 288, 437, -1, -1, -1, -1, -1, -1, -1,
   -1, -1, -1, -1, -1, -1, -1, -1, -1, -1, -1, -1, -1, -1, -1, -1, -1, -1, -1, -1, -1, -1, -1,
   -1, -1, -1, -1, -1, -1, -1, -1, -1>>
s390_3 == <<
  -1, -1, -1, -1, -1, -1, -1, -1, -1, -1, -1, -1, -1, -1, -1, -1, -1, -1, -1, -1, -1, -1, -1,
   -1, -1, -1, -1, -1, -1, -1, -1, -1, -1, -1, -1, -1, -1, -1, -1, -1, -1, -1, -1, -1, -1, -1,
   -1, -1, -1, -1, -1, -1, -1, -1, -1, -1, -1, -1, -1, -1, -1, -1, -1, -1, -1, -1, -1, -1, -1,
   -1, -1, -1, 29, -1, -1, -1, 331, -1, 136, 438, 434, 424, 42, 325, 217, 385, 386, 384, 168,
   302, 414, 172, 180, 328, 376, 334, 440, 448, 340, 341, 301, 413, 26, 181, 329, 377, 167, 131,
   443, 3, 222, 89, 85, 298, 145, 88, -1, 371, 357, 417, 372, 267, 233, 38, 295, 347, 279, 7,
   -1, 40, 383, 174, 176, 175, 178, 173, 179, 177, 421, 330, -1, 378, 353, 352, 342, 380, -1,
   159, 160, 240>>
s390_4 == <<
  346, 155, 157, 161, 423, -1, 239, 345, 154, 156, 158, 348, -1, 394, 393, -1, -1, 420, -1, 187,
   223, 358, 370, 369, 270, 450, 304, -1, 252, 121, 139, 216, 138, 215, 46, 214, 81, 206, -1,
   74, 104, 339, 57, -1, 97, 71, 204, 170, 210, 164, 208, 70, 203, 75, 66, 366, 79, 23, 213,
   224, -1, 397, 396, 398, 395, 373, 67, 186, 48, 316, 322, 73, 126, 119, 72, 359, 102, 360,
   306, -1, -1, -1, 106, 195, 99, 265, 379, 25, -1, -1, 115, 87, -1, 83, 297, 36, 307, -1, 338,
   -1, -1, 135, 116, 103, -1, 308, 241, 13, 254, 258, 257, 256, 408, 255, 409, 317, 319, 321,
   410, 320, 411, 43, 237, 92, 193, 191, 60, 22, 52, 122, 10, 294, 303, 86, 355, 62, 30, 315,
   412, 313, -1, 190, 111, -1, -1, 309, 114, 281, -1, 4, 146>>

s390x_1 == <<
  -1, -1, 149, -1, 364, 33, 51, 278, 124, 27, -1, -1, -1, -1, -1, -1, -1, 134, 361, 351, 45, -1,
   -1, 184, 185, 12, 15, 212, -1, 61, 337, -1, 261, -1, 260, -1, 262, -1, 259, -1, 120, -1, 435,
   6, 436, 362, 375, 8, 127, 129, -1, 41, 63, 326, 249, 327, 250, -1, 312, 441, 251, -1, 318,
   323, -1, -1, 11, 354, 1, 248, 300, 439, 253, -1, 314, 332, 333, 133, 94, 299, 207, -1, 291,
   55, -1, 148, 229, 344, 232, 143, 2, -1, 235, 431, 226, 432, 430, 433, 108, -1, -1, 100, 266,
   118, 93, -1, 238, -1, 449, 292, 130, 269, 305, -1, 311, 183, 141, 220, -1, -1, 202, -1, 201,
   -1, 200, -1, 205, -1, -1, 105, -1, 368, 132, 65, 20, 188, 64, 96, 349, 211, -1, 209, -1, 191,
   77, 147, 367, 365, 236, 78>>
s390x_2 == <<
  199, -1, -1, 227, -1, -1, -1, 112, 128, 285, 284, 324, 286, 247, 244, 245, 382, -1, 243, 246,
   426, 427, 425, 54, -1, -1, 283, 282, 117, 343, -1, 381, 277, 280, 37, 445, 444, 446, 198, -1,
   228, 9, 296, 363, 230, 231, 110, 234, 19, 225, 107, -1, 219, 268, 356, 350, -1, -1, 287, 218,
   39, 289, 14, 290, 150, 374, 152, 90, -1, -1, 21, 442, 429, 310, 125, 276, 275, 271, 274, -1,
   273, -1, 272, 163, 402, 399, 401, 400, 144, -1, 151, 153, 91, 335, 162, 293, 169, 34, -1, -1,
   -1, -1, -1, -1, -1, -1, 5, 336, 428, 288, 437, -1, -1, -1, -1, -1, -1, -1, -1, -1, -1, -1,
   -1, -1, -1, -1, -1, -1, -1, -1, -1, -1, -1, -1, -1, -1, -1, -1, -1, -1, -1, -1, -1, -1, -1,
   -1, -1, -1, -1, -1>>
s390x_3 == <<
  -1, -1, -1, -1, -1, -1, -1, -1, -1, -1, -1, -1, -1, -1, -1, -1, -1, -1, -1, -1, -1, -1, -1,
   -1, -1, -1, -1, -1, -1, -1, -1, -1, -1, -1, -1, -1, -1, -1, -1, -1, -1, -1, -1, -1, -1, -1,
   -1, -1, -1, -1, -1, -1, -1, -1, -1, -1, -1, -1, -1, -1, -1, -1, -1, -1, -1, -1, -1, -1, -1,
   -1, -1, -1, 29, -1, -1, -1, 331, -1, 136, 438, 434, 424, 42, 325, 217, 385, 386, 384, 168,
   302, -1, 172, 180, 328, 376, 334, 440, 448, 340, 341, 301, -1, 26, 181, 329, 377, 167, 131,
   443, 3, 222, 89, 85, 298, 145, 88, -1, 371, 357, -1, 372, 267, 233, 38, 295, 347, 279, 7, -1,
   40, 383, 174, 176, 175, 178, 173, 179, 177, -1, 330, -1, 378, 353, 352, 342, 380, -1, 159,
   160, 240>>
s390x_4 == <<
  346, 155, 157, 161, -1, -1, 239, 345, 154, 156, 158, 348, 142, 394, 393, -1, 392, -1, -1, 187,
   -1, 358, 370, 369, 270, 450, 304, -1, 252, 121, 216, -1, 215, -1, 214, -1, 206, -1, -1, 74,
   104, 339, 57, -1, 97, 204, -1, 210, -1, 208, -1, 203, -1, 75, 66, 366, 79, 213, -1, 224, -1,
   397, 396, 398, 395, 373, 67, 186, 48, 316, 322, 73, 126, 119, 72, 359, 102, 360, 306, -1, -1,
   -1, 106, -1, 99, 265, 379, -1, -1, -1, 115, 87, -1, 83, 297, 36, 307, -1, 338, -1, -1, 135,
   116, 103, -1, 308, 241, -1, 254, 258, 257, 256, -1, 255, -1, 317, 319, 321, -1, 320, -1, 43,
   237, 92, -1, -1, 60, 22, 52, 122, 10, 294, 303, 86, 355, 62, 30, 315, -1, 313, -1, 190, 111,
   -1, -1, 309, 114, 281, -1, 4, 146>>

sparc_1 == <<
  236, 230, 251, 99, 323, 33, 51, 281, 219, 27, -1, -1, -1, -1, -1, -1, -1, 225, 353, 349, 17,
   -1, -1, 21, 22, 12, 15, 13, 35, 61, 334, 405, 258, 406, 257, 403, 259, 407, 256, 404, 217,
   -1, -1, 6, 436, 98, 357, 8, 221, 222, -1, 41, 90, 320, 193, 319, 194, -1, 309, 441, 195, -1,
   313, 318, -1, 11, 59, 350, 1, 188, 296, 439, 209, 210, 314, 329, 330, 176, 124, 295, 123, 32,
   287, 92, 155, 253, 177, 342, 180, 131, 2, -1, 186, 431, 171, 432, 430, 433, 62, 63, 289, 158,
   235, 95, 130, 84, 142, 422, 449, 288, 223, 304, 301, -1, 308, 119, 174, 154, 162, -1, 50, 70,
   49, 69, 47, 53, 79, 115, -1, 86, 64, 141, 224, 81, 20, -1, 197, 100, 347, -1, 111, -1, 109,
   144, 117, 252, 150, 118, 143, 116>>
sparc_2 == <<
  24, 44, -1, 172, -1, -1, -1, -1, 190, 152, 151, 322, 156, 271, 269, 272, 361, 416, 268, 270,
   426, 427, 425, 54, -1, -1, 218, 196, 215, 341, 340, -1, 306, 283, 37, 445, 444, 446, 16, 31,
   173, 9, 292, 354, 178, 179, 208, 182, 19, 170, 40, 132, 75, 303, 351, 348, -1, -1, 302, 78,
   136, 285, 14, 286, 237, 356, 239, 71, 56, -1, 167, 442, 429, 307, 74, 278, 277, 273, 276,
   419, 275, 418, 274, 250, 402, 399, 401, 400, 65, -1, 238, 240, 73, 332, 249, -1, 254, 34, -1,
   -1, -1, 202, -1, -1, -1, -1, 5, 333, 428, 284, 437, -1, -1, -1, -1, -1, -1, -1, -1, -1, -1,
   -1, -1, -1, -1, -1, -1, -1, -1, -1, -1, -1, -1, -1, -1, -1, -1, -1, -1, -1, -1, -1, -1, -1,
   -1, -1, -1, -1, -1, -1>>
sparc_3 == <<
  -1, -1, -1, -1, -1, -1, -1, -1, -1, -1, -1, -1, -1, -1, -1, -1, -1, -1, -1, -1, -1, -1, -1,
   -1, -1, -1, -1, -1, -1, -1, -1, -1, -1, -1, -1, -1, -1, -1, -1, -1, -1, -1, -1, -1, -1, -1,
   -1, -1, -1, -1, -1, -1, -1, -1, -1, -1, -1, -1, -1, -1, -1, -1, -1, -1, -1, -1, -1, -1, -1,
   -1, -1, -1, 29, -1, 148, 149, 327, 18, 191, 438, 434, 424, 42, 321, 146, 363, 364, 362, 153,
   298, 414, 147, 67, 324, 358, 331, 440, 448, 338, 339, 297, 413, 26, 68, 325, 359, 184, 165,
   443, 3, 205, 204, 58, 294, 120, 55, -1, 125, 328, 417, 113, 192, 181, 128, 291, 345, 282, 0,
   -1, 137, 365, 102, 104, 103, 106, 101, 107, 105, 421, 326, -1, -1, -1, -1, -1, -1, 161, 246,
   247, 260>>
sparc_4 == <<
  344, 242, 244, 248, 423, 160, 261, 343, 241, 243, 245, 346, 93, 394, 393, -1, -1, 420, -1, 39,
   140, 336, 114, 133, 305, 450, 300, -1, 166, 163, 229, 94, 228, 91, 46, 89, 80, 82, -1, 88,
   83, 337, 185, -1, 96, 127, 112, -1, 110, -1, 108, 126, 72, 145, 175, 355, 122, 23, 87, 169,
   199, 397, 396, 398, 395, 134, 198, 28, 48, 311, 317, 183, 220, 216, 201, 97, 206, 135, 232,
   -1, -1, 200, 38, 139, 157, 234, 360, 233, -1, -1, 213, 85, -1, 57, 293, 36, 255, -1, 335, -1,
   -1, 226, 214, 207, -1, 280, 211, 231, 266, 265, 264, 263, 408, 262, 409, -1, 312, 316, 410,
   315, 411, 43, 187, 129, 77, -1, 60, 159, 45, 189, 10, 290, 299, 203, 352, 168, 30, 310, 412,
   138, -1, 66, 76, -1, -1, 25, 7, 279, 212, 4, 121>>

sparc64_1 == <<
  236, 230, 251, 99, 323, 33, 51, 281, 219, 27, -1, -1, -1, -1, -1, -1, -1, 225, 353, 349, 17,
   -1, -1, 21, 22, 12, 15, 13, -1, 61, 334, -1, 258, -1, 257, -1, 259, -1, 256, -1, 217, -1, -1,
   6, 436, 98, 357, 8, 221, 222, -1, 41, 90, 320, 193, 319, 194, -1, 309, 441, 195, -1, 313,
   318, -1, 11, 59, 350, 1, 188, 296, 439, 209, 210, 314, 329, 330, 176, 124, 295, 123, -1, 287,
   92, -1, 253, 177, 342, 180, 131, 2, -1, 186, 431, 171, 432, 430, 433, 62, 63, 289, 158, 235,
   95, 130, -1, 142, -1, 449, 288, 223, 304, 301, -1, 308, 119, 174, 154, 162, -1, 50, -1, 49,
   -1, 47, -1, 79, -1, -1, 86, 64, 141, 224, 81, 20, -1, 197, 100, 347, 111, -1, 109, -1, 144,
   117, 252, 150, 118, 143, 116>>
sparc64_2 == <<
  24, -1, -1, 172, -1, -1, -1, -1, 190, 152, 151, 322, 156, 271, 269, 272, 361, -1, 268, 270,
   426, 427, 425, 54, -1, -1, 218, 196, 215, 341, 340, -1, 306, 283, 37, 445, 444, 446, 16, -1,
   173, 9, 292, 354, 178, 179, 208, 182, 19, 170, 40, 132, 75, 303, 351, 348, -1, 52, 302, 78,
   136, 285, 14, 286, 237, 356, 239, 71, -1, -1, 167, 442, 429, 307, 74, 278, 277, 273, 276, -1,
   275, -1, 274, 250, 402, 399, 401, 400, 65, -1, 238, 240, 73, 332, 249, -1, 254, 34, -1, -1,
   -1, 202, -1, -1, -1, -1, 5, 333, 428, 284, 437, -1, -1, -1, -1, -1, -1, -1, -1, -1, -1, -1,
   -1, -1, -1, -1, -1, -1, -1, -1, -1, -1, -1, -1, -1, -1, -1, -1, -1, -1, -1, -1, -1, -1, -1,
   -1, -1, -1, -1, -1>>
sparc64_3 == <<
  -1, -1, -1, -1, -1, -1, -1, -1, -1, -1, -1, -1, -1, -1, -1, -1, -1, -1, -1, -1, -1, -1, -1,
   -1, -1, -1, -1, -1, -1, -1, -1, -1, -1, -1, -1, -1, -1, -1, -1, -1, -1, -1, -1, -1, -1, -1,
   -1, -1, -1, -1, -1, -1, -1, -1, -1, -1, -1, -1, -1, -1, -1, -1, -1, -1, -1, -1, -1, -1, -1,
   -1, -1, -1, 29, -1, 148, 149, 327, 18, 191, 438, 434, 424, 42, 321, 146, 363, 364, 362, 153,
   298, -1, 147, 67, 324, 358, 331, 440, 448, 338, 339, 297, -1, 26, 68, 325, 359, 184, 165,
   443, 3, 205, 204, 58, 294, 120, 55, -1, 125, 328, -1, 113, 192, 181, 128, 291, 345, 282, 0,
   -1, 137, 365, 102, 104, 103, 106, 101, 107, 105, -1, 326, -1, -1, -1, -1, -1, -1, 161, 246,
   247, 260>>
sparc64_4 == <<
  344, 242, 244, 248, -1, 160, 261, 343, 241, 243, 245, 346, 93, 394, 393, -1, 392, -1, -1, 39,
   140, 336, 114, 133, 305, 450, 300, -1, 166, 163, 229, -1, 228, -1, 46, -1, 80, -1, -1, 88,
   83, 337, 185, -1, 96, 127, -1, 110, -1, 108, -1, 126, -1, 145, 175, 355, 122, 23, -1, 169,
   199, 397, 396, 398, 395, 134, 198, 28, 48, 311, 317, 183, 220, 216, 201, 97, 206, 135, 232,
   -1, -1, 200, 38, 139, 157, 234, 360, 233, -1, -1, 213, 85, -1, 57, 293, 36, 255, -1, 335, -1,
   -1, 226, 214, 207, -1, 280, 211, -1, 266, 265, 264, 263, -1, 262, -1, -1, 312, 316, -1, 315,
   -1, 43, 187, 129, -1, -1, 60, 159, 45, 189, 10, 290, 299, 203, 352, 168, 30, 310, -1, 138,
   164, 66, 76, -1, -1, 25, 7, 279, 212, 4, 121>>

x86_64_1 == <<
  -1, -1, 156, 43, 288, 21, 163, 248, 159, 37, -1, -1, -1, 158, -1, -1, -1, -1, 49, 321, 12, -1,
   -1, 125, 126, 80, 90, 92, -1, 161, 305, -1, 229, -1, 228, -1, 230, -1, 227, -1, 56, -1, 435,
   3, 436, 42, 326, 85, 174, 176, -1, 32, 33, 292, 213, 291, 233, 214, 281, 441, 232, 215, 284,
   290, -1, -1, 59, 322, 60, 231, 269, 439, 221, -1, 285, 300, 301, 81, 91, 268, 93, -1, 260,
   72, -1, 75, 193, 313, 196, 73, 57, -1, 199, 431, 190, 432, 430, 433, 5, -1, -1, 138, -1, 74,
   77, -1, 202, -1, 449, 261, 177, 239, 274, 211, 309, 79, 78, 217, -1, -1, 108, -1, 107, -1,
   104, -1, 115, -1, -1, 36, -1, 52, 121, 111, 39, 181, 110, 140, 318, 120, -1, 118, -1, 97, 98,
   124, 51, 55, 186, 96>>
x86_64_2 == <<
  102, -1, -1, 191, -1, -1, -1, -1, 175, 254, 253, 294, 255, 210, 207, 208, 333, -1, 206, 209,
   426, 427, 425, 16, 173, 172, 252, 251, -1, 312, -1, 320, 246, 250, 62, 445, 444, 446, 94, -1,
   192, 86, 265, 50, 194, 195, 212, 198, 8, 189, 6, -1, 28, 237, 324, 319, 447, -1, 256, 27, 83,
   258, 133, 259, 149, 325, 151, 9, -1, 154, 165, 442, 429, 279, 10, 245, 244, 240, 243, -1,
   242, -1, 241, 25, 71, 68, 70, 69, 26, -1, 150, 152, 11, 303, 35, 262, 180, -1, -1, -1, -1,
   -1, -1, -1, -1, -1, 2, 304, 428, 257, 437, -1, -1, -1, -1, -1, -1, -1, -1, -1, -1, -1, -1,
   -1, -1, -1, -1, -1, -1, -1, -1, -1, -1, -1, -1, -1, -1, -1, -1, -1, -1, -1, -1, -1, -1, -1,
   -1, -1, -1, -1>>
x86_64_3 == <<
  -1, -1, -1, -1, -1, -1, -1, -1, -1, -1, -1, -1, -1, -1, -1, -1, -1, -1, -1, -1, -1, -1, -1,
   -1, -1, -1, -1, -1, -1, -1, -1, -1, -1, -1, -1, -1, -1, -1, -1, -1, -1, -1, -1, -1, -1, -1,
   -1, -1, -1, -1, -1, -1, -1, -1, -1, -1, -1, -1, -1, -1, -1, -1, -1, -1, -1, -1, -1, -1, -1,
   -1, -1, -1, 34, -1, -1, -1, 298, -1, 135, 438, 434, 424, 22, 293, 155, 330, 331, 329, 7, 271,
   -1, 157, 17, 295, 327, 302, 440, 448, 310, 311, 270, -1, 101, 18, 296, 328, 178, 179, 443, 0,
   187, -1, 89, 267, 19, 169, -1, 45, 299, -1, 47, 216, 197, 82, 264, 316, 249, 219, -1, 84,
   334, 13, 127, 14, 129, 15, 130, 128, -1, 297, -1, -1, -1, -1, -1, -1, -1, 146, 147, 204>>
x86_64_4 == <<
  315, 143, 145, 148, -1, -1, 203, 314, 142, 144, 24, 317, 23, 66, 64, 65, 220, -1, -1, 40, -1,
   307, 46, 44, 238, 450, 273, 205, 218, 171, 123, -1, 122, -1, 106, -1, 116, -1, -1, 170, 38,
   308, 109, -1, 141, 114, -1, 119, -1, 117, -1, 113, -1, 160, 112, 54, 164, 105, -1, 188, -1,
   30, 31, 67, 29, 48, -1, 131, -1, 282, 289, -1, -1, -1, -1, 41, -1, 53, 275, -1, -1, -1, 4,
   -1, 137, -1, 332, -1, -1, -1, 168, 167, -1, 88, 266, 162, 277, -1, 306, -1, -1, 139, 99, 103,
   -1, 276, 234, 201, 222, 226, 225, 224, -1, 223, -1, -1, 283, 287, -1, 286, -1, 100, 200, 76,
   -1, -1, 95, -1, 166, 63, 87, 263, 272, 134, 323, 136, 132, 280, -1, 235, -1, 58, 153, -1, -1,
   278, 61, 247, -1, 1, 20>>

-----------------------------------------------------------------------------
(* what the linker is given: the four parts of one table *)
syscall_ids ==
  [alpha |-> alpha_1 \o alpha_2 \o alpha_3 \o alpha_4,
   arc |-> arc_1 \o arc_2 \o arc_3 \o arc_4,
   arm |-> arm_1 \o arm_2 \o arm_3 \o arm_4,
   arm64 |-> arm64_1 \o arm64_2 \o arm64_3 \o arm64_4,
   csky |-> csky_1 \o csky_2 \o csky_3 \o csky_4,
   i386 |-> i386_1 \o i386_2 \o i386_3 \o i386_4,
   ia64 |-> ia64_1 \o ia64_2 \o ia64_3 \o ia64_4,
   loongarch64 |-> loongarch64_1 \o loongarch64_2 \o loongarch64_3 \o loongarch64_4,
   m68k |-> m68k_1 \o m68k_2 \o m68k_3 \o m68k_4,
   microblaze |-> microblaze_1 \o microblaze_2 \o microblaze_3 \o microblaze_4,
   mips64 |-> mips64_1 \o mips64_2 \o mips64_3 \o mips64_4,
   parisc |-> parisc_1 \o parisc_2 \o parisc_3 \o parisc_4,
   riscv32 |-> riscv32_1 \o riscv32_2 \o riscv32_3 \o riscv32_4,
   riscv64 |-> riscv64_1 \o riscv64_2 \o riscv64_3 \o riscv64_4,
   s390 |-> s390_1 \o s390_2 \o s390_3 \o s390_4,
   s390x |-> s390x_1 \o s390x_2 \o s390x_3 \o s390x_4,
   sparc |-> sparc_1 \o sparc_2 \o sparc_3 \o sparc_4,
   sparc64 |-> sparc64_1 \o sparc64_2 \o sparc64_3 \o sparc64_4,
   x86_64 |-> x86_64_1 \o x86_64_2 \o x86_64_3 \o x86_64_4]

(* of the enumeration syscall_t: a place, and the number of calls *)
SYSCALL_exit_group == 70
SYSCALL_MAX == 601
=============================================================================
